--------------------------- MODULE DownloadManager ---------------------------
(***************************************************************************)
(* DownloadManager (src/client/DownloadManager.cpp): the connections that  *)
(* download.  Each has a thread, which asks for a part (checkDownloads),   *)
(* sends GET, receives and asks again; g_download_map has the downloads    *)
(* that were requested, g_idlers the connections that found nothing to     *)
(* do.  Those are woken by way of ConnectionManager: getDownloadConnection *)
(* writes the user down, the timer takes the list every second and calls   *)
(* checkIdle, which puts an UPDATED into the queue of the connection.      *)
(*                                                                         *)
(* The lists are under g_csDownload, taken anew for every look and change. *)
(* What getDownload answers is QueueManager's matter (modules UserQueue    *)
(* and QueueItem), so here it may find a part or not.  A user has one      *)
(* connection to download, which stands for him.  What a download does to  *)
(* its file, the tick of the lists and the shutdown are left out.          *)
(***************************************************************************)
EXTENDS Integers, FiniteSets

CONSTANTS
  Conns,        \* UserConnection objects; one is reused for the next that comes
  Downloads,    \* Download objects a connection may have
  NoDownload,   \* nullptr
  Slots,        \* SETTING(DOWNLOAD_SLOTS), 0 for no limit
  ExtraSlots,   \* SETTING(EXTRA_DOWNLOAD_SLOTS), for priority HIGHEST
  MaxUpdates    \* bound: UPDATED tasks that wait for one connection

ASSUME NoDownloadAssumption == NoDownload \notin Downloads
ASSUME SlotsAssumption == Slots \in Nat /\ ExtraSlots \in Nat /\ MaxUpdates \in Nat
ASSUME FiniteAssumption == IsFiniteSet(Conns) /\ IsFiniteSet(Downloads)

VARIABLES
  state,        \* of a connection: where its thread is
  cur,          \* UserConnection::getDownload()
  seen,         \* downloadCount, while checkDownloads has to do with it
  gets,         \* the GETs that the peer has not answered yet
  updates,      \* UPDATED tasks in its socket's queue
  idlers,       \* g_idlers
  listed,       \* g_download_map, each with the connection it is of
  check,        \* ConnectionManager::m_checkIdle
  l_idlers,     \* the users the timer has taken from it
  stray         \* history: connections whose thread took an UPDATED while busy

transfer == <<state, cur, seen, gets>>
lists == <<idlers, listed>>
waking == <<check, l_idlers>>
vars == <<transfer, updates, lists, waking, stray>>

Prios == {"PAUSED", "LOWEST", "NORMAL", "HIGHEST"}
Busy == {"snd", "running"}
AtRest == Busy \cup {"idle"}

TypeOK ==
  /\ state \in [Conns -> {"none", "check", "counted", "got", "missed"} \cup AtRest]
  /\ cur \in [Conns -> Downloads \cup {NoDownload}]
  /\ seen \in [Conns -> Nat]
  /\ gets \in [Conns -> Nat]
  /\ updates \in [Conns -> 0..MaxUpdates]
  /\ idlers \subseteq Conns
  /\ listed \subseteq Conns \X Downloads
  /\ check \subseteq Conns /\ l_idlers \subseteq Conns
  /\ stray \subseteq Conns
  /\ \A c \in Conns : state[c] \in {"got"} \cup Busy => cur[c] # NoDownload

Init ==
  /\ state = [c \in Conns |-> "none"]
  /\ cur = [c \in Conns |-> NoDownload]
  /\ seen = [c \in Conns |-> 0]
  /\ gets = [c \in Conns |-> 0]
  /\ updates = [c \in Conns |-> 0]
  /\ idlers = {} /\ listed = {}
  /\ check = {} /\ l_idlers = {} /\ stray = {}

-----------------------------------------------------------------------------
GoTo(c, s) == state' = [state EXCEPT ![c] = s]

\* Mutant of remove_idlers: the connection stays among the idle ones.
remove_idlersNot(c) == idlers' = idlers

remove_idlers(c) == idlers' = idlers \ {c}

\* Mutant of removeDownload: only a download that was received is taken off.
removeDownloadReceived(c) ==
  listed' = IF state[c] = "running" THEN listed \ {<<c, cur[c]>>} ELSE listed

removeDownload(c) == listed' = listed \ {<<c, cur[c]>>}

(* The listener goes and the socket is told to disconnect: what the thread *)
(* still has to do, it does for others.                                    *)
removeConnection(c) ==
  /\ GoTo(c, "none")
  /\ cur' = [cur EXCEPT ![c] = NoDownload]
  /\ gets' = [gets EXCEPT ![c] = 0]
  /\ updates' = [updates EXCEPT ![c] = 0]

failDownload(c) == removeDownload(c) /\ removeConnection(c)

\* Mutant of isStartDownload: the extra slots have no limit.
isStartDownloadExtra(count, fast, prio) ==
  IF fast \/ (Slots # 0 /\ count >= Slots) THEN prio = "HIGHEST"
  ELSE count > 0 => prio # "LOWEST"

(* "fast": the speed limit is reached.                                     *)
isStartDownload(count, fast, prio) ==
  IF fast \/ (Slots # 0 /\ count >= Slots)
  THEN prio = "HIGHEST" /\ (Slots # 0 => count < Slots + ExtraSlots)
  ELSE count > 0 => prio # "LOWEST"

-----------------------------------------------------------------------------
(* checkDownloads, in the thread of the connection.                        *)

addConnection(c) ==
  /\ state[c] = "none"
  /\ GoTo(c, "check")
  /\ UNCHANGED <<cur, seen, gets, updates, lists, waking, stray>>

checkDownloads(c) ==
  LET downloadCount == Cardinality(listed)
  IN /\ state[c] = "check"
     /\ \E fast \in BOOLEAN, prio \in Prios :
          IF isStartDownload(downloadCount, fast, prio)
          THEN /\ GoTo(c, "counted")
               /\ seen' = [seen EXCEPT ![c] = downloadCount]
               /\ UNCHANGED <<cur, gets, updates>>
          ELSE removeConnection(c) /\ UNCHANGED seen
     /\ UNCHANGED <<lists, waking, stray>>

\* Mutant of getDownload: that there is none is not noticed.
getDownloadAny(c) ==
  /\ state[c] = "counted"
  /\ GoTo(c, "got")
  /\ UNCHANGED <<cur, seen, gets, updates, lists, waking, stray>>

(* QueueManager::getDownload makes a new download the current one ...      *)
getDownload(c) ==
  \E d \in Downloads :
    /\ state[c] = "counted" /\ d # cur[c] /\ <<c, d>> \notin listed
    /\ GoTo(c, "got")
    /\ cur' = [cur EXCEPT ![c] = d]
    /\ UNCHANGED <<seen, gets, updates, lists, waking, stray>>

(* ... and it is listed and requested.                                     *)
Request(c) ==
  /\ state[c] = "got"
  /\ GoTo(c, "snd")
  /\ listed' = listed \cup {<<c, cur[c]>>}
  /\ gets' = [gets EXCEPT ![c] = @ + 1]
  /\ seen' = [seen EXCEPT ![c] = 0]
  /\ UNCHANGED <<cur, updates, idlers, waking, stray>>

(* There is none: the connection is put among the idle ones.               *)
MissDownload(c) ==
  /\ state[c] = "counted"
  /\ GoTo(c, "missed")
  /\ seen' = [seen EXCEPT ![c] = 0]
  /\ UNCHANGED <<cur, gets, updates, lists, waking, stray>>

BecomeIdle(c) ==
  /\ state[c] = "missed"
  /\ GoTo(c, "idle")
  /\ idlers' = idlers \cup {c}
  /\ UNCHANGED <<cur, seen, gets, updates, listed, waking, stray>>

-----------------------------------------------------------------------------
(* What the thread is told by the peer and by its socket.                  *)

Answered(c) == gets' = [gets EXCEPT ![c] = @ - 1]

(* on(SND) and startData, which may find that the answer is not to what    *)
(* was asked or that the file cannot be opened.                            *)
SND(c) ==
  /\ state[c] = "snd" /\ gets[c] > 0
  /\ \/ GoTo(c, "running") /\ Answered(c) /\ UNCHANGED <<cur, updates, listed>>
     \/ failDownload(c)
  /\ UNCHANGED <<seen, idlers, waking, stray>>

noSlots(c) ==
  /\ state[c] = "snd" /\ gets[c] > 0
  /\ failDownload(c)
  /\ UNCHANGED <<seen, idlers, waking, stray>>

fileNotAvailable(c) ==
  /\ state[c] = "snd" /\ gets[c] > 0 /\ Answered(c)
  /\ removeDownload(c)
  /\ GoTo(c, "check")
  /\ UNCHANGED <<cur, seen, updates, idlers, waking, stray>>

(* An answer in another state is passed over, or disconnects.              *)
BadState(c) ==
  /\ state[c] \in {"idle", "running"} /\ gets[c] > 0 /\ Answered(c)
  /\ UNCHANGED <<state, cur, seen, updates, lists, waking, stray>>

(* Data cannot be written, or the tree was wrong.                          *)
fireData(c) ==
  /\ state[c] = "running"
  /\ failDownload(c)
  /\ UNCHANGED <<seen, idlers, waking, stray>>

(* All is there.  A HashException of putDownload leaves the connection     *)
(* as it is.                                                               *)
endData(c) ==
  /\ state[c] = "running" /\ <<c, cur[c]>> \in listed
  /\ removeDownload(c)
  /\ GoTo(c, "check") \/ UNCHANGED state
  /\ UNCHANGED <<cur, seen, gets, updates, idlers, waking, stray>>

onFailed(c) ==
  /\ state[c] \in AtRest
  /\ remove_idlers(c)
  /\ failDownload(c)
  /\ UNCHANGED <<seen, waking, stray>>

(* The task is meant for a connection that is idle; that is not looked at. *)
Updated(c) ==
  /\ state[c] \in AtRest /\ updates[c] > 0
  /\ updates' = [updates EXCEPT ![c] = @ - 1]
  /\ stray' = IF state[c] = "idle" THEN stray ELSE stray \cup {c}
  /\ remove_idlers(c)
  /\ GoTo(c, "check")
  /\ UNCHANGED <<cur, seen, gets, listed, waking>>

-----------------------------------------------------------------------------
(* ConnectionManager.                                                      *)

(* Something was found for a user who has a request already.               *)
getDownloadConnection(c) ==
  /\ c \notin check
  /\ check' = check \cup {c}
  /\ UNCHANGED <<transfer, updates, lists, l_idlers, stray>>

\* Mutant of Second: those of the last second are not waited for.
SecondClears ==
  /\ check # {}
  /\ l_idlers' = {} /\ check' = {}
  /\ UNCHANGED <<transfer, updates, lists, stray>>

(* on(Second) takes the list ...                                           *)
Second ==
  /\ l_idlers = {} /\ check # {}
  /\ l_idlers' = check /\ check' = {}
  /\ UNCHANGED <<transfer, updates, lists, stray>>

(* ... and wakes one after the other, if they are idle then.               *)
checkIdle(c) ==
  /\ c \in l_idlers
  /\ l_idlers' = l_idlers \ {c}
  /\ IF c \in idlers
     THEN updates[c] < MaxUpdates /\ updates' = [updates EXCEPT ![c] = @ + 1]
     ELSE UNCHANGED updates
  /\ UNCHANGED <<transfer, lists, check, stray>>

-----------------------------------------------------------------------------
CheckStep(c) ==
  \/ checkDownloads(c) \/ getDownload(c) \/ Request(c) \/ MissDownload(c) \/ BecomeIdle(c)

PeerStep(c) ==
  \/ addConnection(c) \/ SND(c) \/ noSlots(c) \/ fileNotAvailable(c) \/ BadState(c)
  \/ fireData(c) \/ endData(c) \/ onFailed(c) \/ getDownloadConnection(c)

ConnStep(c) == CheckStep(c) \/ PeerStep(c) \/ Updated(c) \/ checkIdle(c)

Next == Second \/ \E c \in Conns : ConnStep(c)

Spec == Init /\ [][Next]_vars

(* The timer ticks and a socket's thread takes its tasks one after the     *)
(* other; that a peer answers is not assumed.                              *)
Fairness ==
  /\ WF_vars(Second)
  /\ \A c \in Conns : WF_vars(checkIdle(c)) /\ WF_vars(Updated(c))

FairSpec == Spec /\ Fairness

-----------------------------------------------------------------------------
(* checkIdle calls the connections of g_idlers and abortDownload those of  *)
(* the listed downloads, both from other threads: every connection among   *)
(* the idle ones is in use and idle, and every listed download, which      *)
(* counts against the slots and keeps ~DownloadManager waiting, is the     *)
(* current one of a connection that transfers it.  Only a connection that  *)
(* took a second UPDATED while it was busy may have left one behind.       *)
OnlyLive ==
  /\ \A c \in Conns : c \in idlers <=> state[c] = "idle"
  /\ \A c \in Conns \ stray, d \in Downloads :
       <<c, d>> \in listed => d = cur[c] /\ state[c] \in Busy

(* DownloadManager.cpp:433 dcassert(0): an answer comes to a connection    *)
(* that waits for it, and to one request only; apart from those that took  *)
(* a second UPDATED while they were busy.                                  *)
AnswersAwaited ==
  \A c \in Conns \ stray : gets[c] = IF state[c] = "snd" THEN 1 ELSE 0

(* No connection takes an UPDATED while it is busy.                        *)
Undisturbed == stray = {}

(* The slots are tested in isStartDownload and taken much later, by any    *)
(* number of threads: a download that is one too many was listed by a      *)
(* connection that another one overtook between the two.                   *)
SlotLimit ==
  [][\A c \in Conns :
       state[c] = "got" /\ state'[c] = "snd" /\ Slots # 0 /\ Cardinality(listed) <= seen[c]
         => Cardinality(listed') <= Slots + ExtraSlots]_vars

(* No wake-up is lost on its way: a user who is written down while his     *)
(* connection is idle has it look for a download again, or it ends.        *)
WakeUpServed ==
  \A c \in Conns : c \in check /\ c \in idlers ~> state[c] # "idle"

=============================================================================
