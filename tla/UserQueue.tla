------------------------------ MODULE UserQueue ------------------------------
(***************************************************************************)
(* QueueManager::UserQueue (src/client/QueueManager.cpp): which file is    *)
(* downloaded from whom.  For every priority and user there is a list of   *)
(* the files he is a source of; getNextL walks the lists when he has a     *)
(* connection, and g_runningMap says what he is sending.  With it goes     *)
(* what asks for his connection: ConnectionManager's item and its timer.   *)
(*                                                                         *)
(* The lists are changed under QueueItem::g_cs, g_runningMap and the       *)
(* downloads of an item under locks of their own, the priority under none. *)
(* Nothing of what getDownload found holds once it has let g_cs go.        *)
(*                                                                         *)
(* An item is the object, not the target: one that was removed may still   *)
(* be listed, chosen or in the hands of a thread.  Its segments are those  *)
(* of the module QueueItem: here it has a part for the user or not, and a  *)
(* part that ends may complete it.  A user has one connection to download. *)
(* File lists, partial sources, trees and the rechecker are left out, and  *)
(* removeSource(user), which removes him from one item after the other.    *)
(***************************************************************************)
EXTENDS Integers, Sequences, FiniteSets, SequencesExt

CONSTANTS
  Items,        \* QueueItem objects
  Users,
  NoItem,       \* nullptr
  Highest,      \* the priorities are 0 = PAUSED .. Highest
  FileSlots,    \* SETTING(FILE_SLOTS), 0 for no limit
  MaxChanges,   \* bound: how often a priority is changed
  MaxThreads    \* bound: the threads that add a source at once

ASSUME NoItemAssumption == NoItem \notin Items
ASSUME BoundsAssumption == Highest \in Nat \ {0} /\ FileSlots \in Nat
                           /\ MaxChanges \in Nat /\ MaxThreads \in Nat

VARIABLES
  status,       \* of an item: in g_queue, with something done or all; or gone
  completed,    \* the items that were finished at some time
  prio,         \* QueueItem::m_priority
  changes,      \* how often it was changed
  sources,      \* QueueItem::m_sources
  list,         \* g_userQueueMap
  running,      \* g_runningMap
  downloads,    \* QueueItem::m_downloads, the users of them
  conn,         \* a user's download connection and how far getDownload is
  dl,           \* the item of its getDownload(), NoItem before the first
  adding,       \* threads that have an item in hand to add a source to it
  leaving,      \* items that a thread is taking out of the queue
  asking,       \* calls of get_download_connection to come
  asked,        \* ConnectionManager::g_downloads
  doomed,       \* l_removed: those the timer is about to remove
  online        \* User::isOnline

files == <<status, completed, prio, changes>>
lists == <<sources, list>>
transfers == <<running, downloads>>
connections == <<conn, dl>>
threads == <<adding, leaving>>
requests == <<asking, asked, doomed>>
vars == <<files, lists, transfers, connections, threads, requests, online>>

Priorities == 0..Highest
PAUSED == 0
LOWEST == 1
Busy == {"chosen", "listed", "loading"}

TypeOK ==
  /\ status \in [Items -> {"new", "queued", "begun", "finished", "removed"}]
  /\ completed \subseteq Items
  /\ prio \in [Items -> Priorities] /\ changes \in 0..MaxChanges
  /\ sources \in [Items -> SUBSET Users]
  /\ list \in [Priorities -> [Users -> Seq(Items)]]
  /\ running \in [Users -> Items \cup {NoItem}]
  /\ downloads \in [Items -> SUBSET Users]
  /\ conn \in [Users -> {"none", "ready"} \cup Busy]
  /\ dl \in [Users -> Items \cup {NoItem}]
  /\ \A u \in Users : conn[u] \in Busy => dl[u] # NoItem
  /\ adding \subseteq Items \X Users /\ leaving \subseteq Items
  /\ asking \subseteq Users /\ asked \subseteq Users /\ doomed \subseteq Users
  /\ online \subseteq Users

Init ==
  /\ status = [i \in Items |-> "new"] /\ completed = {}
  /\ prio = [i \in Items |-> PAUSED] /\ changes = 0
  /\ sources = [i \in Items |-> {}]
  /\ list = [p \in Priorities |-> [u \in Users |-> <<>>]]
  /\ running = [u \in Users |-> NoItem]
  /\ downloads = [i \in Items |-> {}]
  /\ conn = [u \in Users |-> "none"]
  /\ dl = [u \in Users |-> NoItem]
  /\ adding = {} /\ leaving = {} /\ asking = {} /\ asked = {} /\ doomed = {}
  /\ online = Users

-----------------------------------------------------------------------------
(* The lists.                                                              *)

InQueue(i) == status[i] \in {"queued", "begun", "finished"}
isFinished(i) == status[i] = "finished"
Listed(i, p, u) == \E k \in 1..Len(list[p][u]) : list[p][u][k] = i

(* A file of which something is there goes first.                          *)
addL(i, u) ==
  list' = [list EXCEPT ![prio[i]][u] =
    IF status[i] \in {"begun", "finished"} THEN <<i>> \o @ ELSE Append(@, i)]

(* getRunningFileCount < FILE_SLOTS                                        *)
FileSlotFree ==
  FileSlots = 0 \/ Cardinality({i \in Items : InQueue(i) /\ downloads[i] # {}}) < FileSlots

(* What getNextL does not skip: "parts" are the items with a free part.    *)
Offers(i, u, parts) ==
  /\ u \in sources[i]
  /\ IF downloads[i] = {} THEN FileSlotFree ELSE i \in parts

getNextL(u, minPrio, parts) ==
  LET places == {c \in UNION {{p} \X DOMAIN list[p][u] : p \in minPrio..Highest} :
                   Offers(list[c[1]][u][c[2]], u, parts)}
      first == CHOOSE c \in places : \A d \in places :
                   d[1] < c[1] \/ (d[1] = c[1] /\ c[2] <= d[2])
  IN IF places = {} THEN NoItem ELSE list[first[1]][u][first[2]]

hasDownload(u, parts) ==
  LET qi == getNextL(u, LOWEST, parts) IN IF qi = NoItem THEN PAUSED ELSE prio[qi]

\* Mutant of removeDownload: the download is forgotten by the item only.
removeDownloadHalf(i, us) ==
  /\ running' = running
  /\ downloads' = [downloads EXCEPT ![i] = @ \ us]

removeDownload(i, us) ==
  /\ running' = [u \in Users |-> IF u \in us THEN NoItem ELSE running[u]]
  /\ downloads' = [downloads EXCEPT ![i] = @ \ us]

(* For users who are sources: the item is looked for in the list of its    *)
(* present priority.                                                       *)
removeUserL(i, us) ==
  /\ list' = [list EXCEPT ![prio[i]] =
       [u \in Users |-> IF u \in us THEN RemoveFirst(@[u], i) ELSE @[u]]]
  /\ removeDownload(i, {u \in us : running[u] = i})

-----------------------------------------------------------------------------
(* The user, the hubs and the search results.                              *)

add(i, p) ==
  /\ status[i] = "new"
  /\ status' = [status EXCEPT ![i] = "queued"]
  /\ prio' = [prio EXCEPT ![i] = p]
  /\ UNCHANGED <<completed, changes, lists, transfers, connections, threads, requests, online>>

(* add, readd and the search results find the item first ...               *)
find_target(i, u) ==
  /\ InQueue(i) /\ Cardinality(adding) < MaxThreads
  /\ adding' = adding \cup {<<i, u>>}
  /\ UNCHANGED <<files, lists, transfers, connections, leaving, requests, online>>

(* ... and may be told then that he is a source already, or a bad one.     *)
Refuse(i, u) ==
  /\ <<i, u>> \in adding
  /\ adding' = adding \ {<<i, u>>}
  /\ UNCHANGED <<files, lists, transfers, connections, leaving, requests, online>>

addSourceL(i, u) ==
  /\ <<i, u>> \in adding /\ u \notin sources[i]
  /\ adding' = adding \ {<<i, u>>}
  /\ sources' = [sources EXCEPT ![i] = @ \cup {u}]
  /\ IF isFinished(i) THEN UNCHANGED <<list, asking>>
     ELSE /\ addL(i, u)
          /\ asking' = IF prio[i] # PAUSED /\ running[u] = NoItem /\ u \in online
                       THEN asking \cup {u} ELSE asking
  /\ UNCHANGED <<files, transfers, connections, leaving, asked, doomed, online>>

\* Mutant of setPriority: the item is taken out of the old lists.
setPriorityRemoves(i, p) ==
  /\ status[i] \in {"queued", "begun"} /\ prio[i] # p
  /\ changes < MaxChanges /\ changes' = changes + 1
  /\ prio' = [prio EXCEPT ![i] = p]
  /\ list' = [list EXCEPT ![prio[i]] = [u \in Users |-> RemoveFirst(@[u], i)]]
  /\ UNCHANGED <<status, completed, sources, transfers, connections, threads, requests, online>>

(* The lists stay as they are.  A pause also aborts the downloads, as any  *)
(* of them may fail at any time.                                           *)
setPriority(i, p) ==
  /\ InQueue(i) /\ ~isFinished(i) /\ prio[i] # p
  /\ changes < MaxChanges /\ changes' = changes + 1
  /\ prio' = [prio EXCEPT ![i] = p]
  /\ asking' = IF (prio[i] = PAUSED \/ p = Highest) /\ p # PAUSED
               THEN asking \cup (sources[i] \cap online) ELSE asking
  /\ UNCHANGED <<status, completed, lists, transfers, connections, threads, asked, doomed, online>>

(* removeSource(target, user)                                              *)
removeSource(i, u) ==
  /\ InQueue(i) /\ u \in sources[i]
  /\ IF isFinished(i)
     THEN /\ removeDownload(i, {v \in {u} : running[v] = i})
          /\ UNCHANGED list
     ELSE removeUserL(i, {u})
  /\ sources' = [sources EXCEPT ![i] = @ \ {u}]
  /\ UNCHANGED <<files, connections, threads, requests, online>>

(* removeTarget, of an item that was found in the queue: it leaves the     *)
(* lists of its sources ...                                                *)
removeTarget(i) ==
  /\ InQueue(i)
  /\ IF isFinished(i) THEN UNCHANGED <<list, transfers>> ELSE removeUserL(i, sources[i])
  /\ leaving' = leaving \cup {i}
  /\ UNCHANGED <<files, sources, connections, adding, requests, online>>

(* ... and then the queue, under another lock.                             *)
removeDeferredDB(i) ==
  /\ i \in leaving
  /\ leaving' = leaving \ {i}
  /\ status' = [status EXCEPT ![i] = "removed"]
  /\ UNCHANGED <<completed, prio, changes, lists, transfers, connections, adding, requests,
                  online>>

UserConnected(u) ==
  /\ u \notin online
  /\ online' = online \cup {u}
  /\ asking' = IF \E p \in LOWEST..Highest : list[p][u] # <<>> THEN asking \cup {u} ELSE asking
  /\ UNCHANGED <<files, lists, transfers, connections, threads, asked, doomed>>

UserDisconnected(u) ==
  /\ u \in online
  /\ online' = online \ {u}
  /\ running' = [running EXCEPT ![u] = NoItem]
  /\ UNCHANGED <<files, lists, downloads, connections, threads, requests>>

-----------------------------------------------------------------------------
(* ConnectionManager: the request for a user's connection.                 *)

getDownloadConnection(u) ==
  /\ u \in asking
  /\ asking' = asking \ {u}
  /\ asked' = asked \cup {u}
  /\ UNCHANGED <<files, lists, transfers, connections, threads, doomed, online>>

addConnection(u) ==
  /\ u \in asked /\ u \in online /\ conn[u] = "none"
  /\ conn' = [conn EXCEPT ![u] = "ready"]
  /\ dl' = [dl EXCEPT ![u] = NoItem]
  /\ UNCHANGED <<files, lists, transfers, threads, requests, online>>

(* The timer looks at a request that has no connection ...                 *)
SeeUnwanted(u, parts) ==
  /\ u \in asked \ doomed /\ conn[u] = "none"
  /\ u \notin online \/ hasDownload(u, parts) = PAUSED
  /\ doomed' = doomed \cup {u}
  /\ UNCHANGED <<files, lists, transfers, connections, threads, asking, asked, online>>

(* ... and removes it when it has seen all, under another lock.            *)
putCQI(u) ==
  /\ u \in doomed
  /\ doomed' = doomed \ {u}
  /\ asked' = asked \ {u}
  /\ running' = [running EXCEPT ![u] = NoItem]
  /\ UNCHANGED <<files, lists, downloads, connections, threads, asking, online>>

(* His upload connection ends: putCQI_L does the same for both.            *)
putUpload(u) ==
  /\ running[u] # NoItem
  /\ running' = [running EXCEPT ![u] = NoItem]
  /\ UNCHANGED <<files, lists, downloads, connections, threads, requests, online>>

-----------------------------------------------------------------------------
(* The thread of a download connection.                                    *)

\* Mutant of getDownload: that there is nothing for him is not noticed.
getDownloadAny(u, parts) ==
  /\ conn[u] = "ready"
  /\ conn' = [conn EXCEPT ![u] = "chosen"]
  /\ dl' = [dl EXCEPT ![u] = getNextL(u, LOWEST, parts)]
  /\ UNCHANGED <<files, lists, transfers, threads, requests, online>>

(* If the temporary file is gone the item begins anew, also a finished one *)
(* that was moved but is still listed.                                     *)
getDownload(u, parts) ==
  LET q == getNextL(u, LOWEST, parts)
  IN /\ conn[u] = "ready" /\ q # NoItem
     /\ conn' = [conn EXCEPT ![u] = "chosen"]
     /\ dl' = [dl EXCEPT ![u] = q]
     /\ \/ UNCHANGED status
        \/ status[q] \in {"begun", "finished"} /\ status' = [status EXCEPT ![q] = "queued"]
     /\ UNCHANGED <<completed, prio, changes, lists, transfers, threads, requests, online>>

addDownload(u) ==
  /\ conn[u] = "chosen"
  /\ conn' = [conn EXCEPT ![u] = "listed"]
  /\ downloads' = [downloads EXCEPT ![dl[u]] = @ \cup {u}]
  /\ UNCHANGED <<files, lists, running, dl, threads, requests, online>>

SetRunning(u) ==
  /\ conn[u] = "listed"
  /\ conn' = [conn EXCEPT ![u] = "loading"]
  /\ running' = [running EXCEPT ![u] = dl[u]]
  /\ UNCHANGED <<files, lists, downloads, dl, threads, requests, online>>

\* Mutant of putDownload: a part that ends leaves its download behind.
putDownloadKept(u) ==
  /\ status' = [status EXCEPT ![dl[u]] = "begun"]
  /\ UNCHANGED <<completed, list, transfers, asking>>

(* A part ends and the file is not whole.                                  *)
putDownload(u) ==
  /\ ~isFinished(dl[u])
  /\ status' = [status EXCEPT ![dl[u]] = "begun"]
  /\ removeDownload(dl[u], {u})
  /\ UNCHANGED <<completed, list, asking>>

(* It is whole, or was already.  It leaves the lists of its sources, and   *)
(* the queue unless finished files are kept.                               *)
Finish(u) ==
  /\ completed' = completed \cup {dl[u]}
  /\ removeUserL(dl[u], sources[dl[u]])
  /\ \E kept \in BOOLEAN :
       status' = [status EXCEPT ![dl[u]] = IF kept THEN "finished" ELSE "removed"]
  /\ UNCHANGED asking

(* A part fails: what is whole of it counts, and all sources are asked,    *)
(* unless the failure has a reason that forbids it.                        *)
putUnfinished(u) ==
  LET q == dl[u]
  IN /\ \/ UNCHANGED status
        \/ status[q] = "queued" /\ status' = [status EXCEPT ![q] = "begun"]
     /\ \/ UNCHANGED asking
        \/ prio[q] # PAUSED /\ asking' = asking \cup (sources[q] \cap online)
     /\ removeDownload(q, {u})
     /\ UNCHANGED <<completed, list>>

Put(u) == IF InQueue(dl[u]) THEN putDownload(u) \/ Finish(u)
          ELSE UNCHANGED <<status, completed, list, transfers, asking>>

endData(u) ==
  /\ conn[u] = "loading"
  /\ Put(u)
  /\ conn' = [conn EXCEPT ![u] = "ready"]
  /\ UNCHANGED <<prio, changes, sources, dl, threads, asked, doomed, online>>

(* The connection fails, with its last download, be that over or not.      *)
failDownload(u) ==
  /\ conn[u] \in {"ready", "loading"} /\ dl[u] # NoItem
  /\ IF InQueue(dl[u]) THEN putUnfinished(u)
     ELSE UNCHANGED <<status, completed, list, transfers, asking>>
  /\ conn' = [conn EXCEPT ![u] = "none"]
  /\ dl' = [dl EXCEPT ![u] = NoItem]
  /\ UNCHANGED <<prio, changes, sources, threads, asked, doomed, online>>

removeConnection(u) ==
  /\ conn[u] = "ready"
  /\ conn' = [conn EXCEPT ![u] = "none"]
  /\ dl' = [dl EXCEPT ![u] = NoItem]
  /\ UNCHANGED <<files, lists, transfers, threads, requests, online>>

-----------------------------------------------------------------------------
QueueStep(i) ==
  \/ \E p \in Priorities : add(i, p) \/ setPriority(i, p)
  \/ \E u \in Users : find_target(i, u) \/ Refuse(i, u) \/ addSourceL(i, u) \/ removeSource(i, u)
  \/ removeTarget(i) \/ removeDeferredDB(i)

UserStep(u) ==
  \/ UserConnected(u) \/ UserDisconnected(u) \/ putUpload(u)
  \/ getDownloadConnection(u) \/ addConnection(u) \/ putCQI(u)
  \/ \E parts \in SUBSET Items : SeeUnwanted(u, parts)

ConnStep(u) ==
  \/ \E parts \in SUBSET Items : getDownload(u, parts)
  \/ addDownload(u) \/ SetRunning(u) \/ endData(u)
  \/ failDownload(u) \/ removeConnection(u)

Next ==
  \/ \E i \in Items : QueueStep(i)
  \/ \E u \in Users : UserStep(u) \/ ConnStep(u)

Spec == Init /\ [][Next]_vars

-----------------------------------------------------------------------------
(* No file loses a source: whatever the order of changes of priority,      *)
(* removals and additions, who is a source of a file that was never        *)
(* finished has it in one of his lists, where getNextL can find it, until  *)
(* a thread begins to take it out of the queue.                            *)
SourceListed ==
  \A i \in Items : InQueue(i) /\ i \notin completed \cup leaving =>
    \A u \in sources[i] : \E p \in Priorities : Listed(i, p, u)

(* What g_runningMap says is so: the user has a download of that item.     *)
(* The two are changed under two locks, by the connection, by the removal  *)
(* of items and sources, by the timer and when the user goes.              *)
RunningIsDownload ==
  \A u \in Users : running[u] \in Items \ completed => u \in downloads[running[u]]

(* An item that counts as running, and uses up a file slot, has a          *)
(* connection that loads it: no download is left behind, as long as the    *)
(* file was not finished.                                                  *)
NoPhantomDownload ==
  \A i \in Items : InQueue(i) /\ i \notin completed =>
    \A u \in downloads[i] : dl[u] = i /\ conn[u] \in {"listed", "loading"}

(* QueueManager.h:228 "@return The highest priority download the user has, *)
(* PAUSED may also mean no downloads".                                     *)
HighestPriority ==
  \A u \in Users, i \in Items, p \in LOWEST..Highest :
    Listed(i, p, u) /\ Offers(i, u, {}) => prio[i] <= hasDownload(u, {})

(* The same as long as nobody changes a priority: additions, removals,     *)
(* failures and finished files alone never hide a file behind one of less  *)
(* priority.                                                               *)
HighestUntilChanged == changes = 0 => HighestPriority

(* ConnectionManager.cpp:231 "Request a connection for downloading.        *)
(* DownloadManager::addConnection will be called as soon as the connection *)
(* is ready": who is online and the source of a file that is not paused is *)
(* asked, will be or has a connection.                                     *)
WantedIsAsked ==
  \A i \in Items : status[i] \in {"queued", "begun"} /\ prio[i] # PAUSED =>
    \A u \in sources[i] \cap online : u \in asked \cup asking \/ conn[u] # "none"

=============================================================================
