------------------------- MODULE ConnectionManager -------------------------
(***************************************************************************)
(* ConnectionManager (src/client/ConnectionManager.cpp): one queue item    *)
(* per user we want to download from (g_downloads), one per user who is    *)
(* connected to upload from us (g_uploads), and the UserConnections, each  *)
(* run by the thread of its socket, that become the one or the other at    *)
(* the end of their handshake.  A timer thread walks the download items    *)
(* once a second.                                                          *)
(*                                                                         *)
(* g_csDownloads is a reader-writer lock and most of what changes an item  *)
(* holds it as a READER, so a state that was read may be stale when the    *)
(* next one is written: the timer's visit of an item and the end of a      *)
(* handshake are split where the other one can come between.  What holds   *)
(* it as a writer (a new item, a failure, a removal) waits for all of them.*)
(*                                                                         *)
(* The answers of the rest of the program (is the user online, does the    *)
(* queue want something of him, is a slot free) are free choices; the      *)
(* count of errors is kept as the one distinction the code acts on, -1     *)
(* (barred) or not.  A connection that was put back is free at once: how   *)
(* it ends is the module BufferedSocket.                                   *)
(***************************************************************************)
EXTENDS Naturals

CONSTANTS
  Users,        \* the users, each at most once in a registry
  Conns,        \* the UserConnections alive at one time
  NoUser,       \* of a connection that has not said who it is
  PerSecond     \* DOWNCONN_PER_SEC, 0 for no limit

ASSUME NoUserAssumption == NoUser \notin Users
ASSUME PerSecondAssumption == PerSecond \in Nat

VARIABLES
  item,         \* g_downloads: the state of the user's item, "none" without one
  age,          \* of lastAttempt: "never" (0), "fresh", "aged" (> 50s), "due" (> 60s)
  barred,       \* the users whose item has errors = -1
  uploads,      \* g_uploads: the users with an upload item, always ACTIVE
  phase,        \* of a connection: what it waits for next
  peer,         \* UserConnection::getUser
  role,         \* FLAG_DOWNLOAD or FLAG_UPLOAD
  associated,   \* the connections with FLAG_ASSOCIATED
  at,           \* where the timer is
  visited,      \* the user whose item the timer has in hand
  todo,         \* the items the timer has still to visit in this second
  removed,      \* l_removed
  attempts      \* l_attempts

items == <<item, age, barred>>
conns == <<phase, peer, role, associated>>
timer == <<at, visited, todo, removed, attempts>>
vars == <<items, uploads, conns, timer>>

ItemStates == {"WAITING", "CONNECTING", "NO_DOWNLOAD_SLOTS", "ACTIVE"}
Handshake == {"CONNECT", "SUPNICK", "INF", "LOCK", "DIRECTION", "KEY"}
Scanning == {"scan", "due", "late", "ask", "full", "free"}

TypeOK ==
  /\ item \in [Users -> ItemStates \cup {"none"}]
  /\ age \in [Users -> {"never", "fresh", "aged", "due"}]
  /\ barred \subseteq Users
  /\ uploads \subseteq Users
  /\ phase \in [Conns -> Handshake \cup {"none", "add", "claim", "managed"}]
  /\ peer \in [Conns -> Users \cup {NoUser}]
  /\ role \in [Conns -> {"none", "download", "upload"}]
  /\ associated \subseteq Conns
  /\ at \in Scanning \cup {"idle", "remove"}
  /\ visited \in Users \cup {NoUser}
  /\ todo \subseteq Users /\ removed \subseteq Users
  /\ attempts \in Nat

Init ==
  /\ item = [u \in Users |-> "none"]
  /\ age = [u \in Users |-> "never"]
  /\ barred = {} /\ uploads = {}
  /\ phase = [c \in Conns |-> "none"]
  /\ peer = [c \in Conns |-> NoUser]
  /\ role = [c \in Conns |-> "none"]
  /\ associated = {}
  /\ at = "idle" /\ visited = NoUser
  /\ todo = {} /\ removed = {} /\ attempts = 0

Queued == {u \in Users : item[u] # "none"}
Pending(u) == item[u] \in {"WAITING", "CONNECTING"}

(* CFlyWriteLock(g_csDownloads): no reader is inside.                      *)
WriteLock == at \notin Scanning /\ \A c \in Conns : phase[c] # "claim"

-----------------------------------------------------------------------------
(* The download items.                                                     *)

(* QueueManager wants a connection to u.  A user who has an item already   *)
(* is left to DownloadManager::checkIdle.                                  *)
getDownloadConnection(u) ==
  /\ WriteLock
  /\ item[u] = "none"
  /\ item' = [item EXCEPT ![u] = "WAITING"]
  /\ age' = [age EXCEPT ![u] = "never"]
  /\ barred' = barred \ {u}
  /\ UNCHANGED <<uploads, conns, timer>>

\* Mutant of force: the attempt is dated outside the clock.
forceUndated(u) ==
  /\ item[u] # "none"
  /\ age' = [age EXCEPT ![u] = "forced"]
  /\ UNCHANGED <<item, barred, uploads, conns, timer>>

(* The user of the program asks for another attempt at once.               *)
force(u) ==
  /\ item[u] # "none"
  /\ age' = [age EXCEPT ![u] = "never"]
  /\ UNCHANGED <<item, barred, uploads, conns, timer>>

(* Time passes.  An item asked less than 60 seconds ago is visited between *)
(* its 50th second and its 60th, the timer coming once a second.           *)
Elapse(u) ==
  /\ item[u] # "none"
  /\ \/ age[u] = "fresh" /\ age' = [age EXCEPT ![u] = "aged"]
     \/ /\ age[u] = "aged" /\ item[u] # "CONNECTING"
        /\ age' = [age EXCEPT ![u] = "due"]
  /\ UNCHANGED <<item, barred, uploads, conns, timer>>

-----------------------------------------------------------------------------
(* The timer, on(TimerManagerListener::Second).                            *)

Second ==
  /\ at = "idle" /\ Queued # {}
  /\ at' = "scan" /\ todo' = Queued
  /\ UNCHANGED <<items, uploads, conns, visited, removed, attempts>>

\* Mutant of Due: an item that was tried once is never due again.
DueOnce(u) == age[u] = "never"

Due(u) ==
  \/ age[u] = "never"
  \/ age[u] = "due" /\ (PerSecond = 0 \/ attempts < PerSecond)

\* Mutant of TimedOut: as late as the next attempt.
TimedOutLate(u) == item[u] = "CONNECTING" /\ age[u] = "due"

TimedOut(u) == item[u] = "CONNECTING" /\ age[u] \in {"aged", "due"}

Visit(u) == at = "scan" /\ u \in todo /\ todo' = todo \ {u}

(* ACTIVE items, and those refused by a protocol error, are passed by; so  *)
(* are those whose time has not come.                                      *)
Pass(u) ==
  /\ Visit(u)
  /\ \/ item[u] = "ACTIVE"
     \/ u \in barred /\ age[u] # "never"
     \/ ~Due(u) /\ ~TimedOut(u)
  /\ UNCHANGED <<items, uploads, conns, at, visited, removed, attempts>>

(* Not online any more.                                                    *)
Offline(u) ==
  /\ Visit(u) /\ item[u] # "ACTIVE"
  /\ removed' = removed \cup {u}
  /\ UNCHANGED <<items, uploads, conns, at, visited, attempts>>

MayVisit(u) ==
  Visit(u) /\ item[u] # "ACTIVE" /\ (u \in barred => age[u] = "never")

(* Its time has come: the attempt is dated, then the queue is asked.       *)
StartAttempt(u) ==
  /\ MayVisit(u) /\ Due(u)
  /\ age' = [age EXCEPT ![u] = "fresh"]
  /\ at' = "due" /\ visited' = u
  /\ UNCHANGED <<item, barred, uploads, conns, removed, attempts>>

(* No connection came of an attempt 50 seconds old.                        *)
SeeTimeout(u) ==
  /\ MayVisit(u) /\ ~Due(u)
  /\ TimedOut(u)
  /\ at' = "late" /\ visited' = u
  /\ UNCHANGED <<items, uploads, conns, removed, attempts>>

(* hasDownload answered PAUSED.                                            *)
Unwanted ==
  /\ at = "due"
  /\ removed' = removed \cup {visited}
  /\ at' = "scan" /\ visited' = NoUser
  /\ UNCHANGED <<items, uploads, conns, todo, attempts>>

(* The queue wants the user: what to do depends on the free slots and on   *)
(* the state the item has now.                                             *)
Decide(startDown) ==
  /\ at = "due"
  /\ at' = CASE item[visited] = "WAITING" -> IF startDown THEN "ask" ELSE "full"
             [] item[visited] = "NO_DOWNLOAD_SLOTS" /\ startDown -> "free"
             [] OTHER -> "scan"
  /\ visited' = IF at' = "scan" THEN NoUser ELSE visited
  /\ UNCHANGED <<items, uploads, conns, todo, removed, attempts>>

SetState(where, state) ==
  /\ at = where /\ at' = "scan"
  /\ item' = [item EXCEPT ![visited] = state]
  /\ visited' = NoUser
  /\ UNCHANGED <<age, uploads, conns, todo, removed>>

Ask == SetState("ask", "CONNECTING") /\ attempts' = attempts + 1 /\ UNCHANGED barred
NoSlots == SetState("full", "NO_DOWNLOAD_SLOTS") /\ UNCHANGED <<barred, attempts>>
SlotFree == SetState("free", "WAITING") /\ UNCHANGED <<barred, attempts>>
TimeOut == SetState("late", "WAITING") /\ barred' = barred \ {visited} /\ UNCHANGED attempts

(* The read lock is given up; the items of l_removed go one by one, and    *)
(* none of them is looked at again.                                        *)
EndScan ==
  /\ at = "scan" /\ todo = {}
  /\ at' = IF removed = {} THEN "idle" ELSE "remove"
  /\ attempts' = 0
  /\ UNCHANGED <<items, uploads, conns, visited, todo, removed>>

putCQI(u) ==
  /\ at = "remove" /\ u \in removed /\ WriteLock
  /\ item' = [item EXCEPT ![u] = "none"]
  /\ age' = [age EXCEPT ![u] = "never"]
  /\ barred' = barred \ {u}
  /\ removed' = removed \ {u}
  /\ at' = IF removed' = {} THEN "idle" ELSE "remove"
  /\ UNCHANGED <<uploads, conns, visited, todo, attempts>>

-----------------------------------------------------------------------------
(* The connections.                                                        *)

getConnection(c, incoming) ==
  /\ phase[c] = "none"
  /\ phase' = [phase EXCEPT ![c] = IF incoming THEN "SUPNICK" ELSE "CONNECT"]
  /\ UNCHANGED <<items, uploads, peer, role, associated, timer>>

putConnection(c) ==
  /\ phase' = [phase EXCEPT ![c] = "none"]
  /\ peer' = [peer EXCEPT ![c] = NoUser]
  /\ role' = [role EXCEPT ![c] = "none"]
  /\ associated' = associated \ {c}

Connected(c) ==
  /\ phase[c] = "CONNECT"
  /\ phase' = [phase EXCEPT ![c] = "SUPNICK"]
  /\ UNCHANGED <<items, uploads, peer, role, associated, timer>>

(* ADC: the protocol is agreed on.                                         *)
SUP(c) ==
  /\ phase[c] = "SUPNICK"
  /\ phase' = [phase EXCEPT ![c] = "INF"]
  /\ UNCHANGED <<items, uploads, peer, role, associated, timer>>

(* NMDC: the peer said its nick.  The items visited before the one that    *)
(* matches lose their errors, whoever they are for.                        *)
MyNick(c, u) ==
  /\ phase[c] = "SUPNICK"
  /\ \E pardoned \in SUBSET Queued :
       /\ IF Pending(u) THEN u \in pardoned ELSE pardoned = Queued
       /\ barred' = barred \ pardoned
  /\ \/ /\ phase' = [phase EXCEPT ![c] = "LOCK"]
        /\ peer' = [peer EXCEPT ![c] = u]
        /\ role' = [role EXCEPT ![c] = IF Pending(u) THEN "download" ELSE "upload"]
        /\ UNCHANGED associated
     \/ ~Pending(u) /\ putConnection(c)      \* unknown or not online
  /\ UNCHANGED <<item, age, uploads, timer>>

(* A connection that is not trusted, not expected or from nobody we know.  *)
Unexpected(c) ==
  /\ phase[c] \in {"CONNECT", "SUPNICK", "INF"} /\ putConnection(c)
  /\ UNCHANGED <<items, uploads, timer>>

CLock(c) ==
  /\ phase[c] = "LOCK"
  /\ phase' = [phase EXCEPT ![c] = "DIRECTION"]
  /\ UNCHANGED <<items, uploads, peer, role, associated, timer>>

(* The peer wants to upload: good for a download only.  It wants to        *)
(* download: good for an upload; two downloaders compare their numbers.    *)
Direction(c, dir) ==
  /\ phase[c] = "DIRECTION"
  /\ \/ /\ phase' = [phase EXCEPT ![c] = "KEY"]
        /\ \/ dir = "download" \/ role[c] = "download"
        /\ \/ role' = role
           \/ dir = "download" /\ role' = [role EXCEPT ![c] = "upload"]
        /\ UNCHANGED <<peer, associated>>
     \/ dir = role[c] /\ putConnection(c)
  /\ UNCHANGED <<items, uploads, timer>>

(* ADC: the peer said who it is, and the token what the connection is for. *)
INF(c, u) ==
  /\ phase[c] = "INF"
  /\ barred' = barred \ {u}
  /\ \/ item[u] # "none" /\ role' = [role EXCEPT ![c] = "download"]
     \/ role' = [role EXCEPT ![c] = "upload"]
  /\ peer' = [peer EXCEPT ![c] = u]
  /\ phase' = [phase EXCEPT ![c] = "add"]
  /\ UNCHANGED <<item, age, uploads, associated, timer>>

(* addDownloadConnection, from Key or INF: the item is looked at ...       *)
FindItem(c) ==
  /\ role[c] = "download"
  /\ IF Pending(peer[c])
     THEN /\ phase' = [phase EXCEPT ![c] = "claim"]
          /\ UNCHANGED <<peer, role, associated>>
     ELSE putConnection(c)
  /\ UNCHANGED uploads

(* ... and given to the connection, under the same read lock.              *)
ClaimItem(c) ==
  /\ phase[c] = "claim"
  /\ item' = [item EXCEPT ![peer[c]] = "ACTIVE"]
  /\ associated' = associated \cup {c}
  /\ phase' = [phase EXCEPT ![c] = "managed"]
  /\ UNCHANGED <<age, barred, uploads, peer, role, timer>>

\* Mutant of AddUpload: the registry is not looked at.
AddUploadAgain(c) ==
  /\ role[c] = "upload"
  /\ uploads' = uploads \cup {peer[c]}
  /\ associated' = associated \cup {c}
  /\ phase' = [phase EXCEPT ![c] = "managed"]
  /\ UNCHANGED <<peer, role>>

(* addUploadConnection, under a mutex.                                     *)
AddUpload(c) ==
  /\ role[c] = "upload"
  /\ IF peer[c] \in uploads
     THEN putConnection(c) /\ UNCHANGED uploads
     ELSE /\ uploads' = uploads \cup {peer[c]}
          /\ associated' = associated \cup {c}
          /\ phase' = [phase EXCEPT ![c] = "managed"]
          /\ UNCHANGED <<peer, role>>

Key(c) ==
  /\ phase[c] \in {"KEY", "add"}
  /\ FindItem(c) \/ AddUpload(c)
  /\ UNCHANGED <<items, timer>>

\* Mutants of FailDownload: the item is removed (ConnectionManager.cpp:1806), or only dated.
FailDownloadRemoves(u, protocolError) ==
  /\ WriteLock
  /\ item' = [item EXCEPT ![u] = "none"]
  /\ age' = [age EXCEPT ![u] = "never"]
  /\ barred' = barred \ {u}
FailDownloadDates(u, protocolError) ==
  /\ WriteLock
  /\ age' = [age EXCEPT ![u] = "fresh"]
  /\ UNCHANGED <<item, barred>>

(* The item of a download that failed waits again, or is barred.           *)
FailDownload(u, protocolError) ==
  /\ WriteLock
  /\ IF item[u] = "none" THEN UNCHANGED items
     ELSE /\ item' = [item EXCEPT ![u] = "WAITING"]
          /\ age' = [age EXCEPT ![u] = "fresh"]
          /\ barred' = IF protocolError THEN barred \cup {u} ELSE barred \ {u}

(* The socket failed, or the peer broke the protocol.                      *)
failed(c, protocolError) ==
  /\ phase[c] \in Handshake \cup {"managed"}
  /\ \/ /\ c \in associated /\ role[c] = "download"
        /\ FailDownload(peer[c], protocolError) /\ UNCHANGED uploads
     \/ /\ c \in associated /\ role[c] = "upload"
        /\ uploads' = uploads \ {peer[c]} /\ UNCHANGED items
     \/ c \notin associated /\ UNCHANGED <<items, uploads>>
  /\ putConnection(c)
  /\ UNCHANGED timer

-----------------------------------------------------------------------------
TimerStep ==
  \/ Second \/ Unwanted \/ Decide(TRUE) \/ Decide(FALSE)
  \/ Ask \/ NoSlots \/ SlotFree \/ TimeOut \/ EndScan
  \/ \E u \in Users :
       Pass(u) \/ Offline(u) \/ StartAttempt(u) \/ SeeTimeout(u) \/ putCQI(u)

UserStep(u) == getDownloadConnection(u) \/ force(u) \/ Elapse(u)

ConnStep(c) ==
  \/ \E incoming \in BOOLEAN : getConnection(c, incoming)
  \/ \E u \in Users : MyNick(c, u) \/ INF(c, u)
  \/ Connected(c) \/ SUP(c) \/ Unexpected(c) \/ CLock(c) \/ Key(c) \/ ClaimItem(c)
  \/ \E dir \in {"download", "upload"} : Direction(c, dir)
  \/ \E protocolError \in BOOLEAN : failed(c, protocolError)

Next ==
  \/ TimerStep
  \/ \E u \in Users : UserStep(u)
  \/ \E c \in Conns : ConnStep(c)

Spec == Init /\ [][Next]_vars

(* The timer thread runs, and gets the write lock when it waits for it     *)
(* (a writer that waits keeps new readers out, rw_lock_winxp_win.cc).  A   *)
(* thread inside the lock goes on.  The limit per second puts an attempt   *)
(* off, but not for ever: those it lets through then wait a minute.        *)
Fairness ==
  /\ WF_vars(TimerStep)
  /\ \A u \in Users :
       /\ WF_vars(Elapse(u)) /\ SF_vars(StartAttempt(u)) /\ SF_vars(putCQI(u))
  /\ \A c \in Conns : WF_vars(ClaimItem(c))

FairSpec == Spec /\ Fairness

-----------------------------------------------------------------------------
Downloading(u) == {c \in associated : role[c] = "download" /\ peer[c] = u}
Uploading(u) == {c \in associated : role[c] = "upload" /\ peer[c] = u}

(* A user is in g_uploads exactly as long as one connection uploads to     *)
(* him: what failed() asserts when it looks for the item.                  *)
UploadsMatch ==
  /\ \A u \in Users : u \in uploads <=> Uploading(u) # {}
  /\ \A u \in Users : \A c, d \in Uploading(u) : c = d

(* An ACTIVE item, which the timer never looks at again, has a connection  *)
(* that will give it back when it fails, whatever the threads overwrote.   *)
ActiveIsManaged == \A u \in Users : item[u] = "ACTIVE" => Downloading(u) # {}

(* An item the timer is about to remove is still registered: nobody else   *)
(* removes download items, and a new item of the user is never taken for   *)
(* the old one.                                                            *)
RemovedIsQueued == removed \subseteq Queued

(* A waiting item is not forgotten: it is asked, refused a slot, taken by  *)
(* a connection or removed, unless a protocol error barred it.             *)
WaitingMoves ==
  \A u \in Users :
    (item[u] = "WAITING" /\ u \notin barred) ~> (item[u] # "WAITING" \/ u \in barred)

(* A request for a connection is answered, or given up after its 50        *)
(* seconds, unless the user of the program forces it again.                *)
ConnectingEnds ==
  \A u \in Users :
    (item[u] = "CONNECTING" /\ u \notin barred)
      ~> (item[u] # "CONNECTING" \/ u \in barred \/ age[u] = "never")

(* ConnectionManager.h:56 "CONNECTING, // Recently sent request to         *)
(* connect": no item says so for ever, unless forced again and again.      *)
RecentlyAsked ==
  \A u \in Users : item[u] = "CONNECTING" ~> (item[u] # "CONNECTING" \/ age[u] = "never")

(* ConnectionManager.h:59 "ACTIVE // In one up/downmanager": one           *)
(* connection downloads from a user.                                       *)
OneDownload == \A u \in Users : \A c, d \in Downloading(u) : c = d

(* The dcassert(0) of failed(): the item of a download connection is there.*)
FailedFindsItem == \A c \in associated : role[c] = "download" => item[peer[c]] # "none"

(* ConnectionManager.cpp:510 "protocol error, don't reconnect except after *)
(* a forced attempt": only the user's own connection, or a forced attempt, *)
(* lifts the bar from an item.                                             *)
BarHolds ==
  [][\A u \in barred :
       item[u] # "none" /\ age[u] # "never"
         => \/ u \in barred' \/ item'[u] = "none"
            \/ \E c \in Conns : peer[c] # peer'[c] /\ u \in {peer[c], peer'[c]}]_vars

=============================================================================
