---------------------- MODULE ConnectionManagerProofs ----------------------
(***************************************************************************)
(* What is proved of ConnectionManager for every number of users and       *)
(* connections: the types, and that the registries agree with the          *)
(* connections whatever the threads interleave.                            *)
(*                                                                         *)
(* The invariants are not inductive alone.  Shape adds what the handshake  *)
(* and the read lock guarantee: who a connection is with is known before   *)
(* it is given an item and does not change while it is associated, and no  *)
(* item leaves g_downloads while the timer walks it.                       *)
(***************************************************************************)
EXTENDS ConnectionManager, TLAPS

Named == {"LOCK", "DIRECTION", "KEY", "add", "claim", "managed"}

ConnShape ==
  /\ \A c \in Conns : phase[c] \in Named => peer[c] \in Users /\ role[c] \in {"download", "upload"}
  /\ \A c \in Conns : phase[c] = "claim" => role[c] = "download"
  /\ \A c \in associated : phase[c] = "managed"

TimerShape ==
  /\ at \in Scanning \ {"scan"} => visited \in Queued
  /\ at \in Scanning => todo \subseteq Queued

IInv ==
  /\ TypeOK /\ ConnShape /\ TimerShape
  /\ UploadsMatch /\ ActiveIsManaged /\ RemovedIsQueued

LEMMA InitIInv == Init => IInv
  BY DEF Init, IInv, TypeOK, ConnShape, TimerShape, UploadsMatch, ActiveIsManaged,
         RemovedIsQueued, Queued, Scanning, Handshake, Named, Uploading, Downloading, ItemStates

-----------------------------------------------------------------------------
(* Steps that leave the connections alone.                                 *)

ConnsAlone == UNCHANGED <<uploads, conns>>

LEMMA ConnsAloneKeeps ==
  ASSUME IInv, ConnsAlone,
         \A u \in Users : item'[u] = "ACTIVE" => item[u] = "ACTIVE"
  PROVE  ConnShape' /\ UploadsMatch' /\ ActiveIsManaged'
  <1>1. \A u : Uploading(u)' = Uploading(u) /\ Downloading(u)' = Downloading(u)
    BY DEF ConnsAlone, conns, Uploading, Downloading
  <1>2. ConnShape'
    BY DEF IInv, ConnShape, ConnsAlone, conns
  <1>3. UploadsMatch'
    BY <1>1 DEF IInv, UploadsMatch, ConnsAlone, conns
  <1>4. ActiveIsManaged'
    BY <1>1 DEF IInv, ActiveIsManaged
  <1>. QED BY <1>2, <1>3, <1>4

LEMMA UserStepKeeps ==
  ASSUME IInv, NEW u \in Users, UserStep(u)
  PROVE  IInv'
  <1>1. CASE getDownloadConnection(u)
    <2>1. ConnsAlone /\ \A v \in Users : item'[v] = "ACTIVE" => item[v] = "ACTIVE"
      BY <1>1 DEF IInv, TypeOK, getDownloadConnection, ConnsAlone
    <2>2. TypeOK'
      BY <1>1 DEF IInv, TypeOK, getDownloadConnection, conns, timer, ItemStates
    <2>3. TimerShape' /\ RemovedIsQueued'
      BY <1>1 DEF IInv, TypeOK, TimerShape, RemovedIsQueued, getDownloadConnection, timer,
                  Queued
    <2>. QED BY <2>1, <2>2, <2>3, ConnsAloneKeeps DEF IInv
  <1>2. CASE force(u) \/ Elapse(u)
    <2>1. ConnsAlone /\ item' = item
      BY <1>2 DEF force, Elapse, ConnsAlone
    <2>2. TypeOK'
      BY <1>2 DEF IInv, TypeOK, force, Elapse, conns, timer
    <2>3. TimerShape' /\ RemovedIsQueued'
      BY <1>2 DEF IInv, TimerShape, RemovedIsQueued, force, Elapse, timer, Queued
    <2>. QED BY <2>1, <2>2, <2>3, ConnsAloneKeeps DEF IInv
  <1>. QED BY <1>1, <1>2 DEF UserStep

(* The timer's steps that write no item, but its age.                      *)
TimerReads ==
  \/ Second \/ Unwanted \/ Decide(TRUE) \/ Decide(FALSE) \/ EndScan
  \/ \E u \in Users : Pass(u) \/ Offline(u) \/ StartAttempt(u) \/ SeeTimeout(u)

LEMMA TimerReadsKeeps ==
  ASSUME IInv, TimerReads
  PROVE  IInv'
  <1>. USE DEF Visit
  <1>0. ConnsAlone /\ item' = item
    BY DEF TimerReads, Second, Unwanted, Decide, EndScan, Pass, Offline, StartAttempt,
           SeeTimeout, MayVisit, ConnsAlone, items
  <1>1. CASE Second
    <2>1. TypeOK'
      BY <1>1 DEF IInv, TypeOK, Second, items, conns, Queued, Scanning
    <2>2. TimerShape' /\ RemovedIsQueued'
      BY <1>0, <1>1 DEF IInv, TimerShape, RemovedIsQueued, Second, Queued
    <2>. QED BY <1>0, <2>1, <2>2, ConnsAloneKeeps DEF IInv
  <1>2. CASE Unwanted
    <2>1. TypeOK'
      BY <1>2 DEF IInv, TypeOK, TimerShape, Unwanted, items, conns, Queued, Scanning
    <2>2. TimerShape' /\ RemovedIsQueued'
      BY <1>0, <1>2 DEF IInv, TimerShape, RemovedIsQueued, Unwanted, Queued, Scanning
    <2>. QED BY <1>0, <2>1, <2>2, ConnsAloneKeeps DEF IInv
  <1>3. CASE Decide(TRUE) \/ Decide(FALSE)
    <2>0. at = "due" /\ at' \in {"ask", "full", "free", "scan"}
      BY <1>3 DEF Decide
    <2>1. TypeOK'
      BY <1>3, <2>0 DEF IInv, TypeOK, Decide, items, conns, Scanning
    <2>2. TimerShape' /\ RemovedIsQueued'
      BY <1>0, <1>3, <2>0 DEF IInv, TimerShape, RemovedIsQueued, Decide, Queued, Scanning
    <2>. QED BY <1>0, <2>1, <2>2, ConnsAloneKeeps DEF IInv
  <1>4. CASE EndScan
    <2>1. TypeOK'
      BY <1>4 DEF IInv, TypeOK, EndScan, items, conns, Scanning
    <2>2. TimerShape' /\ RemovedIsQueued'
      BY <1>0, <1>4 DEF IInv, TimerShape, RemovedIsQueued, EndScan, Queued, Scanning
    <2>. QED BY <1>0, <2>1, <2>2, ConnsAloneKeeps DEF IInv
  <1>5. ASSUME NEW u \in Users, Pass(u) \/ Offline(u) \/ StartAttempt(u) \/ SeeTimeout(u)
        PROVE  IInv'
    <2>1. TypeOK'
      BY <1>5 DEF IInv, TypeOK, Pass, Offline, StartAttempt, SeeTimeout, MayVisit, items,
                  conns, Scanning
    <2>2. TimerShape' /\ RemovedIsQueued'
      BY <1>0, <1>5 DEF IInv, TimerShape, RemovedIsQueued, Pass, Offline, StartAttempt,
                        SeeTimeout, MayVisit, Queued, Scanning
    <2>. QED BY <1>0, <2>1, <2>2, ConnsAloneKeeps DEF IInv
  <1>. QED BY <1>1, <1>2, <1>3, <1>4, <1>5 DEF TimerReads

LEMMA TimerWritesKeeps ==
  ASSUME IInv, Ask \/ NoSlots \/ SlotFree \/ TimeOut \/ \E u \in Users : putCQI(u)
  PROVE  IInv'
  <1>1. CASE Ask \/ NoSlots \/ SlotFree \/ TimeOut
    <2>0. PICK state \in {"WAITING", "CONNECTING", "NO_DOWNLOAD_SLOTS"} :
            /\ at \in {"ask", "full", "free", "late"} /\ at' = "scan"
            /\ item' = [item EXCEPT ![visited] = state]
            /\ visited' = NoUser /\ todo' = todo /\ removed' = removed
            /\ UNCHANGED <<age, uploads, conns>>
            /\ attempts' \in {attempts, attempts + 1}
            /\ barred' \subseteq barred
      BY <1>1 DEF Ask, NoSlots, SlotFree, TimeOut, SetState
    <2>1. visited \in Users
      BY <2>0 DEF IInv, TimerShape, Scanning, Queued
    <2>2. ConnsAlone /\ \A v \in Users : item'[v] = "ACTIVE" => item[v] = "ACTIVE"
      BY <2>0, <2>1 DEF IInv, TypeOK, ConnsAlone
    <2>3. TypeOK'
      BY <2>0, <2>1 DEF IInv, TypeOK, conns, ItemStates, Scanning
    <2>4. Queued' = Queued
      BY <2>0, <2>1 DEF IInv, TypeOK, TimerShape, Queued, Scanning
    <2>5. TimerShape' /\ RemovedIsQueued'
      BY <2>0, <2>4 DEF IInv, TimerShape, RemovedIsQueued, Scanning
    <2>. QED BY <2>2, <2>3, <2>5, ConnsAloneKeeps DEF IInv
  <1>2. ASSUME NEW u \in Users, putCQI(u)
        PROVE  IInv'
    <2>1. ConnsAlone /\ \A v \in Users : item'[v] = "ACTIVE" => item[v] = "ACTIVE"
      BY <1>2 DEF IInv, TypeOK, putCQI, ConnsAlone
    <2>2. TypeOK'
      BY <1>2 DEF IInv, TypeOK, putCQI, conns, ItemStates, Scanning
    <2>3. TimerShape' /\ RemovedIsQueued'
      BY <1>2 DEF IInv, TypeOK, TimerShape, RemovedIsQueued, putCQI, Queued, Scanning
    <2>. QED BY <2>1, <2>2, <2>3, ConnsAloneKeeps DEF IInv
  <1>. QED BY <1>1, <1>2

-----------------------------------------------------------------------------
(* Steps of a connection.                                                  *)

(* A step of a connection that carries nothing, which leaves the items'    *)
(* states, the registries and the other connections alone.                 *)
Unassociated(c) ==
  /\ c \notin associated /\ associated' = associated
  /\ \A d \in Conns \ {c} : phase'[d] = phase[d] /\ peer'[d] = peer[d] /\ role'[d] = role[d]
  /\ UNCHANGED <<item, uploads, timer>>
  /\ phase'[c] \in Named => peer'[c] \in Users /\ role'[c] \in {"download", "upload"}
  /\ phase'[c] = "claim" => role'[c] = "download"

LEMMA UnassociatedKeeps ==
  ASSUME IInv, NEW c \in Conns, Unassociated(c), TypeOK'
  PROVE  IInv'
  <1>1. \A u : Uploading(u)' = Uploading(u) /\ Downloading(u)' = Downloading(u)
    BY DEF IInv, TypeOK, Unassociated, Uploading, Downloading
  <1>2. ConnShape'
    BY DEF IInv, TypeOK, ConnShape, Unassociated
  <1>3. TimerShape' /\ RemovedIsQueued'
    BY DEF IInv, TimerShape, RemovedIsQueued, Unassociated, timer, Queued
  <1>4. UploadsMatch'
    BY <1>1 DEF IInv, UploadsMatch, Unassociated
  <1>5. ActiveIsManaged'
    BY <1>1 DEF IInv, ActiveIsManaged, Unassociated
  <1>. QED BY <1>2, <1>3, <1>4, <1>5 DEF IInv

LEMMA PutConnectionTypes ==
  ASSUME TypeOK, NEW c \in Conns, putConnection(c)
  PROVE  /\ phase' \in [Conns -> Handshake \cup {"none", "add", "claim", "managed"}]
         /\ peer' \in [Conns -> Users \cup {NoUser}]
         /\ role' \in [Conns -> {"none", "download", "upload"}]
         /\ associated' \subseteq Conns
  BY DEF TypeOK, putConnection

LEMMA PutUnassociated ==
  ASSUME IInv, NEW c \in Conns, c \notin associated, putConnection(c),
         UNCHANGED <<item, uploads, timer>>
  PROVE  Unassociated(c)
  BY DEF IInv, TypeOK, Unassociated, putConnection, Named

LEMMA HandshakeKeeps ==
  ASSUME IInv, NEW c \in Conns,
         \/ \E incoming \in BOOLEAN : getConnection(c, incoming)
         \/ Connected(c) \/ SUP(c) \/ Unexpected(c) \/ CLock(c)
         \/ \E u \in Users : MyNick(c, u) \/ INF(c, u)
         \/ \E dir \in {"download", "upload"} : Direction(c, dir)
  PROVE  IInv'
  <1>0. c \in associated => phase[c] = "managed"
    BY DEF IInv, ConnShape
  <1>1. CASE (\E incoming \in BOOLEAN : getConnection(c, incoming)) \/ Connected(c) \/ SUP(c)
    <2>1. Unassociated(c)
      BY <1>0, <1>1 DEF IInv, TypeOK, Unassociated, getConnection, Connected, SUP, Named, items
    <2>2. TypeOK'
      BY <1>1 DEF IInv, TypeOK, getConnection, Connected, SUP, items, timer, Handshake
    <2>. QED BY <2>1, <2>2, UnassociatedKeeps
  <1>2. CASE Unexpected(c)
    <2>1. Unassociated(c)
      BY <1>0, <1>2, PutUnassociated DEF Unexpected, items
    <2>2. TypeOK'
      BY <1>2, PutConnectionTypes DEF IInv, TypeOK, Unexpected, items, timer
    <2>. QED BY <2>1, <2>2, UnassociatedKeeps
  <1>3. CASE CLock(c)
    <2>1. Unassociated(c)
      BY <1>0, <1>3 DEF IInv, TypeOK, ConnShape, Unassociated, CLock, Named, items
    <2>2. TypeOK'
      BY <1>3 DEF IInv, TypeOK, CLock, items, timer, Handshake
    <2>. QED BY <2>1, <2>2, UnassociatedKeeps
  <1>4. ASSUME NEW u \in Users, MyNick(c, u)
        PROVE  IInv'
    <2>0. c \notin associated /\ barred' \subseteq Users /\ UNCHANGED <<item, age, uploads, timer>>
      BY <1>0, <1>4 DEF IInv, TypeOK, MyNick
    <2>1. CASE putConnection(c)
      <3>1. TypeOK'
        BY <2>0, <2>1, PutConnectionTypes DEF IInv, TypeOK, timer
      <3>. QED BY <2>0, <2>1, <3>1, PutUnassociated, UnassociatedKeeps
    <2>2. CASE /\ phase' = [phase EXCEPT ![c] = "LOCK"]
               /\ peer' = [peer EXCEPT ![c] = u]
               /\ role' = [role EXCEPT ![c] = IF Pending(u) THEN "download" ELSE "upload"]
               /\ UNCHANGED associated
      <3>1. TypeOK'
        BY <2>0, <2>2 DEF IInv, TypeOK, timer, Handshake
      <3>2. Unassociated(c)
        BY <2>0, <2>2 DEF IInv, TypeOK, Unassociated
      <3>. QED BY <3>1, <3>2, UnassociatedKeeps
    <2>. QED BY <1>4, <2>1, <2>2 DEF MyNick
  <1>5. ASSUME NEW u \in Users, INF(c, u)
        PROVE  IInv'
    <2>1. Unassociated(c)
      BY <1>0, <1>5 DEF IInv, TypeOK, Unassociated, INF
    <2>2. TypeOK'
      BY <1>5 DEF IInv, TypeOK, INF, timer
    <2>. QED BY <2>1, <2>2, UnassociatedKeeps
  <1>6. ASSUME NEW dir \in {"download", "upload"}, Direction(c, dir)
        PROVE  IInv'
    <2>0. c \notin associated /\ phase[c] = "DIRECTION" /\ UNCHANGED <<items, uploads, timer>>
      BY <1>0, <1>6 DEF Direction
    <2>1. CASE putConnection(c)
      <3>1. TypeOK'
        BY <2>0, <2>1, PutConnectionTypes DEF IInv, TypeOK, items, timer
      <3>. QED BY <2>0, <2>1, <3>1, PutUnassociated, UnassociatedKeeps DEF items
    <2>2. CASE /\ phase' = [phase EXCEPT ![c] = "KEY"]
               /\ \/ role' = role
                  \/ dir = "download" /\ role' = [role EXCEPT ![c] = "upload"]
               /\ UNCHANGED <<peer, associated>>
      <3>1. TypeOK'
        BY <2>0, <2>2 DEF IInv, TypeOK, items, timer, Handshake
      <3>2. Unassociated(c)
        BY <2>0, <2>2 DEF IInv, TypeOK, ConnShape, Unassociated, items, Named
      <3>. QED BY <3>1, <3>2, UnassociatedKeeps
    <2>. QED BY <1>6, <2>1, <2>2 DEF Direction
  <1>. QED BY <1>1, <1>2, <1>3, <1>4, <1>5, <1>6

LEMMA KeyKeeps ==
  ASSUME IInv, NEW c \in Conns, Key(c)
  PROVE  IInv'
  <1>0. /\ c \notin associated /\ peer[c] \in Users
        /\ UNCHANGED <<items, timer>>
    BY DEF IInv, ConnShape, Key, Named
  <1>1. CASE putConnection(c) /\ UNCHANGED uploads
    <2>1. TypeOK'
      BY <1>0, <1>1, PutConnectionTypes DEF IInv, TypeOK, items, timer
    <2>. QED BY <1>0, <1>1, <2>1, PutUnassociated, UnassociatedKeeps DEF items
  <1>2. CASE /\ role[c] = "download"
             /\ phase' = [phase EXCEPT ![c] = "claim"]
             /\ UNCHANGED <<peer, role, associated, uploads>>
    <2>1. TypeOK'
      BY <1>0, <1>2 DEF IInv, TypeOK, items, timer
    <2>2. Unassociated(c)
      BY <1>0, <1>2 DEF IInv, TypeOK, Unassociated, items
    <2>. QED BY <2>1, <2>2, UnassociatedKeeps
  <1>3. CASE /\ role[c] = "upload" /\ peer[c] \notin uploads
             /\ uploads' = uploads \cup {peer[c]}
             /\ associated' = associated \cup {c}
             /\ phase' = [phase EXCEPT ![c] = "managed"]
             /\ UNCHANGED <<peer, role>>
    <2>1. TypeOK'
      BY <1>0, <1>3 DEF IInv, TypeOK, items, timer
    <2>2. ConnShape'
      BY <1>0, <1>3 DEF IInv, TypeOK, ConnShape, Named
    <2>3. TimerShape' /\ RemovedIsQueued'
      BY <1>0, <1>3 DEF IInv, TimerShape, RemovedIsQueued, items, timer, Queued
    <2>4. \A u : Downloading(u)' = Downloading(u)
      BY <1>3 DEF Downloading
    <2>5. \A u : Uploading(u)' = IF u = peer[c] THEN Uploading(u) \cup {c} ELSE Uploading(u)
      BY <1>3 DEF Uploading
    <2>6. Uploading(peer[c]) = {}
      BY <1>0, <1>3 DEF IInv, UploadsMatch
    <2>7. UploadsMatch'
      BY <1>0, <1>3, <2>5, <2>6 DEF IInv, UploadsMatch
    <2>8. ActiveIsManaged'
      BY <1>0, <2>4 DEF IInv, ActiveIsManaged, items
    <2>. QED BY <2>1, <2>2, <2>3, <2>7, <2>8 DEF IInv
  <1>. QED BY <1>1, <1>2, <1>3 DEF Key, FindItem, AddUpload

LEMMA ClaimKeeps ==
  ASSUME IInv, NEW c \in Conns, ClaimItem(c)
  PROVE  IInv'
  <1>0. c \notin associated /\ peer[c] \in Users /\ role[c] = "download"
    BY DEF IInv, ConnShape, ClaimItem, Named
  <1>1. TypeOK'
    BY <1>0 DEF IInv, TypeOK, ClaimItem, timer, ItemStates
  <1>2. ConnShape'
    BY <1>0 DEF IInv, TypeOK, ConnShape, ClaimItem, Named
  <1>3. TimerShape' /\ RemovedIsQueued'
    BY <1>0 DEF IInv, TypeOK, TimerShape, RemovedIsQueued, ClaimItem, timer, Queued
  <1>4. \A u : Uploading(u)' = Uploading(u)
    BY <1>0 DEF ClaimItem, Uploading
  <1>5. \A u : Downloading(u)' = IF u = peer[c] THEN Downloading(u) \cup {c} ELSE Downloading(u)
    BY <1>0 DEF ClaimItem, Downloading
  <1>6. UploadsMatch'
    BY <1>4 DEF IInv, UploadsMatch, ClaimItem
  <1>7. ActiveIsManaged'
    BY <1>0, <1>5 DEF IInv, TypeOK, ActiveIsManaged, ClaimItem
  <1>. QED BY <1>1, <1>2, <1>3, <1>6, <1>7 DEF IInv

(* A failed connection takes its own entry with it: the write lock keeps   *)
(* every other handshake from having looked at the item already, the mutex *)
(* of g_uploads that nobody else has the user's upload item.               *)
LEMMA FailedKeeps ==
  ASSUME IInv, NEW c \in Conns, NEW protocolError \in BOOLEAN, failed(c, protocolError)
  PROVE  IInv'
  <1>0. putConnection(c) /\ UNCHANGED timer
    BY DEF failed
  <1>1. ConnShape'
    BY <1>0 DEF IInv, TypeOK, ConnShape, putConnection, Named
  <1>2. \A u : Uploading(u)' = Uploading(u) \ {c} /\ Downloading(u)' = Downloading(u) \ {c}
    BY <1>0 DEF IInv, TypeOK, putConnection, Uploading, Downloading
  <1>3. CASE c \notin associated /\ UNCHANGED <<items, uploads>>
    <2>1. TypeOK'
      BY <1>0, <1>3, PutConnectionTypes DEF IInv, TypeOK, items, timer
    <2>. QED BY <1>0, <1>3, <2>1, PutUnassociated, UnassociatedKeeps DEF items
  <1>4. CASE /\ c \in associated /\ role[c] = "download"
             /\ FailDownload(peer[c], protocolError) /\ UNCHANGED uploads
    <2>0. peer[c] \in Users
      BY <1>4 DEF IInv, ConnShape, Named
    <2>1. TypeOK'
      BY <1>0, <1>4, <2>0, PutConnectionTypes
      DEF IInv, TypeOK, FailDownload, items, timer, ItemStates
    <2>2. \A u \in Users : /\ item'[u] = "none" <=> item[u] = "none"
                           /\ u # peer[c] => item'[u] = item[u]
      BY <1>4, <2>0 DEF IInv, TypeOK, FailDownload, items
    <2>3. Queued' = Queued
      BY <2>2 DEF Queued
    <2>4. TimerShape' /\ RemovedIsQueued'
      BY <1>0, <2>3 DEF IInv, TimerShape, RemovedIsQueued, timer
    <2>5. \A u : Uploading(u)' = Uploading(u)
      BY <1>2, <1>4 DEF Uploading
    <2>6. UploadsMatch'
      BY <1>4, <2>5 DEF IInv, UploadsMatch
    <2>7. item'[peer[c]] # "ACTIVE"
      BY <1>4, <2>0 DEF IInv, TypeOK, FailDownload, items
    <2>8. \A u \in Users : u # peer[c] => Downloading(u)' = Downloading(u)
      BY <1>2 DEF Downloading
    <2>9. ActiveIsManaged'
      BY <2>2, <2>7, <2>8 DEF IInv, ActiveIsManaged
    <2>. QED BY <1>1, <2>1, <2>4, <2>6, <2>9 DEF IInv
  <1>5. CASE /\ c \in associated /\ role[c] = "upload"
             /\ uploads' = uploads \ {peer[c]} /\ UNCHANGED items
    <2>0. peer[c] \in Users /\ c \in Uploading(peer[c])
      BY <1>5 DEF IInv, TypeOK, ConnShape, Named, Uploading
    <2>1. TypeOK'
      BY <1>0, <1>5, PutConnectionTypes DEF IInv, TypeOK, items, timer
    <2>2. TimerShape' /\ RemovedIsQueued'
      BY <1>0, <1>5 DEF IInv, TimerShape, RemovedIsQueued, items, timer, Queued
    <2>3. \A u : Downloading(u)' = Downloading(u)
      BY <1>2, <1>5 DEF Downloading
    <2>4. ActiveIsManaged'
      BY <1>5, <2>3 DEF IInv, ActiveIsManaged, items
    <2>5. \A u : u = peer[c] => Uploading(u)' = {}
      BY <1>2, <2>0 DEF IInv, UploadsMatch
    <2>6. \A u \in Users : u # peer[c] => Uploading(u)' = Uploading(u)
      BY <1>2 DEF Uploading
    <2>7. UploadsMatch'
      BY <1>5, <2>0, <2>5, <2>6 DEF IInv, UploadsMatch
    <2>. QED BY <1>1, <2>1, <2>2, <2>4, <2>7 DEF IInv
  <1>. QED BY <1>3, <1>4, <1>5 DEF failed

-----------------------------------------------------------------------------
LEMMA StutterKeeps ==
  ASSUME IInv, UNCHANGED vars
  PROVE  IInv'
  <1>1. TypeOK' /\ TimerShape' /\ RemovedIsQueued'
    BY DEF IInv, TypeOK, TimerShape, RemovedIsQueued, vars, items, conns, timer, Queued
  <1>2. ConnsAlone /\ item' = item
    BY DEF vars, items, ConnsAlone
  <1>. QED BY <1>1, <1>2, ConnsAloneKeeps DEF IInv

LEMMA NextIInv == IInv /\ [Next]_vars => IInv'
  <1>. SUFFICES ASSUME IInv, [Next]_vars PROVE IInv'
    OBVIOUS
  <1>1. CASE TimerStep
    BY <1>1, TimerReadsKeeps, TimerWritesKeeps DEF TimerStep, TimerReads
  <1>2. ASSUME NEW u \in Users, UserStep(u) PROVE IInv'
    BY <1>2, UserStepKeeps
  <1>3. ASSUME NEW c \in Conns, ConnStep(c) PROVE IInv'
    BY <1>3, HandshakeKeeps, KeyKeeps, ClaimKeeps, FailedKeeps DEF ConnStep
  <1>4. CASE UNCHANGED vars
    BY <1>4, StutterKeeps
  <1>. QED BY <1>1, <1>2, <1>3, <1>4 DEF Next

LEMMA Inductive == Spec => []IInv
  BY InitIInv, NextIInv, PTL DEF Spec

(* The types of the registries, the connections and the timer.             *)
THEOREM TypeCorrect == Spec => []TypeOK
  <1>1. IInv => TypeOK
    BY DEF IInv
  <1>. QED BY <1>1, Inductive, PTL

(* A user is in g_uploads exactly while one connection uploads to him.     *)
THEOREM UploadsCorrect == Spec => []UploadsMatch
  <1>1. IInv => UploadsMatch
    BY DEF IInv
  <1>. QED BY <1>1, Inductive, PTL

(* An ACTIVE item has a connection that gives it back when it fails.       *)
THEOREM ActiveCorrect == Spec => []ActiveIsManaged
  <1>1. IInv => ActiveIsManaged
    BY DEF IInv
  <1>. QED BY <1>1, Inductive, PTL

(* What the timer removes is still registered.                             *)
THEOREM RemovedCorrect == Spec => []RemovedIsQueued
  <1>1. IInv => RemovedIsQueued
    BY DEF IInv
  <1>. QED BY <1>1, Inductive, PTL
=============================================================================
