--------------------------- MODULE UserQueueProofs ---------------------------
(***************************************************************************)
(* What is proved of UserQueue, for any number of items, users and         *)
(* threads and any priorities: its type, that no file loses a source, that *)
(* g_runningMap names downloads that are listed, that none of those is     *)
(* left behind, and that hasDownload answers the highest priority as long  *)
(* as none was changed.                                                    *)
(*                                                                         *)
(* Three facts make the first four inductive.  An item that was not added  *)
(* yet is nobody's (NewUnused), a finished one is among the completed      *)
(* (FinishedCompleted), and of a user who loads nothing g_runningMap names *)
(* only an item that was removed under him (RunningLoads): so whoever asks *)
(* it before he removes a download does not miss one of an item in the     *)
(* queue.                                                                  *)
(*                                                                         *)
(* For the last, an item is listed under the priority it has               *)
(* (PlacedByPrio) until the first change; the list that getNextL walks     *)
(* first is then that of the highest priority of those it is offered.      *)
(***************************************************************************)
EXTENDS UserQueue, WellFoundedInduction, TLAPS

NewUnused ==
  \A i \in Items : status[i] = "new" =>
    /\ sources[i] = {} /\ downloads[i] = {}
    /\ \A u \in Users : dl[u] # i /\ running[u] # i /\ <<i, u>> \notin adding

FinishedCompleted == \A i \in Items : isFinished(i) => i \in completed

RunningLoads ==
  \A u \in Users : running[u] \in Items \ completed =>
    IF conn[u] = "loading" THEN running[u] = dl[u] ELSE status[running[u]] = "removed"

ListedDownloads ==
  \A u \in Users : conn[u] = "listed" /\ dl[u] \notin completed => u \in downloads[dl[u]]

QueueInv == NewUnused /\ FinishedCompleted /\ SourceListed
RunInv == RunningLoads /\ ListedDownloads /\ RunningIsDownload /\ NoPhantomDownload
IInv == QueueInv /\ RunInv

-----------------------------------------------------------------------------
(* Sequences.                                                              *)

Less == {p \in Nat \X Nat : p[1] < p[2]}

LEMMA LessFounded == IsWellFoundedOn(Less, Nat)
  BY NatLessThanWellFounded, Zenon DEF OpToRel, Less

LEMMA HasMin ==
  ASSUME NEW I, I \subseteq Nat, I # {}
  PROVE  Min(I) \in I /\ \A y \in I : Min(I) <= y
  <1>1. PICK x \in I : \A y \in I : ~(<<y, x>> \in Less)
    BY LessFounded, WFMin
  <1>2. ASSUME NEW y \in I PROVE x <= y
    <2>1. x \in Nat /\ y \in Nat
      OBVIOUS
    <2>2. y < x => <<y, x>> \in Less
      BY <2>1 DEF Less
    <2>. QED BY <1>1, <2>1, <2>2
  <1>. QED BY <1>2 DEF Min

(* RemoveFirst leaves a sequence with all other elements.                  *)
LEMMA RemoveFirstKeeps ==
  ASSUME NEW S, NEW s \in Seq(S), NEW e
  PROVE  /\ RemoveFirst(s, e) \in Seq(S)
         /\ \A i \in 1..Len(s) : s[i] # e =>
              \E j \in 1..Len(RemoveFirst(s, e)) : RemoveFirst(s, e)[j] = s[i]
         /\ \A j \in 1..Len(RemoveFirst(s, e)) :
              \E i \in 1..Len(s) : RemoveFirst(s, e)[j] = s[i]
  <1>1. CASE \E i \in 1..Len(s) : s[i] = e
    <2>. DEFINE I == {i \in 1..Len(s) : s[i] = e}
                k == Min(I)
                a == SubSeq(s, 1, k - 1)
                b == SubSeq(s, k + 1, Len(s))
    <2>1. I # {} /\ I \subseteq Nat
      BY <1>1
    <2>2. k \in I
      BY <2>1, HasMin
    <2>3. RemoveFirst(s, e) = a \o b
      BY <1>1, <2>1, <2>2 DEF RemoveFirst, RemoveAt, SelectInSeq
    <2>. HIDE DEF k
    <2>4. k \in 1..Len(s) /\ s[k] = e
      BY <2>2
    <2>5. a \in Seq(S) /\ Len(a) = k - 1 /\ \A i \in 1..(k - 1) : a[i] = s[i]
      BY <2>4
    <2>6. b \in Seq(S) /\ Len(b) = Len(s) - k /\ \A i \in 1..(Len(s) - k) : b[i] = s[k + i]
      BY <2>4
    <2>. HIDE DEF a, b
    <2>7. ASSUME NEW i \in 1..Len(s), s[i] # e
          PROVE  \E j \in 1..Len(a \o b) : (a \o b)[j] = s[i]
      <3>1. CASE i < k
        <4>1. (a \o b)[i] = s[i] /\ i \in 1..Len(a \o b)
          BY <3>1, <2>4, <2>5, <2>6
        <4>. QED BY <4>1
      <3>2. CASE i > k
        <4>1. i - k \in 1..(Len(s) - k) /\ k + (i - k) = i
          BY <3>2, <2>4
        <4>2. b[i - k] = s[i]
          BY <2>6, <4>1
        <4>3. i - 1 \in 1..Len(a \o b) /\ (a \o b)[i - 1] = b[i - 1 - (k - 1)]
          BY <3>2, <2>4, <2>5, <2>6
        <4>4. i - 1 - (k - 1) = i - k
          BY <2>4
        <4>. QED BY <4>2, <4>3, <4>4
      <3>. QED BY <2>4, <2>7, <3>1, <3>2
    <2>8. a \o b \in Seq(S)
      BY <2>5, <2>6
    <2>9. ASSUME NEW j \in 1..Len(a \o b)
          PROVE  \E i \in 1..Len(s) : (a \o b)[j] = s[i]
      <3>1. CASE j < k
        <4>1. (a \o b)[j] = s[j] /\ j \in 1..Len(s)
          BY <3>1, <2>4, <2>5, <2>6
        <4>. QED BY <4>1
      <3>2. CASE j >= k
        <4>5. Len(a \o b) = Len(s) - 1 /\ j \in 1..(Len(s) - 1)
          BY <2>4, <2>5, <2>6
        <4>6. Len(s) \in Nat /\ k \in Nat /\ j \in Nat /\ j <= Len(s) - 1 /\ k <= j
          BY <3>2, <2>4, <4>5
        <4>1. j - (k - 1) \in 1..(Len(s) - k) /\ k + (j - (k - 1)) = j + 1
          BY <4>6
        <4>2. (a \o b)[j] = b[j - (k - 1)]
          <5>1. a \in Seq(S) /\ b \in Seq(S) /\ Len(a) = k - 1 /\ Len(b) = Len(s) - k
            BY <2>5, <2>6
          <5>2. ~(j <= Len(a)) /\ j \in 1..(Len(a) + Len(b))
            BY <4>6, <5>1
          <5>3. (a \o b)[j] = b[j - Len(a)]
            BY <5>1, <5>2
          <5>. QED BY <5>1, <5>3
        <4>3. b[j - (k - 1)] = s[j + 1]
          BY <2>6, <4>1
        <4>4. j + 1 \in 1..Len(s)
          BY <2>4, <4>5
        <4>. QED BY <4>2, <4>3, <4>4
      <3>. QED BY <2>4, <2>9, <3>1, <3>2
    <2>. QED BY <2>3, <2>7, <2>8, <2>9, Zenon
  <1>2. CASE ~\E i \in 1..Len(s) : s[i] = e
    BY <1>2 DEF RemoveFirst
  <1>. QED BY <1>1, <1>2

(* Where getNextL looks, and which of the places it prefers.               *)
Places(u, parts) ==
  {c \in UNION {{p} \X DOMAIN list[p][u] : p \in LOWEST..Highest} :
     Offers(list[c[1]][u][c[2]], u, parts)}

Best(u, parts, c) ==
  \A d \in Places(u, parts) : d[1] < c[1] \/ (d[1] = c[1] /\ c[2] <= d[2])

(* getNextL finds nothing, or the item of a best place, and a place is a   *)
(* list the user has the item in and the item one he is a source of.       *)
LEMMA NextIsBest ==
  ASSUME TypeOK, NEW u \in Users, NEW parts
  PROVE  /\ \A c \in Places(u, parts) :
              /\ c = <<c[1], c[2]>> /\ c[1] \in 1..Highest
              /\ list[c[1]][u] \in Seq(Items) /\ c[2] \in 1..Len(list[c[1]][u])
              /\ list[c[1]][u][c[2]] \in Items
              /\ u \in sources[list[c[1]][u][c[2]]]
         /\ IF Places(u, parts) = {} THEN getNextL(u, LOWEST, parts) = NoItem
            ELSE \E c \in Places(u, parts) :
                   Best(u, parts, c) /\ getNextL(u, LOWEST, parts) = list[c[1]][u][c[2]]
  <1>. DEFINE first == CHOOSE c \in Places(u, parts) : Best(u, parts, c)
  <1>1. getNextL(u, LOWEST, parts) =
          IF Places(u, parts) = {} THEN NoItem ELSE list[first[1]][u][first[2]]
    BY Zenon DEF getNextL, Places, Best
  <1>2. ASSUME NEW c \in Places(u, parts)
        PROVE  /\ c = <<c[1], c[2]>> /\ c[1] \in 1..Highest
               /\ list[c[1]][u] \in Seq(Items) /\ c[2] \in 1..Len(list[c[1]][u])
               /\ list[c[1]][u][c[2]] \in Items
               /\ u \in sources[list[c[1]][u][c[2]]]
    <2>1. PICK p \in LOWEST..Highest : c \in {p} \X DOMAIN list[p][u]
      BY DEF Places
    <2>2. list[p][u] \in Seq(Items) /\ p \in 1..Highest
      BY <2>1, BoundsAssumption DEF TypeOK, LOWEST, Priorities
    <2>3. c = <<c[1], c[2]>> /\ c[1] = p /\ c[2] \in 1..Len(list[p][u])
      BY <2>1, <2>2
    <2>4. u \in sources[list[c[1]][u][c[2]]]
      BY DEF Places, Offers
    <2>. QED BY <2>2, <2>3, <2>4
  <1>3. ASSUME Places(u, parts) # {}
        PROVE  \E c \in Places(u, parts) : Best(u, parts, c)
    <2>. DEFINE P == {Highest - c[1] : c \in Places(u, parts)}
    <2>1. P \subseteq Nat /\ P # {}
      BY <1>2, <1>3, BoundsAssumption
    <2>a. Min(P) \in P /\ \A y \in P : Min(P) <= y
      BY <2>1, HasMin, Zenon
    <2>b. PICK m \in Places(u, parts) : Min(P) = Highest - m[1]
      BY <2>a
    <2>2. \A d \in Places(u, parts) : Highest - m[1] <= Highest - d[1]
      BY <2>a, <2>b
    <2>. DEFINE Q == {c[2] : c \in {d \in Places(u, parts) : d[1] = m[1]}}
    <2>3. Q \subseteq Nat /\ Q # {}
      BY <1>2
    <2>c. Min(Q) \in Q /\ \A y \in Q : Min(Q) <= y
      BY <2>3, HasMin, Zenon
    <2>d. PICK c \in Places(u, parts) : c[1] = m[1] /\ Min(Q) = c[2]
      BY <2>c
    <2>4. \A d \in Places(u, parts) : d[1] = m[1] => c[2] <= d[2]
      BY <2>c, <2>d
    <2>5. \A d \in Places(u, parts) : d[1] \in Int
      BY <1>2
    <2>6. Best(u, parts, c)
      <3>. SUFFICES ASSUME NEW d \in Places(u, parts)
                    PROVE  d[1] < c[1] \/ (d[1] = c[1] /\ c[2] <= d[2])
        BY DEF Best
      <3>1. d[1] <= m[1]
        BY <2>2, <2>5, BoundsAssumption
      <3>. QED BY <2>d, <2>4, <2>5, <3>1
    <2>. QED BY <2>6
  <1>4. CASE Places(u, parts) # {}
    <2>1. first \in Places(u, parts) /\ Best(u, parts, first)
      BY <1>3, <1>4
    <2>. QED BY <1>1, <1>2, <1>4, <2>1
  <1>. QED BY <1>1, <1>2, <1>4

LEMMA NextIsSource ==
  ASSUME TypeOK, NEW u \in Users, NEW parts
  PROVE  LET q == getNextL(u, LOWEST, parts)
         IN q = NoItem \/ (q \in Items /\ u \in sources[q])
  BY NextIsBest

-----------------------------------------------------------------------------
(* Types.                                                                  *)

LEMMA RemoveUserType ==
  ASSUME TypeOK, NEW i \in Items, NEW us \in SUBSET Users, removeUserL(i, us)
  PROVE  /\ list' \in [Priorities -> [Users -> Seq(Items)]]
         /\ running' \in [Users -> Items \cup {NoItem}]
         /\ downloads' \in [Items -> SUBSET Users]
  <1>1. running' \in [Users -> Items \cup {NoItem}] /\ downloads' \in [Items -> SUBSET Users]
    BY DEF removeUserL, removeDownload, TypeOK
  <1>. DEFINE l == [u \in Users |-> IF u \in us THEN RemoveFirst(list[prio[i]][u], i)
                                             ELSE list[prio[i]][u]]
  <1>2. ASSUME NEW u \in Users PROVE list[prio[i]][u] \in Seq(Items)
    BY DEF TypeOK
  <1>3. \A u \in Users : RemoveFirst(list[prio[i]][u], i) \in Seq(Items)
    BY <1>2, RemoveFirstKeeps
  <1>4. l \in [Users -> Seq(Items)]
    BY <1>2, <1>3
  <1>5. list' = [list EXCEPT ![prio[i]] = l]
    BY Zenon DEF removeUserL
  <1>. HIDE DEF l
  <1>. QED BY <1>1, <1>4, <1>5 DEF TypeOK

LEMMA AddType ==
  ASSUME TypeOK, NEW i \in Items, NEW u \in Users, addL(i, u)
  PROVE  list' \in [Priorities -> [Users -> Seq(Items)]]
  <1>1. prio[i] \in Priorities /\ list[prio[i]][u] \in Seq(Items)
    BY DEF TypeOK
  <1>2. PICK s \in Seq(Items) : list' = [list EXCEPT ![prio[i]][u] = s]
    <2>1. <<i>> \o list[prio[i]][u] \in Seq(Items) /\ Append(list[prio[i]][u], i) \in Seq(Items)
      BY <1>1
    <2>. QED BY <2>1 DEF addL
  <1>. QED BY <1>1, <1>2 DEF TypeOK

LEMMA TypeStep ==
  ASSUME TypeOK, [Next]_vars PROVE TypeOK'
  <1>. USE DEF TypeOK, files, lists, transfers, connections, threads, requests
  <1>1. ASSUME NEW i \in Items, NEW p \in Priorities, add(i, p) PROVE TypeOK'
    BY <1>1 DEF add
  <1>2. ASSUME NEW i \in Items, NEW p \in Priorities, setPriority(i, p) PROVE TypeOK'
    BY <1>2, BoundsAssumption DEF setPriority
  <1>3. ASSUME NEW i \in Items, NEW u \in Users, find_target(i, u) \/ Refuse(i, u)
        PROVE  TypeOK'
    BY <1>3 DEF find_target, Refuse
  <1>4. ASSUME NEW i \in Items, NEW u \in Users, addSourceL(i, u) PROVE TypeOK'
    <2>1. list' \in [Priorities -> [Users -> Seq(Items)]]
      BY <1>4, AddType DEF addSourceL
    <2>. QED BY <1>4, <2>1 DEF addSourceL
  <1>5. ASSUME NEW i \in Items, NEW u \in Users, removeSource(i, u) PROVE TypeOK'
    <2>1. /\ list' \in [Priorities -> [Users -> Seq(Items)]]
          /\ running' \in [Users -> Items \cup {NoItem}]
          /\ downloads' \in [Items -> SUBSET Users]
      <3>1. CASE isFinished(i)
        <4>1. removeDownload(i, {v \in {u} : running[v] = i}) /\ UNCHANGED list
          BY <1>5, <3>1 DEF removeSource
        <4>. QED BY <4>1 DEF removeDownload
      <3>2. CASE ~isFinished(i)
        <4>1. removeUserL(i, {u})
          BY <1>5, <3>2 DEF removeSource
        <4>. QED BY <4>1, RemoveUserType
      <3>. QED BY <3>1, <3>2
    <2>. QED BY <1>5, <2>1 DEF removeSource
  <1>6. ASSUME NEW i \in Items, removeTarget(i) PROVE TypeOK'
    <2>1. /\ list' \in [Priorities -> [Users -> Seq(Items)]]
          /\ running' \in [Users -> Items \cup {NoItem}]
          /\ downloads' \in [Items -> SUBSET Users]
      BY <1>6, RemoveUserType DEF removeTarget
    <2>. QED BY <1>6, <2>1 DEF removeTarget
  <1>17. ASSUME NEW i \in Items, removeDeferredDB(i) PROVE TypeOK'
    BY <1>17 DEF removeDeferredDB
  <1>7. ASSUME NEW u \in Users, UserConnected(u) \/ UserDisconnected(u) \/ putUpload(u)
        PROVE  TypeOK'
    <2>1. CASE UserConnected(u)
      <3>1. asking' \subseteq Users
        BY <2>1, Zenon DEF UserConnected
      <3>. QED BY <2>1, <3>1 DEF UserConnected
    <2>2. CASE UserDisconnected(u)
      BY <2>2 DEF UserDisconnected
    <2>3. CASE putUpload(u)
      BY <2>3 DEF putUpload
    <2>. QED BY <1>7, <2>1, <2>2, <2>3
  <1>8. ASSUME NEW u \in Users, getDownloadConnection(u) \/ addConnection(u) \/ putCQI(u)
        PROVE  TypeOK'
    <2>1. CASE getDownloadConnection(u)
      BY <2>1 DEF getDownloadConnection
    <2>2. CASE addConnection(u)
      BY <2>2 DEF addConnection, Busy
    <2>3. CASE putCQI(u)
      BY <2>3 DEF putCQI
    <2>. QED BY <1>8, <2>1, <2>2, <2>3
  <1>9. ASSUME NEW u \in Users, NEW parts \in SUBSET Items, SeeUnwanted(u, parts)
        PROVE  TypeOK'
    BY <1>9 DEF SeeUnwanted
  <1>10. ASSUME NEW u \in Users, NEW parts \in SUBSET Items, getDownload(u, parts)
         PROVE  TypeOK'
    <2>. DEFINE q == getNextL(u, LOWEST, parts)
    <2>1. q \in Items /\ q # NoItem
      BY <1>10, NextIsSource DEF getDownload
    <2>2. conn' = [conn EXCEPT ![u] = "chosen"] /\ dl' = [dl EXCEPT ![u] = q]
          /\ (status' = status \/ status' = [status EXCEPT ![q] = "queued"])
          /\ UNCHANGED <<completed, prio, changes, lists, transfers, threads, requests, online>>
      BY <1>10, Zenon DEF getDownload
    <2>. HIDE DEF q
    <2>. QED BY <2>1, <2>2 DEF Busy
  <1>11. ASSUME NEW u \in Users, addDownload(u) PROVE TypeOK'
    BY <1>11 DEF addDownload, Busy
  <1>12. ASSUME NEW u \in Users, SetRunning(u) PROVE TypeOK'
    BY <1>12 DEF SetRunning, Busy
  <1>13. ASSUME NEW u \in Users, endData(u) PROVE TypeOK'
    <2>1. dl[u] \in Items \cup {NoItem} /\ dl[u] # NoItem
      BY <1>13 DEF endData, Busy
    <2>2. /\ status' \in [Items -> {"new", "queued", "begun", "finished", "removed"}]
          /\ completed' \subseteq Items
          /\ list' \in [Priorities -> [Users -> Seq(Items)]]
          /\ running' \in [Users -> Items \cup {NoItem}]
          /\ downloads' \in [Items -> SUBSET Users]
          /\ asking' = asking
      <3>1. CASE putDownload(u)
        BY <2>1, <3>1 DEF putDownload, removeDownload
      <3>2. CASE Finish(u)
        BY <2>1, <3>2, RemoveUserType DEF Finish
      <3>3. CASE UNCHANGED <<status, completed, list, transfers, asking>>
        BY <3>3
      <3>. QED BY <1>13, <3>1, <3>2, <3>3 DEF endData, Put
    <2>. QED BY <1>13, <2>2 DEF endData, Busy
  <1>14. ASSUME NEW u \in Users, failDownload(u) PROVE TypeOK'
    <2>1. CASE putUnfinished(u)
      <3>1. dl[u] \in Items
        BY <1>14 DEF failDownload
      <3>2. asking' \subseteq Users
        BY <2>1, <3>1 DEF putUnfinished
      <3>3. /\ status' \in [Items -> {"new", "queued", "begun", "finished", "removed"}]
            /\ running' \in [Users -> Items \cup {NoItem}]
            /\ downloads' \in [Items -> SUBSET Users]
        BY <2>1, <3>1 DEF putUnfinished, removeDownload
      <3>. QED BY <1>14, <2>1, <3>2, <3>3 DEF failDownload, putUnfinished, Busy
    <2>2. CASE UNCHANGED <<status, completed, list, transfers, asking>>
      BY <1>14, <2>2 DEF failDownload, Busy
    <2>. QED BY <1>14, <2>1, <2>2 DEF failDownload
  <1>15. ASSUME NEW u \in Users, removeConnection(u) PROVE TypeOK'
    BY <1>15 DEF removeConnection, Busy
  <1>16. CASE UNCHANGED vars
    BY <1>16 DEF vars
  <1>. QED
    BY <1>1, <1>2, <1>3, <1>4, <1>5, <1>6, <1>7, <1>8, <1>9, <1>10, <1>11, <1>12, <1>13,
       <1>14, <1>15, <1>16, <1>17, Zenon DEF Next, QueueStep, UserStep, ConnStep

(* Every variable keeps its type.                                          *)
THEOREM TypeCorrect == Spec => []TypeOK
  <1>1. Init => TypeOK
    BY BoundsAssumption DEF Init, TypeOK, Priorities, PAUSED, Busy
  <1>. QED BY <1>1, TypeStep, PTL DEF Spec

-----------------------------------------------------------------------------
(* Shapes of the actions that call others.                                 *)

LEMMA GetShape ==
  ASSUME TypeOK, NEW u \in Users, NEW parts, getDownload(u, parts)
  PROVE  \E q \in Items :
           /\ u \in sources[q] /\ conn[u] = "ready"
           /\ conn' = [conn EXCEPT ![u] = "chosen"] /\ dl' = [dl EXCEPT ![u] = q]
           /\ \/ status' = status
              \/ status[q] \in {"begun", "finished"} /\ status' = [status EXCEPT ![q] = "queued"]
           /\ UNCHANGED <<completed, prio, changes, lists, transfers, threads, requests, online>>
  <1>. DEFINE q == getNextL(u, LOWEST, parts)
  <1>1. q \in Items /\ u \in sources[q]
    BY NextIsSource DEF getDownload
  <1>2. /\ conn[u] = "ready"
        /\ conn' = [conn EXCEPT ![u] = "chosen"] /\ dl' = [dl EXCEPT ![u] = q]
        /\ \/ status' = status
           \/ status[q] \in {"begun", "finished"} /\ status' = [status EXCEPT ![q] = "queued"]
        /\ UNCHANGED <<completed, prio, changes, lists, transfers, threads, requests, online>>
    BY Zenon DEF getDownload
  <1>. QED BY <1>1, <1>2, Zenon

(* What a removal of a source or of an item does to the downloads of i.    *)
Removes(i, us) ==
  /\ \A u \in Users : running'[u] = IF u \in us /\ running[u] = i THEN NoItem ELSE running[u]
  /\ \A j \in Items : downloads'[j] = IF j = i THEN downloads[j] \ {u \in us : running[u] = i}
                                                ELSE downloads[j]

LEMMA RemovesShrinks ==
  ASSUME NEW i \in Items, NEW us, Removes(i, us)
  PROVE  /\ \A u \in Users : running'[u] \in {running[u], NoItem}
         /\ \A j \in Items : downloads'[j] \subseteq downloads[j]
  BY DEF Removes

LEMMA RemoveShape ==
  ASSUME TypeOK, NEW i \in Items, NEW us \in SUBSET Users,
         removeDownload(i, {u \in us : running[u] = i})
  PROVE  Removes(i, us)
  BY DEF Removes, removeDownload, TypeOK

LEMMA SourceShape ==
  ASSUME TypeOK, NEW i \in Items, NEW u \in Users, removeSource(i, u)
  PROVE  /\ InQueue(i)
         /\ Removes(i, {u})
         /\ sources' = [sources EXCEPT ![i] = @ \ {u}]
         /\ UNCHANGED <<files, connections, threads, requests, online>>
         /\ UNCHANGED list \/ removeUserL(i, {u})
  <1>1. CASE isFinished(i)
    <2>1. removeDownload(i, {v \in {u} : running[v] = i}) /\ UNCHANGED list
      BY <1>1 DEF removeSource
    <2>. QED BY <2>1, RemoveShape DEF removeSource
  <1>2. CASE ~isFinished(i)
    <2>1. removeUserL(i, {u})
      BY <1>2 DEF removeSource
    <2>. QED BY <2>1, RemoveShape DEF removeSource, removeUserL
  <1>. QED BY <1>1, <1>2

LEMMA TargetShape ==
  ASSUME TypeOK, NEW i \in Items, removeTarget(i)
  PROVE  /\ InQueue(i)
         /\ Removes(i, sources[i]) \/ UNCHANGED transfers
         /\ leaving' = leaving \cup {i}
         /\ UNCHANGED <<files, sources, connections, adding, requests, online>>
         /\ UNCHANGED list \/ removeUserL(i, sources[i])
  <1>1. CASE isFinished(i)
    BY <1>1 DEF removeTarget
  <1>2. CASE ~isFinished(i)
    <2>1. removeUserL(i, sources[i]) /\ sources[i] \in SUBSET Users
      BY <1>2 DEF removeTarget, TypeOK
    <2>. QED BY <2>1, RemoveShape DEF removeTarget, removeUserL
  <1>. QED BY <1>1, <1>2

LEMMA FinishShape ==
  ASSUME TypeOK, NEW u \in Users, dl[u] \in Items, Finish(u)
  PROVE  /\ completed' = completed \cup {dl[u]}
         /\ \/ status' = [status EXCEPT ![dl[u]] = "finished"]
            \/ status' = [status EXCEPT ![dl[u]] = "removed"]
         /\ Removes(dl[u], sources[dl[u]])
         /\ removeUserL(dl[u], sources[dl[u]])
         /\ UNCHANGED asking
  <1>1. removeUserL(dl[u], sources[dl[u]]) /\ sources[dl[u]] \in SUBSET Users
    BY DEF Finish, TypeOK
  <1>2. Removes(dl[u], sources[dl[u]])
    BY <1>1, RemoveShape DEF removeUserL
  <1>. QED BY <1>1, <1>2 DEF Finish

(* What the end and the failure of a download change besides connections. *)
LEMMA EndShape ==
  ASSUME TypeOK, NEW u \in Users, endData(u)
  PROVE  /\ dl[u] \in Items /\ conn[u] = "loading" /\ conn' = [conn EXCEPT ![u] = "ready"]
         /\ UNCHANGED <<prio, changes, sources, dl, threads, asked, doomed, online>>
         /\ \/ InQueue(dl[u]) /\ putDownload(u)
            \/ InQueue(dl[u]) /\ Finish(u)
            \/ ~InQueue(dl[u]) /\ UNCHANGED <<status, completed, list, transfers, asking>>
  <1>1. dl[u] \in Items
    BY DEF endData, TypeOK, Busy
  <1>. QED BY <1>1 DEF endData, Put

LEMMA FailShape ==
  ASSUME TypeOK, NEW u \in Users, failDownload(u)
  PROVE  /\ dl[u] \in Items /\ conn[u] \in {"ready", "loading"}
         /\ conn' = [conn EXCEPT ![u] = "none"] /\ dl' = [dl EXCEPT ![u] = NoItem]
         /\ UNCHANGED <<prio, changes, sources, threads, asked, doomed, online>>
         /\ \/ InQueue(dl[u]) /\ putUnfinished(u)
            \/ ~InQueue(dl[u]) /\ UNCHANGED <<status, completed, list, transfers, asking>>
  <1>1. dl[u] \in Items
    BY DEF failDownload, TypeOK
  <1>. QED BY <1>1 DEF failDownload

-----------------------------------------------------------------------------
(* Items that were not added yet, and finished ones.                       *)

LEMMA UnusedStep ==
  ASSUME TypeOK, NewUnused, FinishedCompleted, [Next]_vars
  PROVE  /\ NewUnused' /\ FinishedCompleted'
         /\ completed \subseteq completed'
         /\ \A i \in Items : status[i] # "new" => status'[i] # "new"
         /\ \A i \in Items : status[i] = "removed" => status'[i] = "removed"
  <1>. DEFINE Goal == /\ NewUnused' /\ FinishedCompleted'
                      /\ completed \subseteq completed'
                      /\ \A i \in Items : status[i] # "new" => status'[i] # "new"
                      /\ \A i \in Items : status[i] = "removed" => status'[i] = "removed"
  <1>. USE DEF TypeOK, files, lists, transfers, connections, threads, requests, NewUnused,
               FinishedCompleted, isFinished, InQueue
  <1>1. ASSUME NEW i \in Items, NEW p \in Priorities, add(i, p) PROVE Goal
    BY <1>1 DEF add
  <1>2. ASSUME NEW i \in Items, NEW p \in Priorities, setPriority(i, p) PROVE Goal
    BY <1>2 DEF setPriority
  <1>3. ASSUME NEW i \in Items, NEW u \in Users, find_target(i, u) \/ Refuse(i, u) PROVE Goal
    BY <1>3 DEF find_target, Refuse
  <1>4. ASSUME NEW i \in Items, NEW u \in Users, addSourceL(i, u) PROVE Goal
    <2>1. /\ <<i, u>> \in adding /\ adding' = adding \ {<<i, u>>}
          /\ sources' = [sources EXCEPT ![i] = @ \cup {u}]
          /\ UNCHANGED <<files, transfers, connections>>
      BY <1>4, Zenon DEF addSourceL
    <2>. QED BY <2>1
  <1>5. ASSUME NEW i \in Items, NEW u \in Users, removeSource(i, u) PROVE Goal
    <2>1. /\ Removes(i, {u}) /\ sources' = [sources EXCEPT ![i] = @ \ {u}]
          /\ UNCHANGED <<files, connections, adding>>
      BY <1>5, SourceShape, Zenon
    <2>2. /\ \A v \in Users : running'[v] \in {running[v], NoItem}
          /\ \A j \in Items : downloads'[j] \subseteq downloads[j]
      BY <2>1, RemovesShrinks, Zenon
    <2>. QED BY <2>1, <2>2, NoItemAssumption
  <1>6. ASSUME NEW i \in Items, removeTarget(i) PROVE Goal
    <2>1. UNCHANGED <<files, sources, connections, adding>>
      BY <1>6, TargetShape, Zenon
    <2>2. /\ \A u \in Users : running'[u] \in {running[u], NoItem}
          /\ \A j \in Items : downloads'[j] \subseteq downloads[j]
      BY <1>6, TargetShape, RemovesShrinks
    <2>3. NewUnused'
      BY <2>1, <2>2, NoItemAssumption
    <2>. QED BY <2>1, <2>3
  <1>18. ASSUME NEW i \in Items, removeDeferredDB(i) PROVE Goal
    BY <1>18 DEF removeDeferredDB
  <1>7. ASSUME NEW u \in Users, UserConnected(u) PROVE Goal
    BY <1>7 DEF UserConnected
  <1>8. ASSUME NEW u \in Users, UserDisconnected(u) \/ putUpload(u) \/ putCQI(u) PROVE Goal
    BY <1>8, NoItemAssumption DEF UserDisconnected, putUpload, putCQI
  <1>9. ASSUME NEW u \in Users, getDownloadConnection(u) \/ addConnection(u) PROVE Goal
    BY <1>9, NoItemAssumption DEF getDownloadConnection, addConnection
  <1>10. ASSUME NEW u \in Users, NEW parts \in SUBSET Items, SeeUnwanted(u, parts) PROVE Goal
    BY <1>10 DEF SeeUnwanted
  <1>11. ASSUME NEW u \in Users, NEW parts \in SUBSET Items, getDownload(u, parts) PROVE Goal
    <2>1. PICK q \in Items :
            /\ u \in sources[q] /\ dl' = [dl EXCEPT ![u] = q]
            /\ \/ status' = status
               \/ status[q] \in {"begun", "finished"} /\ status' = [status EXCEPT ![q] = "queued"]
            /\ UNCHANGED <<completed, lists, transfers, adding>>
      BY <1>11, GetShape, Zenon
    <2>2. status[q] # "new"
      BY <2>1
    <2>3. NewUnused'
      BY <2>1, <2>2
    <2>. QED BY <2>1, <2>2, <2>3
  <1>12. ASSUME NEW u \in Users, addDownload(u) PROVE Goal
    BY <1>12 DEF addDownload, Busy
  <1>13. ASSUME NEW u \in Users, SetRunning(u) PROVE Goal
    BY <1>13 DEF SetRunning, Busy
  <1>14. ASSUME NEW u \in Users, endData(u) PROVE Goal
    <2>1. CASE InQueue(dl[u]) /\ putDownload(u)
      <3>1. /\ dl[u] \in Items /\ UNCHANGED <<completed, sources, dl, adding>>
            /\ status' = [status EXCEPT ![dl[u]] = "begun"]
            /\ running' = [v \in Users |-> IF v \in {u} THEN NoItem ELSE running[v]]
            /\ downloads' = [downloads EXCEPT ![dl[u]] = @ \ {u}]
        BY <1>14, <2>1, EndShape DEF putDownload, removeDownload
      <3>. QED BY <2>1, <3>1, NoItemAssumption
    <2>2. CASE InQueue(dl[u]) /\ Finish(u)
      <3>1. dl[u] \in Items /\ UNCHANGED <<sources, dl, adding>>
        BY <1>14, EndShape
      <3>2. /\ completed' = completed \cup {dl[u]}
            /\ \/ status' = [status EXCEPT ![dl[u]] = "finished"]
               \/ status' = [status EXCEPT ![dl[u]] = "removed"]
            /\ Removes(dl[u], sources[dl[u]])
        BY <2>2, <3>1, FinishShape, Zenon
      <3>3. /\ \A v \in Users : running'[v] \in {running[v], NoItem}
            /\ \A j \in Items : downloads'[j] \subseteq downloads[j]
        BY <3>1, <3>2, RemovesShrinks, Zenon
      <3>4. \A i \in Items : status'[i] = "new" => status[i] = "new"
        BY <2>2, <3>1, <3>2
      <3>5. NewUnused'
        BY <3>1, <3>3, <3>4, NoItemAssumption
      <3>. QED BY <2>2, <3>1, <3>2, <3>5
    <2>3. CASE ~InQueue(dl[u]) /\ UNCHANGED <<status, completed, list, transfers, asking>>
      BY <1>14, <2>3, EndShape
    <2>. QED BY <1>14, <2>1, <2>2, <2>3, EndShape
  <1>15. ASSUME NEW u \in Users, failDownload(u) PROVE Goal
    <2>1. CASE InQueue(dl[u]) /\ putUnfinished(u)
      <3>1. /\ dl[u] \in Items /\ UNCHANGED <<completed, sources, adding>>
            /\ dl' = [dl EXCEPT ![u] = NoItem]
            /\ \/ status' = status
               \/ status[dl[u]] = "queued" /\ status' = [status EXCEPT ![dl[u]] = "begun"]
            /\ running' = [v \in Users |-> IF v \in {u} THEN NoItem ELSE running[v]]
            /\ downloads' = [downloads EXCEPT ![dl[u]] = @ \ {u}]
        BY <1>15, <2>1, FailShape DEF putUnfinished, removeDownload
      <3>2. NewUnused'
        BY <2>1, <3>1, NoItemAssumption
      <3>. QED BY <2>1, <3>1, <3>2
    <2>2. CASE ~InQueue(dl[u]) /\ UNCHANGED <<status, completed, list, transfers, asking>>
      BY <1>15, <2>2, FailShape, NoItemAssumption
    <2>. QED BY <1>15, <2>1, <2>2, FailShape
  <1>16. ASSUME NEW u \in Users, removeConnection(u) PROVE Goal
    BY <1>16, NoItemAssumption DEF removeConnection
  <1>17. CASE UNCHANGED vars
    BY <1>17 DEF vars
  <1>. QED
    BY <1>1, <1>2, <1>3, <1>4, <1>5, <1>6, <1>7, <1>8, <1>9, <1>10, <1>11, <1>12, <1>13,
       <1>14, <1>15, <1>16, <1>17, <1>18, Zenon DEF Next, QueueStep, UserStep, ConnStep

-----------------------------------------------------------------------------
(* The downloads.                                                          *)

LEMMA RunRemoves ==
  ASSUME TypeOK, RunInv, NEW i \in Items, InQueue(i), NEW us, Removes(i, us),
         UNCHANGED <<completed, connections>>,
         \A j \in Items : status'[j] = status[j] \/ status'[j] = "removed"
  PROVE  RunInv'
  <1>. USE NoItemAssumption DEF TypeOK, RunInv, connections
  <1>1. ASSUME NEW u \in Users, running[u] = i, i \notin completed
        PROVE  conn[u] = "loading" /\ dl[u] = i
    BY <1>1 DEF RunningLoads, InQueue
  <1>2. \A u \in Users : running'[u] \in {running[u], NoItem}
    BY DEF Removes
  <1>3. RunningLoads'
    BY <1>2 DEF RunningLoads
  <1>4. ListedDownloads'
    <2>. SUFFICES ASSUME NEW u \in Users, conn[u] = "listed", dl[u] \notin completed
                  PROVE  u \in downloads'[dl[u]]
      BY DEF ListedDownloads
    <2>1. u \in downloads[dl[u]] /\ dl[u] \in Items
      BY DEF ListedDownloads, Busy
    <2>2. dl[u] = i => running[u] # i
      BY <1>1
    <2>. QED BY <2>1, <2>2 DEF Removes
  <1>5. RunningIsDownload'
    <2>. SUFFICES ASSUME NEW u \in Users, running'[u] \in Items \ completed
                  PROVE  u \in downloads'[running'[u]]
      BY DEF RunningIsDownload
    <2>1. running'[u] = running[u] /\ u \in downloads[running[u]]
      BY <1>2 DEF RunningIsDownload
    <2>2. ~(u \in us /\ running[u] = i)
      BY <2>1 DEF Removes
    <2>. QED BY <2>1, <2>2 DEF Removes
  <1>6. NoPhantomDownload'
    <2>1. \A j \in Items : downloads'[j] \subseteq downloads[j]
      BY RemovesShrinks, Zenon
    <2>. QED BY <2>1 DEF NoPhantomDownload, InQueue
  <1>. QED BY <1>3, <1>4, <1>5, <1>6

LEMMA RunStep ==
  ASSUME TypeOK, NewUnused, FinishedCompleted, RunInv, [Next]_vars
  PROVE  RunInv'
  <1>. USE NoItemAssumption DEF TypeOK, files, lists, transfers, connections, threads, requests, InQueue
  <1>. USE DEF RunInv, RunningLoads, ListedDownloads, RunningIsDownload, NoPhantomDownload
  <1>1. ASSUME NEW i \in Items, NEW p \in Priorities, add(i, p) PROVE RunInv'
    BY <1>1 DEF add, NewUnused
  <1>2. ASSUME NEW i \in Items, NEW p \in Priorities, setPriority(i, p) PROVE RunInv'
    BY <1>2 DEF setPriority
  <1>3. ASSUME NEW i \in Items, NEW u \in Users,
               find_target(i, u) \/ Refuse(i, u) \/ addSourceL(i, u)
        PROVE  RunInv'
    <2>1. UNCHANGED <<files, transfers, connections>>
      BY <1>3, Zenon DEF find_target, Refuse, addSourceL
    <2>. QED BY <2>1
  <1>4. ASSUME NEW i \in Items, NEW u \in Users, removeSource(i, u) PROVE RunInv'
    <2>1. InQueue(i) /\ Removes(i, {u}) /\ UNCHANGED <<files, connections>>
      BY <1>4, SourceShape, Zenon
    <2>. QED BY <2>1, RunRemoves
  <1>5. ASSUME NEW i \in Items, removeTarget(i) PROVE RunInv'
    <2>1. InQueue(i) /\ UNCHANGED <<files, connections>>
      BY <1>5, TargetShape, Zenon
    <2>2. CASE Removes(i, sources[i])
      BY <2>1, <2>2, RunRemoves
    <2>3. CASE UNCHANGED transfers
      BY <2>1, <2>3
    <2>. QED BY <1>5, <2>2, <2>3, TargetShape
  <1>18. ASSUME NEW i \in Items, removeDeferredDB(i) PROVE RunInv'
    BY <1>18 DEF removeDeferredDB
  <1>6. ASSUME NEW u \in Users, UserConnected(u) PROVE RunInv'
    BY <1>6 DEF UserConnected
  <1>7. ASSUME NEW u \in Users, UserDisconnected(u) \/ putUpload(u) \/ putCQI(u) PROVE RunInv'
    <2>1. running' = [running EXCEPT ![u] = NoItem] /\ UNCHANGED <<files, downloads, connections>>
      BY <1>7, Zenon DEF UserDisconnected, putUpload, putCQI
    <2>. QED BY <2>1
  <1>8. ASSUME NEW u \in Users, getDownloadConnection(u) PROVE RunInv'
    BY <1>8 DEF getDownloadConnection
  <1>9. ASSUME NEW u \in Users, addConnection(u) PROVE RunInv'
    BY <1>9 DEF addConnection
  <1>10. ASSUME NEW u \in Users, NEW parts \in SUBSET Items, SeeUnwanted(u, parts) PROVE RunInv'
    BY <1>10 DEF SeeUnwanted
  <1>11. ASSUME NEW u \in Users, NEW parts \in SUBSET Items, getDownload(u, parts) PROVE RunInv'
    <2>1. PICK q \in Items :
            /\ conn[u] = "ready"
            /\ conn' = [conn EXCEPT ![u] = "chosen"] /\ dl' = [dl EXCEPT ![u] = q]
            /\ \/ status' = status
               \/ status[q] \in {"begun", "finished"} /\ status' = [status EXCEPT ![q] = "queued"]
            /\ UNCHANGED <<completed, lists, transfers>>
      BY <1>11, GetShape
    <2>. QED BY <2>1
  <1>12. ASSUME NEW u \in Users, addDownload(u) PROVE RunInv'
    BY <1>12 DEF addDownload, Busy
  <1>13. ASSUME NEW u \in Users, SetRunning(u) PROVE RunInv'
    BY <1>13 DEF SetRunning, Busy
  <1>14. ASSUME NEW u \in Users, endData(u) PROVE RunInv'
    <2>1. dl[u] \in Items /\ conn[u] = "loading" /\ conn' = [conn EXCEPT ![u] = "ready"]
          /\ UNCHANGED dl
      BY <1>14, EndShape, Zenon
    <2>2. CASE InQueue(dl[u]) /\ putDownload(u)
      <3>1. /\ UNCHANGED completed
            /\ status' = [status EXCEPT ![dl[u]] = "begun"]
            /\ running' = [v \in Users |-> IF v \in {u} THEN NoItem ELSE running[v]]
            /\ downloads' = [downloads EXCEPT ![dl[u]] = @ \ {u}]
        BY <2>2 DEF putDownload, removeDownload
      <3>2. RunningLoads'
        BY <2>1, <2>2, <3>1
      <3>3. ListedDownloads' /\ RunningIsDownload'
        BY <2>1, <2>2, <3>1
      <3>4. NoPhantomDownload'
        BY <2>1, <2>2, <3>1
      <3>. QED BY <3>2, <3>3, <3>4
    <2>3. CASE InQueue(dl[u]) /\ Finish(u)
      <3>1. /\ completed' = completed \cup {dl[u]}
            /\ \/ status' = [status EXCEPT ![dl[u]] = "finished"]
               \/ status' = [status EXCEPT ![dl[u]] = "removed"]
            /\ Removes(dl[u], sources[dl[u]])
        BY <2>1, <2>3, FinishShape, Zenon
      <3>2. /\ \A v \in Users : running'[v] \in {running[v], NoItem}
            /\ \A v \in Users : running'[v] # dl[u] => running'[v] = running[v] \/ running'[v] = NoItem
            /\ \A j \in Items \ completed' : downloads'[j] = downloads[j]
        BY <2>1, <3>1 DEF Removes
      <3>3. ASSUME NEW v \in Users, running'[v] \in Items \ completed'
            PROVE  /\ running'[v] = running[v] /\ running[v] \in Items \ completed
                   /\ running[v] # dl[u] /\ v # u
        BY <2>1, <3>1, <3>2, <3>3
      <3>4. RunningLoads'
        <4>. SUFFICES ASSUME NEW v \in Users, running'[v] \in Items \ completed'
                      PROVE  IF conn'[v] = "loading" THEN running'[v] = dl'[v]
                             ELSE status'[running'[v]] = "removed"
          OBVIOUS
        <4>. QED BY <2>1, <3>1, <3>3
      <3>6. ListedDownloads'
        BY <2>1, <3>1, <3>2 DEF Busy
      <3>7. RunningIsDownload'
        BY <3>2, <3>3
      <3>5. NoPhantomDownload'
        BY <2>1, <2>3, <3>1, <3>2
      <3>. QED BY <3>4, <3>5, <3>6, <3>7
    <2>4. CASE ~InQueue(dl[u]) /\ UNCHANGED <<status, completed, list, transfers, asking>>
      BY <2>1, <2>4 DEF NewUnused
    <2>. QED BY <1>14, <2>2, <2>3, <2>4, EndShape
  <1>15. ASSUME NEW u \in Users, failDownload(u) PROVE RunInv'
    <2>1. /\ dl[u] \in Items /\ conn[u] \in {"ready", "loading"}
          /\ conn' = [conn EXCEPT ![u] = "none"] /\ dl' = [dl EXCEPT ![u] = NoItem]
      BY <1>15, FailShape, Zenon
    <2>2. CASE InQueue(dl[u]) /\ putUnfinished(u)
      <3>1. /\ UNCHANGED completed
            /\ \/ status' = status
               \/ status[dl[u]] = "queued" /\ status' = [status EXCEPT ![dl[u]] = "begun"]
            /\ running' = [v \in Users |-> IF v \in {u} THEN NoItem ELSE running[v]]
            /\ downloads' = [downloads EXCEPT ![dl[u]] = @ \ {u}]
        BY <2>2 DEF putUnfinished, removeDownload
      <3>2. RunningLoads'
        BY <2>1, <2>2, <3>1
      <3>3. ListedDownloads' /\ RunningIsDownload'
        BY <2>1, <2>2, <3>1
      <3>4. NoPhantomDownload'
        BY <2>1, <2>2, <3>1
      <3>. QED BY <3>2, <3>3, <3>4
    <2>3. CASE ~InQueue(dl[u]) /\ UNCHANGED <<status, completed, list, transfers, asking>>
      BY <2>1, <2>3 DEF NewUnused
    <2>. QED BY <1>15, <2>2, <2>3, FailShape
  <1>16. ASSUME NEW u \in Users, removeConnection(u) PROVE RunInv'
    BY <1>16 DEF removeConnection
  <1>17. CASE UNCHANGED vars
    BY <1>17 DEF vars
  <1>. QED
    BY <1>1, <1>2, <1>3, <1>4, <1>5, <1>6, <1>7, <1>8, <1>9, <1>10, <1>11, <1>12, <1>13,
       <1>14, <1>15, <1>16, <1>17, <1>18, Zenon DEF Next, QueueStep, UserStep, ConnStep

-----------------------------------------------------------------------------
(* The lists.                                                              *)

LEMMA AddKeeps ==
  ASSUME TypeOK, NEW i \in Items, NEW u \in Users, addL(i, u)
  PROVE  /\ \E p \in Priorities : Listed(i, p, u)'
         /\ \A j \in Items, p \in Priorities, v \in Users : Listed(j, p, v) => Listed(j, p, v)'
  <1>. DEFINE l == list[prio[i]][u]
  <1>1. prio[i] \in Priorities /\ l \in Seq(Items)
    BY DEF TypeOK
  <1>2. PICK s \in Seq(Items) :
          /\ list' = [list EXCEPT ![prio[i]][u] = s]
          /\ \E k \in 1..Len(s) : s[k] = i
          /\ \A k \in 1..Len(l) : \E m \in 1..Len(s) : s[m] = l[k]
    <2>1. CASE status[i] \in {"begun", "finished"}
      <3>. DEFINE s == <<i>> \o l
      <3>1. s \in Seq(Items) /\ Len(s) = Len(l) + 1 /\ s[1] = i
            /\ \A k \in 1..Len(l) : s[k + 1] = l[k]
        BY <1>1
      <3>2. list' = [list EXCEPT ![prio[i]][u] = s]
        BY <2>1 DEF addL
      <3>. HIDE DEF s
      <3>3. 1 \in 1..Len(s) /\ \A k \in 1..Len(l) : k + 1 \in 1..Len(s)
        BY <1>1, <3>1
      <3>. QED BY <3>1, <3>2, <3>3
    <2>2. CASE ~(status[i] \in {"begun", "finished"})
      <3>. DEFINE s == Append(l, i)
      <3>1. s \in Seq(Items) /\ Len(s) = Len(l) + 1 /\ s[Len(l) + 1] = i
            /\ \A k \in 1..Len(l) : s[k] = l[k]
        BY <1>1
      <3>2. list' = [list EXCEPT ![prio[i]][u] = s]
        BY <2>2 DEF addL
      <3>. HIDE DEF s
      <3>3. Len(l) + 1 \in 1..Len(s) /\ \A k \in 1..Len(l) : k \in 1..Len(s)
        BY <1>1, <3>1
      <3>. QED BY <3>1, <3>2, <3>3
    <2>. QED BY <2>1, <2>2
  <1>3. list'[prio[i]][u] = s
        /\ \A p \in Priorities, v \in Users :
             p # prio[i] \/ v # u => list'[p][v] = list[p][v]
    BY <1>1, <1>2 DEF TypeOK
  <1>4. \E p \in Priorities : Listed(i, p, u)'
    BY <1>1, <1>2, <1>3 DEF Listed
  <1>5. ASSUME NEW j \in Items, NEW p \in Priorities, NEW v \in Users, Listed(j, p, v)
        PROVE  Listed(j, p, v)'
    <2>1. CASE p = prio[i] /\ v = u
      <3>1. PICK k \in 1..Len(l) : l[k] = j
        BY <1>5, <2>1 DEF Listed
      <3>2. PICK m \in 1..Len(s) : s[m] = j
        BY <1>2, <3>1
      <3>3. list'[p][v] = s
        BY <1>3, <2>1
      <3>. QED BY <3>2, <3>3, Zenon DEF Listed
    <2>2. CASE p # prio[i] \/ v # u
      <3>1. list'[p][v] = list[p][v]
        BY <1>3, <2>2
      <3>. QED BY <1>5, <3>1, Zenon DEF Listed
    <2>. QED BY <2>1, <2>2
  <1>. QED BY <1>1, <1>4, <1>5

LEMMA RemoveKeeps ==
  ASSUME TypeOK, NEW i \in Items, NEW us \in SUBSET Users, removeUserL(i, us)
  PROVE  \A j \in Items, p \in Priorities, v \in Users :
           (j # i \/ v \notin us) /\ Listed(j, p, v) => Listed(j, p, v)'
  <1>. SUFFICES ASSUME NEW j \in Items, NEW p \in Priorities, NEW v \in Users,
                       j # i \/ v \notin us, Listed(j, p, v)
                PROVE  Listed(j, p, v)'
    OBVIOUS
  <1>. DEFINE l == [u \in Users |-> IF u \in us THEN RemoveFirst(list[prio[i]][u], i)
                                             ELSE list[prio[i]][u]]
  <1>1. list' = [list EXCEPT ![prio[i]] = l]
    BY Zenon DEF removeUserL
  <1>2. l[v] = IF v \in us THEN RemoveFirst(list[prio[i]][v], i) ELSE list[prio[i]][v]
    OBVIOUS
  <1>. HIDE DEF l
  <1>3. CASE p = prio[i] /\ v \in us
    <2>1. list'[p][v] = RemoveFirst(list[p][v], i) /\ list[p][v] \in Seq(Items)
      BY <1>1, <1>2, <1>3 DEF TypeOK
    <2>2. PICK k \in 1..Len(list[p][v]) : list[p][v][k] = j
      BY DEF Listed
    <2>3. \E m \in 1..Len(RemoveFirst(list[p][v], i)) : RemoveFirst(list[p][v], i)[m] = j
      BY <1>3, <2>1, <2>2, RemoveFirstKeeps
    <2>. QED BY <2>1, <2>3, Zenon DEF Listed
  <1>4. CASE ~(p = prio[i] /\ v \in us)
    <2>1. list'[p][v] = list[p][v]
      BY <1>1, <1>2, <1>4 DEF TypeOK
    <2>. QED BY <2>1, Zenon DEF Listed
  <1>. QED BY <1>3, <1>4

(* Steps that leave the lists and add neither items nor sources.           *)
LEMMA ListsSame ==
  ASSUME SourceListed, UNCHANGED <<lists, leaving>>, completed \subseteq completed',
         \A i \in Items : status'[i] \in {"queued", "begun", "finished"} => InQueue(i)
  PROVE  SourceListed'
  <1>2. SUFFICES ASSUME NEW i \in Items, status'[i] \in {"queued", "begun", "finished"},
                        i \notin completed' \cup leaving', NEW u \in sources'[i]
                 PROVE  \E p \in Priorities : Listed(i, p, u)'
    BY Zenon DEF SourceListed, InQueue
  <1>3. PICK p \in Priorities : Listed(i, p, u)
    BY <1>2, Zenon DEF SourceListed, lists
  <1>4. list' = list
    BY DEF lists
  <1>. QED BY <1>3, <1>4, Zenon DEF Listed

LEMMA SourceStep ==
  ASSUME TypeOK, QueueInv, [Next]_vars
  PROVE  SourceListed'
  <1>. USE DEF QueueInv
  <1>a. completed \subseteq completed'
    BY UnusedStep
  <1>. USE DEF TypeOK, files, lists, transfers, connections, threads, requests
  <1>1. ASSUME NEW i \in Items, NEW p \in Priorities, add(i, p) PROVE SourceListed'
    <2>1. sources[i] = {} /\ UNCHANGED <<lists, completed, leaving>>
          /\ \A j \in Items : j # i => status'[j] = status[j]
      BY <1>1 DEF add, NewUnused
    <2>2. \A j \in Items, q \in Priorities, u \in Users : Listed(j, q, u)' <=> Listed(j, q, u)
      BY <2>1 DEF Listed
    <2>. QED BY <2>1, <2>2 DEF SourceListed, InQueue
  <1>2. ASSUME NEW i \in Items, NEW u \in Users, addSourceL(i, u) PROVE SourceListed'
    <2>1. sources' = [sources EXCEPT ![i] = @ \cup {u}] /\ UNCHANGED <<files, leaving>>
      BY <1>2, Zenon DEF addSourceL
    <2>2. CASE isFinished(i)
      <3>1. i \in completed /\ UNCHANGED list
        BY <1>2, <2>2 DEF addSourceL, FinishedCompleted
      <3>2. \A j \in Items, q \in Priorities, v \in Users : Listed(j, q, v)' <=> Listed(j, q, v)
        BY <3>1 DEF Listed
      <3>. QED BY <2>1, <3>1, <3>2 DEF SourceListed, InQueue
    <2>3. CASE ~isFinished(i)
      <3>1. addL(i, u)
        BY <1>2, <2>3 DEF addSourceL
      <3>2. /\ \E p \in Priorities : Listed(i, p, u)'
            /\ \A j \in Items, p \in Priorities, v \in Users : Listed(j, p, v) => Listed(j, p, v)'
        BY <3>1, AddKeeps, Zenon
      <3>. SUFFICES ASSUME NEW j \in Items, InQueue(j), j \notin completed \cup leaving, NEW v \in sources'[j]
                    PROVE  \E p \in Priorities : Listed(j, p, v)'
        BY <2>1, Zenon DEF SourceListed, InQueue
      <3>3. CASE j = i /\ v = u
        BY <3>2, <3>3
      <3>4. CASE ~(j = i /\ v = u)
        <4>1. v \in sources[j] /\ v \in Users
          BY <2>1, <3>4
        <4>2. PICK p \in Priorities : Listed(j, p, v)
          BY <4>1 DEF SourceListed
        <4>. QED BY <3>2, <4>1, <4>2
      <3>. QED BY <3>3, <3>4
    <2>. QED BY <2>2, <2>3
  <1>3. ASSUME NEW i \in Items, NEW u \in Users, removeSource(i, u) PROVE SourceListed'
    <2>1. sources' = [sources EXCEPT ![i] = @ \ {u}] /\ UNCHANGED <<files, leaving>>
      BY <1>3, SourceShape, Zenon
    <2>2. \A j \in Items, p \in Priorities, v \in Users :
            (j # i \/ v # u) /\ Listed(j, p, v) => Listed(j, p, v)'
      <3>1. CASE UNCHANGED list
        BY <3>1 DEF Listed
      <3>2. CASE removeUserL(i, {u})
        <4>1. \A j \in Items, p \in Priorities, v \in Users :
                (j # i \/ v \notin {u}) /\ Listed(j, p, v) => Listed(j, p, v)'
          BY <3>2, RemoveKeeps, {u} \in SUBSET Users, Zenon
        <4>. QED BY <4>1, Zenon
      <3>. QED BY <1>3, <3>1, <3>2, SourceShape
    <2>. QED BY <2>1, <2>2 DEF SourceListed, InQueue
  <1>4. ASSUME NEW i \in Items, removeTarget(i) PROVE SourceListed'
    <2>1. leaving' = leaving \cup {i} /\ UNCHANGED <<files, sources>>
      BY <1>4, TargetShape, Zenon
    <2>2. \A j \in Items, p \in Priorities, v \in Users :
            j # i /\ Listed(j, p, v) => Listed(j, p, v)'
      <3>1. CASE UNCHANGED list
        BY <3>1 DEF Listed
      <3>2. CASE removeUserL(i, sources[i])
        BY <3>2, RemoveKeeps
      <3>. QED BY <1>4, <3>1, <3>2, TargetShape
    <2>. QED BY <2>1, <2>2 DEF SourceListed, InQueue
  <1>14. ASSUME NEW i \in Items, removeDeferredDB(i) PROVE SourceListed'
    <2>1. /\ status' = [status EXCEPT ![i] = "removed"] /\ leaving' = leaving \ {i}
          /\ UNCHANGED <<lists, completed>>
      BY <1>14, Zenon DEF removeDeferredDB
    <2>2. \A j \in Items, p \in Priorities, v \in Users : Listed(j, p, v)' <=> Listed(j, p, v)
      BY <2>1 DEF Listed
    <2>. QED BY <2>1, <2>2 DEF SourceListed, InQueue
  <1>5. ASSUME NEW u \in Users, endData(u) PROVE SourceListed'
    <2>1. dl[u] \in Items /\ UNCHANGED <<sources, leaving>>
      BY <1>5, EndShape
    <2>2. CASE InQueue(dl[u]) /\ putDownload(u)
      BY <1>a, <2>1, <2>2, ListsSame DEF putDownload, InQueue
    <2>3. CASE InQueue(dl[u]) /\ Finish(u)
      <3>1. /\ completed' = completed \cup {dl[u]}
            /\ \/ status' = [status EXCEPT ![dl[u]] = "finished"]
               \/ status' = [status EXCEPT ![dl[u]] = "removed"]
        BY <2>1, <2>3, FinishShape, Zenon
      <3>2. \A j \in Items, p \in Priorities, v \in Users :
              j # dl[u] /\ Listed(j, p, v) => Listed(j, p, v)'
        BY <2>1, <2>3, FinishShape, RemoveKeeps
      <3>. QED BY <2>1, <3>1, <3>2 DEF SourceListed, InQueue
    <2>4. CASE ~InQueue(dl[u]) /\ UNCHANGED <<status, completed, list, transfers, asking>>
      BY <1>a, <2>1, <2>4, ListsSame DEF InQueue
    <2>. QED BY <1>5, <2>2, <2>3, <2>4, EndShape
  <1>6. ASSUME NEW u \in Users, failDownload(u) PROVE SourceListed'
    <2>1. dl[u] \in Items /\ UNCHANGED <<sources, leaving>>
      BY <1>6, FailShape
    <2>2. CASE InQueue(dl[u]) /\ putUnfinished(u)
      <3>1. /\ UNCHANGED list
            /\ \/ status' = status
               \/ status[dl[u]] = "queued" /\ status' = [status EXCEPT ![dl[u]] = "begun"]
        BY <2>2 DEF putUnfinished
      <3>. QED BY <1>a, <2>1, <3>1, ListsSame DEF InQueue
    <2>3. CASE ~InQueue(dl[u]) /\ UNCHANGED <<status, completed, list, transfers, asking>>
      BY <1>a, <2>1, <2>3, ListsSame DEF InQueue
    <2>. QED BY <1>6, <2>2, <2>3, FailShape
  <1>7. ASSUME NEW u \in Users, NEW parts \in SUBSET Items, getDownload(u, parts)
        PROVE  SourceListed'
    <2>1. PICK q \in Items :
            /\ \/ status' = status
               \/ status[q] \in {"begun", "finished"} /\ status' = [status EXCEPT ![q] = "queued"]
            /\ UNCHANGED <<lists, threads>>
      BY <1>7, GetShape
    <2>. QED BY <1>a, <2>1, ListsSame DEF InQueue
  <1>8. CASE UNCHANGED <<lists, status, leaving>>
    BY <1>8, <1>a, ListsSame DEF InQueue
  <1>9. ASSUME NEW i \in Items, NEW p \in Priorities, setPriority(i, p) PROVE SourceListed'
    BY <1>9, <1>8, Zenon DEF setPriority
  <1>10. ASSUME NEW i \in Items, NEW u \in Users, find_target(i, u) \/ Refuse(i, u)
         PROVE  SourceListed'
    BY <1>10, <1>8, Zenon DEF find_target, Refuse
  <1>11. ASSUME NEW u \in Users, NEW parts \in SUBSET Items, SeeUnwanted(u, parts)
         PROVE  SourceListed'
    BY <1>11, <1>8, Zenon DEF SeeUnwanted
  <1>12. ASSUME NEW u \in Users,
                \/ UserConnected(u) \/ UserDisconnected(u) \/ putUpload(u)
                \/ getDownloadConnection(u) \/ addConnection(u) \/ putCQI(u)
                \/ addDownload(u) \/ SetRunning(u) \/ removeConnection(u)
         PROVE  SourceListed'
    <2>1. UNCHANGED <<lists, status, leaving>>
      BY <1>12, Zenon DEF UserConnected, UserDisconnected, putUpload, getDownloadConnection,
         addConnection, putCQI, addDownload, SetRunning, removeConnection
    <2>. QED BY <1>8, <2>1
  <1>13. CASE UNCHANGED vars
    <2>1. UNCHANGED <<lists, status, leaving>>
      BY <1>13 DEF vars
    <2>. QED BY <1>8, <2>1
  <1>. QED
    BY <1>1, <1>2, <1>3, <1>4, <1>5, <1>6, <1>7, <1>8, <1>9, <1>10, <1>11,
       <1>12, <1>13, <1>14, Zenon
    DEF Next, QueueStep, UserStep, ConnStep

-----------------------------------------------------------------------------
LEMMA InvStep == TypeOK /\ IInv /\ [Next]_vars => IInv'
  <1>. SUFFICES ASSUME TypeOK, IInv, [Next]_vars PROVE IInv'
    OBVIOUS
  <1>1. NewUnused' /\ FinishedCompleted'
    BY UnusedStep DEF IInv, QueueInv
  <1>2. RunInv'
    BY RunStep DEF IInv, QueueInv
  <1>3. SourceListed'
    BY SourceStep DEF IInv
  <1>. QED BY <1>1, <1>2, <1>3 DEF IInv, QueueInv

LEMMA InvCorrect == Spec => []IInv
  <1>1. Init => IInv
    BY NoItemAssumption DEF Init, IInv, QueueInv, RunInv, NewUnused, FinishedCompleted,
       SourceListed, RunningLoads, ListedDownloads, RunningIsDownload, NoPhantomDownload,
       InQueue, isFinished
  <1>. QED BY <1>1, TypeCorrect, InvStep, PTL DEF Spec

(* No file loses a source: whoever is a source of a file that was never    *)
(* finished has it in one of his lists (addL, removeUserL, setPriority).   *)
THEOREM SourcesCorrect == Spec => []SourceListed
  BY InvCorrect, PTL DEF IInv, QueueInv

(* What g_runningMap says a user sends is in the item's own table of       *)
(* downloads (addDownload, setRunning, removeDownload, removeRunning).     *)
THEOREM RunningCorrect == Spec => []RunningIsDownload
  BY InvCorrect, PTL DEF IInv, RunInv

(* No download of an unfinished file in the queue is left behind by the    *)
(* removal of its source, its end or its failure (putDownload).            *)
THEOREM PhantomCorrect == Spec => []NoPhantomDownload
  BY InvCorrect, PTL DEF IInv, RunInv

-----------------------------------------------------------------------------
(* Priorities that nobody changes.                                         *)

PlacedByPrio ==
  \A i \in Items, p \in Priorities, u \in Users :
    Listed(i, p, u) => prio[i] = p /\ status[i] # "new"

(* Where what is listed was listed before, at the same priority.           *)
LEMMA PlacedShrinks ==
  ASSUME PlacedByPrio, UNCHANGED prio,
         \A i \in Items : status[i] # "new" => status'[i] # "new",
         \A i \in Items, p \in Priorities, u \in Users : Listed(i, p, u)' => Listed(i, p, u)
  PROVE  PlacedByPrio'
  BY DEF PlacedByPrio

LEMMA PlacedRemoves ==
  ASSUME TypeOK, NEW i \in Items, NEW us \in SUBSET Users, removeUserL(i, us)
  PROVE  \A j \in Items, p \in Priorities, v \in Users : Listed(j, p, v)' => Listed(j, p, v)
  <1>. SUFFICES ASSUME NEW j \in Items, NEW p \in Priorities, NEW v \in Users, Listed(j, p, v)'
                PROVE  Listed(j, p, v)
    OBVIOUS
  <1>. DEFINE l == [u \in Users |-> IF u \in us THEN RemoveFirst(list[prio[i]][u], i)
                                             ELSE list[prio[i]][u]]
  <1>1. list' = [list EXCEPT ![prio[i]] = l]
    BY Zenon DEF removeUserL
  <1>2. l[v] = IF v \in us THEN RemoveFirst(list[prio[i]][v], i) ELSE list[prio[i]][v]
    OBVIOUS
  <1>. HIDE DEF l
  <1>3. PICK k \in 1..Len(list'[p][v]) : list'[p][v][k] = j
    BY Zenon DEF Listed
  <1>4. CASE p = prio[i] /\ v \in us
    <2>1. list'[p][v] = RemoveFirst(list[p][v], i) /\ list[p][v] \in Seq(Items)
      BY <1>1, <1>2, <1>4 DEF TypeOK
    <2>2. \E m \in 1..Len(list[p][v]) : RemoveFirst(list[p][v], i)[k] = list[p][v][m]
      BY <1>3, <2>1, RemoveFirstKeeps
    <2>. QED BY <1>3, <2>1, <2>2, Zenon DEF Listed
  <1>5. CASE ~(p = prio[i] /\ v \in us)
    <2>1. list'[p][v] = list[p][v]
      BY <1>1, <1>2, <1>5 DEF TypeOK
    <2>. QED BY <1>3, <2>1, Zenon DEF Listed
  <1>. QED BY <1>4, <1>5

LEMMA PlacedAdds ==
  ASSUME TypeOK, NEW i \in Items, NEW u \in Users, addL(i, u)
  PROVE  \A j \in Items, p \in Priorities, v \in Users :
           Listed(j, p, v)' => Listed(j, p, v) \/ (j = i /\ p = prio[i])
  <1>. SUFFICES ASSUME NEW j \in Items, NEW p \in Priorities, NEW v \in Users, Listed(j, p, v)'
                PROVE  Listed(j, p, v) \/ (j = i /\ p = prio[i])
    OBVIOUS
  <1>. DEFINE l == list[prio[i]][u]
  <1>1. prio[i] \in Priorities /\ l \in Seq(Items)
    BY DEF TypeOK
  <1>2. PICK s \in Seq(Items) :
          /\ list' = [list EXCEPT ![prio[i]][u] = s]
          /\ \A k \in 1..Len(s) : s[k] = i \/ \E m \in 1..Len(l) : s[k] = l[m]
    <2>1. CASE status[i] \in {"begun", "finished"}
      <3>. DEFINE s == <<i>> \o l
      <3>1. s \in Seq(Items) /\ Len(s) = Len(l) + 1 /\ s[1] = i
            /\ \A k \in 2..Len(s) : s[k] = l[k - 1] /\ k - 1 \in 1..Len(l)
        BY <1>1
      <3>2. list' = [list EXCEPT ![prio[i]][u] = s]
        BY <2>1 DEF addL
      <3>. HIDE DEF s
      <3>3. \A k \in 1..Len(s) : k = 1 \/ k \in 2..Len(s)
        BY <3>1
      <3>. QED BY <3>1, <3>2, <3>3
    <2>2. CASE ~(status[i] \in {"begun", "finished"})
      <3>. DEFINE s == Append(l, i)
      <3>1. s \in Seq(Items) /\ Len(s) = Len(l) + 1 /\ s[Len(l) + 1] = i
            /\ \A k \in 1..Len(l) : s[k] = l[k]
        BY <1>1
      <3>2. list' = [list EXCEPT ![prio[i]][u] = s]
        BY <2>2 DEF addL
      <3>. HIDE DEF s
      <3>3. \A k \in 1..Len(s) : k = Len(l) + 1 \/ k \in 1..Len(l)
        BY <1>1, <3>1
      <3>. QED BY <3>1, <3>2, <3>3
    <2>. QED BY <2>1, <2>2
  <1>3. PICK k \in 1..Len(list'[p][v]) : list'[p][v][k] = j
    BY Zenon DEF Listed
  <1>4. CASE p = prio[i] /\ v = u
    <2>1. list'[p][v] = s
      BY <1>1, <1>2, <1>4 DEF TypeOK
    <2>2. j = i \/ \E m \in 1..Len(l) : j = l[m]
      BY <1>2, <1>3, <2>1
    <2>. QED BY <1>4, <2>2, Zenon DEF Listed
  <1>5. CASE ~(p = prio[i] /\ v = u)
    <2>1. list'[p][v] = list[p][v]
      BY <1>1, <1>2, <1>5 DEF TypeOK
    <2>. QED BY <1>3, <2>1, Zenon DEF Listed
  <1>. QED BY <1>4, <1>5

LEMMA PlacedStep ==
  ASSUME TypeOK, QueueInv, changes = 0 => PlacedByPrio, [Next]_vars, changes' = 0
  PROVE  PlacedByPrio'
  <1>. USE DEF files, lists
  <1>1. \A i \in Items : status[i] # "new" => status'[i] # "new"
    BY UnusedStep DEF QueueInv
  <1>2. ASSUME PlacedByPrio, UNCHANGED <<list, prio>> PROVE PlacedByPrio'
    <2>1. \A i \in Items, p \in Priorities, u \in Users : Listed(i, p, u)' => Listed(i, p, u)
      BY <1>2 DEF Listed
    <2>. QED BY <1>1, <1>2, <2>1, PlacedShrinks
  <1>3. ASSUME NEW i \in Items, NEW us \in SUBSET Users, removeUserL(i, us),
               PlacedByPrio, UNCHANGED prio
        PROVE  PlacedByPrio'
    BY <1>1, <1>3, PlacedRemoves, PlacedShrinks
  <1>4. ASSUME NEW i \in Items, NEW p \in Priorities, add(i, p) PROVE PlacedByPrio'
    <2>1. /\ status[i] = "new" /\ UNCHANGED <<list, changes>>
          /\ \A j \in Items : j # i => prio'[j] = prio[j]
      BY <1>4 DEF add, TypeOK
    <2>2. PlacedByPrio
      BY <2>1
    <2>3. \A j \in Items, q \in Priorities, u \in Users : Listed(j, q, u)' => Listed(j, q, u)
      BY <2>1 DEF Listed
    <2>. QED BY <1>1, <2>1, <2>2, <2>3 DEF PlacedByPrio
  <1>5. ASSUME NEW i \in Items, NEW p \in Priorities, setPriority(i, p) PROVE PlacedByPrio'
    BY <1>5, BoundsAssumption DEF setPriority, TypeOK
  <1>6. ASSUME NEW i \in Items, NEW u \in Users, addSourceL(i, u) PROVE PlacedByPrio'
    <2>1. <<i, u>> \in adding /\ UNCHANGED <<prio, changes>>
      BY <1>6, Zenon DEF addSourceL
    <2>2. PlacedByPrio /\ status[i] # "new"
      BY <2>1 DEF QueueInv, NewUnused
    <2>3. CASE isFinished(i)
      BY <1>2, <1>6, <2>1, <2>2, <2>3 DEF addSourceL
    <2>4. CASE ~isFinished(i)
      <3>1. addL(i, u)
        BY <1>6, <2>4 DEF addSourceL
      <3>2. \A j \in Items, p \in Priorities, v \in Users :
              Listed(j, p, v)' => Listed(j, p, v) \/ (j = i /\ p = prio[i])
        BY <3>1, PlacedAdds
      <3>. QED BY <1>1, <2>1, <2>2, <3>2 DEF PlacedByPrio
    <2>. QED BY <2>3, <2>4
  <1>7. ASSUME NEW i \in Items, NEW u \in Users, removeSource(i, u) PROVE PlacedByPrio'
    <2>1. UNCHANGED <<prio, changes>> /\ (UNCHANGED list \/ removeUserL(i, {u}))
      BY <1>7, SourceShape
    <2>. QED BY <1>2, <1>3, <2>1
  <1>8. ASSUME NEW i \in Items, removeTarget(i) PROVE PlacedByPrio'
    <2>1. UNCHANGED <<prio, changes>> /\ (UNCHANGED list \/ removeUserL(i, sources[i]))
      BY <1>8, TargetShape
    <2>2. sources[i] \in SUBSET Users
      BY DEF TypeOK
    <2>. QED BY <1>2, <1>3, <2>1, <2>2
  <1>17. ASSUME NEW i \in Items, removeDeferredDB(i) PROVE PlacedByPrio'
    <2>1. UNCHANGED <<list, prio, changes>>
      BY <1>17, Zenon DEF removeDeferredDB
    <2>. QED BY <1>2, <2>1
  <1>9. ASSUME NEW u \in Users, endData(u) PROVE PlacedByPrio'
    <2>1. dl[u] \in Items /\ UNCHANGED <<prio, changes>>
      BY <1>9, EndShape
    <2>2. sources[dl[u]] \in SUBSET Users
      BY <2>1 DEF TypeOK
    <2>3. UNCHANGED list \/ removeUserL(dl[u], sources[dl[u]])
      BY <1>9, EndShape DEF putDownload, Finish
    <2>. QED BY <1>2, <1>3, <2>1, <2>2, <2>3
  <1>10. ASSUME NEW u \in Users, failDownload(u) PROVE PlacedByPrio'
    <2>1. UNCHANGED <<list, prio, changes>>
      BY <1>10, FailShape DEF putUnfinished
    <2>. QED BY <1>2, <2>1
  <1>11. CASE UNCHANGED <<files, lists>>
    BY <1>2, <1>11
  <1>12. ASSUME NEW u \in Users, NEW parts \in SUBSET Items, getDownload(u, parts)
         PROVE  PlacedByPrio'
    <2>1. UNCHANGED <<list, prio, changes>>
      BY <1>12, Zenon DEF getDownload
    <2>. QED BY <1>2, <2>1
  <1>13. ASSUME NEW i \in Items, NEW u \in Users, find_target(i, u) \/ Refuse(i, u)
         PROVE  PlacedByPrio'
    BY <1>11, <1>13, Zenon DEF find_target, Refuse
  <1>14. ASSUME NEW u \in Users, NEW parts \in SUBSET Items, SeeUnwanted(u, parts)
         PROVE  PlacedByPrio'
    BY <1>11, <1>14, Zenon DEF SeeUnwanted
  <1>15. ASSUME NEW u \in Users,
                \/ UserConnected(u) \/ UserDisconnected(u) \/ putUpload(u)
                \/ getDownloadConnection(u) \/ addConnection(u) \/ putCQI(u)
                \/ addDownload(u) \/ SetRunning(u) \/ removeConnection(u)
         PROVE  PlacedByPrio'
    <2>1. UNCHANGED <<files, lists>>
      BY <1>15, Zenon DEF UserConnected, UserDisconnected, putUpload, getDownloadConnection,
         addConnection, putCQI, addDownload, SetRunning, removeConnection
    <2>. QED BY <1>11, <2>1
  <1>16. CASE UNCHANGED vars
    BY <1>11, <1>16 DEF vars
  <1>. QED
    BY <1>4, <1>5, <1>6, <1>7, <1>8, <1>9, <1>10, <1>12, <1>13, <1>14, <1>15, <1>16,
       <1>17, Zenon
    DEF Next, QueueStep, UserStep, ConnStep

LEMMA PlacedHighest ==
  ASSUME TypeOK, PlacedByPrio
  PROVE  HighestPriority
  <1>. SUFFICES ASSUME NEW u \in Users, NEW i \in Items, NEW p \in LOWEST..Highest,
                       Listed(i, p, u), Offers(i, u, {})
                PROVE  prio[i] <= hasDownload(u, {})
    BY DEF HighestPriority
  <1>1. p \in Priorities /\ p \in Int /\ 1..Highest \subseteq Priorities
    BY BoundsAssumption DEF LOWEST, Priorities
  <1>2. PICK k \in 1..Len(list[p][u]) : list[p][u][k] = i
    BY DEF Listed
  <1>3. <<p, k>> \in Places(u, {})
    <2>1. DOMAIN list[p][u] = 1..Len(list[p][u])
      BY <1>1 DEF TypeOK
    <2>. QED BY <1>2, <2>1 DEF Places
  <1>4. PICK c \in Places(u, {}) :
          Best(u, {}, c) /\ getNextL(u, LOWEST, {}) = list[c[1]][u][c[2]]
    BY <1>3, NextIsBest
  <1>5. /\ c[1] \in 1..Highest /\ c[2] \in 1..Len(list[c[1]][u])
        /\ list[c[1]][u][c[2]] \in Items
    BY <1>4, NextIsBest
  <1>. DEFINE q == list[c[1]][u][c[2]]
  <1>6. Listed(q, c[1], u)
    BY <1>5 DEF Listed
  <1>7. prio[q] = c[1] /\ prio[i] = p
    BY <1>1, <1>5, <1>6 DEF PlacedByPrio
  <1>8. p <= c[1]
    BY <1>1, <1>3, <1>4, <1>5 DEF Best
  <1>9. q # NoItem
    BY <1>5, NoItemAssumption
  <1>10. hasDownload(u, {}) = prio[q]
    BY <1>4, <1>9, Zenon DEF hasDownload
  <1>. QED BY <1>7, <1>8, <1>10

(* What hasDownload answers is the highest priority of what the user has,  *)
(* as QueueManager.h:228 says, until somebody changes a priority: for any  *)
(* number of items, users and priorities, nothing else puts an item in a   *)
(* list that is not that of its priority.                                  *)
THEOREM HighestCorrect == Spec => []HighestUntilChanged
  <1>. DEFINE Placed == changes = 0 => PlacedByPrio
  <1>1. Init => Placed
    BY DEF Init, PlacedByPrio, Listed
  <1>2. TypeOK /\ IInv /\ Placed /\ [Next]_vars => Placed'
    BY PlacedStep DEF IInv
  <1>3. TypeOK /\ Placed => HighestUntilChanged
    BY PlacedHighest DEF HighestUntilChanged
  <1>. QED BY <1>1, <1>2, <1>3, TypeCorrect, InvCorrect, PTL DEF Spec
=============================================================================
