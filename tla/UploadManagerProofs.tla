------------------------ MODULE UploadManagerProofs ------------------------
(***************************************************************************)
(* What is proved of UploadManager, for any number of users, connections   *)
(* and slots.                                                              *)
(*                                                                         *)
(* 1. The list of uploads holds live connections, but for those a failed   *)
(*    ZFilter left there; no user's uploads are counted more often than    *)
(*    they are there; and the counters of used slots are off by no more    *)
(*    than the updates that two threads lost.                              *)
(*    Three facts make these inductive (IInv).  A connection whose last    *)
(*    upload is listed has its getUpload set (UsedCovers), so that         *)
(*    on(Failed) finds it; process_slot is called only where the type      *)
(*    changes (SlotChanges), so that it never counts a slot out that it    *)
(*    counts in again; and a connection that is asked for a file while an  *)
(*    upload of it is listed had that one fail to start and did not        *)
(*    replace it yet (FailedLast).                                         *)
(*                                                                         *)
(* 2. The waiting queue: nobody is in it twice, and nobody loses his place *)
(*    without being told, served, offline or late.  What is left of the    *)
(*    queue when some are taken out of it (WithoutKeeps) is shown for the  *)
(*    beginnings of the queue one after the other, with the shortest one   *)
(*    that were wrong.                                                     *)
(*                                                                         *)
(* 3. The amounts of g_uploadsPerUser for users with one connection each,  *)
(*    until a ZFilter fails for it: a user is counted exactly when his     *)
(*    upload is listed (OneEach), so the second removal by on(Failed) does *)
(*    no harm.                                                             *)
(*                                                                         *)
(* 4. The line.  Every step of the waiting queue is one of WaitingLine or  *)
(*    leaves its variables alone (LineImplemented): taking users out keeps *)
(*    the others in their order (WithoutKeeps), and the beginning of the   *)
(*    queue that notifyQueuedUsers cuts off is one that WaitingLine may    *)
(*    call.  And no more users are told of a slot than there are slots     *)
(*    (LimitCorrect): as many are told as are free, less those who were    *)
(*    told before.                                                         *)
(***************************************************************************)
EXTENDS UploadManager, FiniteSetTheorems, WellFoundedInduction, TLAPS

ConnTypes ==
  /\ phase \in [Conns -> Phases]
  /\ slotType \in [Conns -> SlotTypes] /\ wanted \in [Conns -> SlotTypes]
  /\ uploads \subseteq Conns /\ stale \subseteq Conns \X Nat /\ IsFiniteSet(stale)
  /\ errors \in [Conns -> Nat]
  /\ perUser \in [Users -> Nat]
  /\ count \in [Kinds -> Int]
  /\ lost \in Nat

UsedCovers == uploads \subseteq used

SlotChanges == \A c \in Conns : phase[c] \in Counting => slotType[c] # wanted[c]

FailedLast ==
  \A c \in uploads : phase[c] \in {"get"} \cup Preparing =>
    errors[c] # 0 /\ <<c, errors[c]>> \notin stale

IInv ==
  /\ ConnTypes /\ UsedCovers /\ SlotChanges /\ FailedLast
  /\ UploadsAlive /\ NeverOvercounted /\ SlotsCounted

-----------------------------------------------------------------------------
(* Counting.                                                               *)

LEMMA FiniteConns ==
  ASSUME NEW S \in SUBSET Conns
  PROVE  IsFiniteSet(S) /\ Cardinality(S) \in Nat
  BY ConnsAssumption, FS_Subset, FS_CardinalityType

Having(s, t) == {c \in Conns : s[c] = t}

(* One connection changes its slot type.                                   *)
LEMMA HavingMoves ==
  ASSUME NEW s \in [Conns -> SlotTypes], NEW c \in Conns, NEW w \in SlotTypes, s[c] # w,
         NEW t \in Kinds
  PROVE  LET n == Cardinality(Having(s, t))
             m == Cardinality(Having([s EXCEPT ![c] = w], t))
         IN /\ n \in Nat /\ m \in Nat
            /\ t = s[c] => m = n - 1
            /\ t = w => m = n + 1
            /\ t # s[c] /\ t # w => m = n
  <1>. DEFINE A == Having(s, t)
              B == Having([s EXCEPT ![c] = w], t)
  <1>1. IsFiniteSet(A) /\ Cardinality(A) \in Nat /\ IsFiniteSet(B) /\ Cardinality(B) \in Nat
    BY FiniteConns DEF Having
  <1>2. CASE t = s[c]
    <2>1. B = A \ {c} /\ c \in A
      BY <1>2 DEF Having
    <2>2. Cardinality(B) = Cardinality(A) - 1
      BY <1>1, <2>1, FS_RemoveElement
    <2>. QED BY <1>1, <1>2, <2>2
  <1>3. CASE t = w
    <2>1. B = A \cup {c} /\ c \notin A
      BY <1>3 DEF Having
    <2>2. Cardinality(B) = Cardinality(A) + 1
      BY <1>1, <2>1, FS_AddElement
    <2>. QED BY <1>1, <1>3, <2>2
  <1>4. CASE t # s[c] /\ t # w
    <2>1. B = A
      BY <1>4 DEF Having
    <2>. QED BY <1>1, <1>4, <2>1
  <1>. QED BY <1>2, <1>3, <1>4

LEMMA FiniteUploads ==
  ASSUME ConnTypes, NEW u
  PROVE  /\ IsFiniteSet(UploadsOf(u)) /\ Cardinality(UploadsOf(u)) \in Nat
         /\ IsFiniteSet(StaleOf(u)) /\ Cardinality(StaleOf(u)) \in Nat
  <1>1. StaleOf(u) \subseteq stale /\ UploadsOf(u) \in SUBSET Conns
    BY DEF StaleOf, UploadsOf, ConnTypes
  <1>2. IsFiniteSet(StaleOf(u))
    BY <1>1, FS_Subset DEF ConnTypes
  <1>. QED BY <1>1, <1>2, FiniteConns, FS_CardinalityType

LEMMA UploadAdded ==
  ASSUME IInv, NEW c \in Conns, ListUpload(c)
  PROVE  NeverOvercounted' /\ perUser' \in [Users -> Nat]
  <1>. USE DEF IInv, ConnTypes
  <1>0. perUser' = [perUser EXCEPT ![UserOf[c]] = perUser[UserOf[c]] + 1]
        /\ UserOf[c] \in Users /\ perUser' \in [Users -> Nat]
    BY UserOfAssumption DEF ListUpload
  <1>1. ASSUME NEW u \in Users
        PROVE  perUser'[u] <= Cardinality(UploadsOf(u)') + Cardinality(StaleOf(u)')
    <2>1. /\ IsFiniteSet(UploadsOf(u)) /\ Cardinality(UploadsOf(u)) \in Nat
          /\ IsFiniteSet(StaleOf(u)) /\ Cardinality(StaleOf(u)) \in Nat
      BY FiniteUploads
    <2>2. /\ perUser[u] <= Cardinality(UploadsOf(u)) + Cardinality(StaleOf(u))
          /\ perUser[u] \in Nat
      BY DEF NeverOvercounted
    <2>3. CASE u = UserOf[c] /\ c \notin uploads
      <3>1. /\ UploadsOf(u)' = UploadsOf(u) \cup {c} /\ c \notin UploadsOf(u)
            /\ StaleOf(u)' = StaleOf(u)
        BY <2>3 DEF ListUpload, UploadsOf, StaleOf
      <3>2. Cardinality(UploadsOf(u)') = Cardinality(UploadsOf(u)) + 1
        BY <2>1, <3>1, FS_AddElement
      <3>3. perUser'[u] = perUser[u] + 1
        BY <1>0, <2>3
      <3>. QED BY <2>1, <2>2, <3>1, <3>2, <3>3
    <2>4. CASE u = UserOf[c] /\ c \in uploads
      <3>1. <<c, errors[c]>> \notin stale
        BY <2>4 DEF ListUpload, FailedLast, Preparing
      <3>2. /\ StaleOf(u)' = StaleOf(u) \cup {<<c, errors[c]>>}
            /\ UploadsOf(u)' = UploadsOf(u)
        BY <2>4 DEF ListUpload, UploadsOf, StaleOf
      <3>3. <<c, errors[c]>> \notin StaleOf(u)
        BY <3>1 DEF StaleOf
      <3>4. Cardinality(StaleOf(u)') = Cardinality(StaleOf(u)) + 1
        BY <2>1, <3>2, <3>3, FS_AddElement
      <3>5. perUser'[u] = perUser[u] + 1
        BY <1>0, <2>4
      <3>. QED BY <2>1, <2>2, <3>2, <3>4, <3>5
    <2>5. CASE u # UserOf[c]
      <3>1. UploadsOf(u)' = UploadsOf(u) /\ StaleOf(u)' = StaleOf(u)
        BY <2>5 DEF ListUpload, UploadsOf, StaleOf
      <3>2. perUser'[u] = perUser[u]
        BY <1>0, <2>5
      <3>. QED BY <2>2, <3>1, <3>2
    <2>. QED BY <2>3, <2>4, <2>5
  <1>. QED BY <1>0, <1>1 DEF NeverOvercounted

LEMMA UploadRemoved ==
  ASSUME ConnTypes, NeverOvercounted, NEW c \in Conns, removeUpload(c)
  PROVE  NeverOvercounted' /\ perUser' \in [Users -> Nat]
  <1>. USE DEF ConnTypes
  <1>0. /\ perUser' = [perUser EXCEPT ![UserOf[c]] =
                      IF perUser[UserOf[c]] > 0 THEN perUser[UserOf[c]] - 1 ELSE 0]
        /\ uploads' = uploads \ {c} /\ stale' = stale /\ UserOf[c] \in Users
    BY UserOfAssumption DEF removeUpload
  <1>1. perUser' \in [Users -> Nat]
    BY <1>0
  <1>2. ASSUME NEW u \in Users
        PROVE  perUser'[u] <= Cardinality(UploadsOf(u)') + Cardinality(StaleOf(u)')
    <2>1. /\ IsFiniteSet(UploadsOf(u)) /\ Cardinality(UploadsOf(u)) \in Nat
          /\ Cardinality(StaleOf(u)) \in Nat /\ StaleOf(u)' = StaleOf(u)
      BY <1>0, FiniteUploads DEF StaleOf
    <2>2. /\ perUser[u] <= Cardinality(UploadsOf(u)) + Cardinality(StaleOf(u))
          /\ perUser[u] \in Nat
      BY DEF NeverOvercounted
    <2>3. CASE u = UserOf[c] /\ c \in uploads
      <3>1. UploadsOf(u)' = UploadsOf(u) \ {c} /\ c \in UploadsOf(u)
        BY <1>0, <2>3 DEF UploadsOf
      <3>2. Cardinality(UploadsOf(u)') = Cardinality(UploadsOf(u)) - 1
            /\ Cardinality(UploadsOf(u)') \in Nat
        BY <2>1, <3>1, FS_RemoveElement, FS_CardinalityType
      <3>3. perUser'[u] = IF perUser[u] > 0 THEN perUser[u] - 1 ELSE 0
        BY <1>0, <2>3
      <3>. QED BY <2>1, <2>2, <3>2, <3>3
    <2>4. CASE ~(u = UserOf[c] /\ c \in uploads)
      <3>1. UploadsOf(u)' = UploadsOf(u)
        BY <1>0, <2>4 DEF UploadsOf
      <3>2. perUser'[u] <= perUser[u] /\ perUser'[u] \in Nat
        BY <1>0, <2>2
      <3>. QED BY <2>1, <2>2, <3>1, <3>2
    <2>. QED BY <2>3, <2>4
  <1>. QED BY <1>1, <1>2 DEF NeverOvercounted

LEMMA UploadsSame ==
  ASSUME NeverOvercounted, UNCHANGED <<uploads, stale, perUser>>
  PROVE  NeverOvercounted'
  BY DEF NeverOvercounted, UploadsOf, StaleOf

LEMMA SlotsSame ==
  ASSUME SlotsCounted, UNCHANGED <<slotType, counters>>
  PROVE  SlotsCounted'
  BY DEF SlotsCounted, Holders, counters

-----------------------------------------------------------------------------
(* Slots change hands.                                                     *)

(* The change of one type by one connection is what Change says.           *)
LEMMA ChangeCounts ==
  ASSUME NEW c \in Conns, slotType[c] # wanted[c], wanted[c] \in SlotTypes,
         NEW s \in [Conns -> SlotTypes], s[c] = slotType[c], NEW t \in Kinds
  PROVE  /\ Change(c, t) \in {-1, 0, 1}
         /\ Cardinality(Having(s, t)) \in Nat
         /\ Cardinality(Having([s EXCEPT ![c] = wanted[c]], t))
              = Cardinality(Having(s, t)) + Change(c, t)
  <1>. DEFINE n == Cardinality(Having(s, t))
              m == Cardinality(Having([s EXCEPT ![c] = wanted[c]], t))
  <1>1. /\ n \in Nat /\ m \in Nat
        /\ t = slotType[c] => m = n - 1
        /\ t = wanted[c] => m = n + 1
        /\ t # slotType[c] /\ t # wanted[c] => m = n
    <2>1. \A w \in SlotTypes : s[c] # w =>
            LET k == Cardinality(Having([s EXCEPT ![c] = w], t))
            IN /\ n \in Nat /\ k \in Nat
               /\ t = s[c] => k = n - 1
               /\ t = w => k = n + 1
               /\ t # s[c] /\ t # w => k = n
      BY HavingMoves, Zenon
    <2>2. s[c] = slotType[c] /\ wanted[c] \in SlotTypes /\ s[c] # wanted[c]
      OBVIOUS
    <2>3. /\ n \in Nat /\ m \in Nat
          /\ t = s[c] => m = n - 1
          /\ t = wanted[c] => m = n + 1
          /\ t # s[c] /\ t # wanted[c] => m = n
      BY <2>1, <2>2, Zenon
    <2>. HIDE DEF n, m
    <2>. QED BY <2>2, <2>3, Zenon
  <1>. HIDE DEF n, m
  <1>2. /\ t = slotType[c] => Change(c, t) = -1
        /\ t = wanted[c] => Change(c, t) = 1
        /\ t # slotType[c] /\ t # wanted[c] => Change(c, t) = 0
    BY DEF Change
  <1>3. Change(c, t) \in {-1, 0, 1} /\ n \in Nat /\ m = n + Change(c, t)
    BY <1>1, <1>2
  <1>. QED BY <1>3 DEF n, m

LEMMA CountOne ==
  ASSUME IInv, NEW c \in Conns, CountSlot(c)
  PROVE  SlotsCounted' /\ count' \in [Kinds -> Int]
  <1>. USE DEF IInv, ConnTypes
  <1>1. slotType[c] # wanted[c] /\ wanted[c] \in SlotTypes
    BY DEF CountSlot, SlotChanges
  <1>2. slotType' = [slotType EXCEPT ![c] = wanted[c]] /\ lost' = lost
    <2>1. slotType' = [x \in Conns |-> IF x \in {c} THEN wanted[x] ELSE slotType[x]]
          /\ lost' = lost
      BY Zenon DEF CountSlot, SetSlotType
    <2>2. slotType \in [Conns -> SlotTypes]
      OBVIOUS
    <2>3. [x \in Conns |-> IF x \in {c} THEN wanted[x] ELSE slotType[x]]
            = [slotType EXCEPT ![c] = wanted[c]]
      BY <2>2
    <2>. QED BY <2>1, <2>3, Zenon
  <1>3. ASSUME NEW t \in Kinds
        PROVE  /\ count'[t] = count[t] + Change(c, t) /\ Change(c, t) \in {-1, 0, 1}
               /\ Cardinality(Holders(t)) \in Nat
               /\ Cardinality(Holders(t)') = Cardinality(Holders(t)) + Change(c, t)
    <2>1. Holders(t) = Having(slotType, t) /\ Holders(t)' = Having([slotType EXCEPT ![c] = wanted[c]], t)
      BY <1>2 DEF Holders, Having
    <2>2. count'[t] = count[t] + Change(c, t)
      BY DEF CountSlot
    <2>. QED BY <1>1, <2>1, <2>2, ChangeCounts
  <1>4. SlotsCounted'
    <2>. SUFFICES ASSUME NEW t \in Kinds
                  PROVE  /\ count'[t] <= Cardinality(Holders(t)') + lost'
                         /\ count'[t] >= Cardinality(Holders(t)') - lost'
      BY DEF SlotsCounted
    <2>1. /\ count[t] <= Cardinality(Holders(t)) + lost
          /\ count[t] >= Cardinality(Holders(t)) - lost
      BY DEF SlotsCounted
    <2>2. count[t] \in Int
      OBVIOUS
    <2>. QED BY <1>2, <1>3, <2>1, <2>2
  <1>5. count' \in [Kinds -> Int]
    <2>1. count' = [t \in Kinds |-> count[t] + Change(c, t)]
      BY DEF CountSlot
    <2>. QED BY <1>3, <2>1
  <1>. QED BY <1>4, <1>5

LEMMA CountTwo ==
  ASSUME IInv, NEW c \in Conns, NEW d \in Conns, CountTogether(c, d)
  PROVE  SlotsCounted' /\ count' \in [Kinds -> Int]
  <1>. USE DEF IInv, ConnTypes
  <1>1. /\ slotType[c] # wanted[c] /\ wanted[c] \in SlotTypes
        /\ slotType[d] # wanted[d] /\ wanted[d] \in SlotTypes /\ c # d
    BY DEF CountTogether, SlotChanges
  <1>. DEFINE s == [slotType EXCEPT ![c] = wanted[c]]
  <1>2. /\ slotType' = [s EXCEPT ![d] = wanted[d]] /\ lost' = lost + 1
        /\ s \in [Conns -> SlotTypes] /\ s[d] = slotType[d]
    BY <1>1 DEF CountTogether, SetSlotType
  <1>. HIDE DEF s
  <1>3. ASSUME NEW t \in Kinds
        PROVE  /\ Change(c, t) \in {-1, 0, 1} /\ Change(d, t) \in {-1, 0, 1}
               /\ Cardinality(Holders(t)) \in Nat
               /\ Cardinality(Holders(t)')
                    = Cardinality(Holders(t)) + Change(c, t) + Change(d, t)
    <2>1. Holders(t) = Having(slotType, t)
          /\ Holders(t)' = Having([s EXCEPT ![d] = wanted[d]], t)
      BY <1>2 DEF Holders, Having
    <2>2. /\ Change(c, t) \in {-1, 0, 1} /\ Cardinality(Having(slotType, t)) \in Nat
          /\ Cardinality(Having(s, t)) = Cardinality(Having(slotType, t)) + Change(c, t)
      BY <1>1, ChangeCounts DEF s
    <2>3. /\ Change(d, t) \in {-1, 0, 1} /\ Cardinality(Having(s, t)) \in Nat
          /\ Cardinality(Having([s EXCEPT ![d] = wanted[d]], t))
               = Cardinality(Having(s, t)) + Change(d, t)
      BY <1>1, <1>2, ChangeCounts
    <2>. QED BY <2>1, <2>2, <2>3
  <1>4. count' = [t \in Kinds |->
                    count[t] + IF Change(c, t) # 0 THEN Change(c, t) ELSE Change(d, t)]
    BY DEF CountTogether
  <1>5. SlotsCounted'
    <2>. SUFFICES ASSUME NEW t \in Kinds
                  PROVE  /\ count'[t] <= Cardinality(Holders(t)') + lost'
                         /\ count'[t] >= Cardinality(Holders(t)') - lost'
      BY DEF SlotsCounted
    <2>1. /\ count[t] <= Cardinality(Holders(t)) + lost
          /\ count[t] >= Cardinality(Holders(t)) - lost
      BY DEF SlotsCounted
    <2>2. count[t] \in Int /\ lost \in Nat
      OBVIOUS
    <2>3. count'[t] = count[t] + IF Change(c, t) # 0 THEN Change(c, t) ELSE Change(d, t)
      BY <1>4
    <2>4. CASE Change(c, t) = 0
      BY <1>2, <1>3, <2>1, <2>2, <2>3, <2>4
    <2>5. CASE Change(c, t) # 0
      BY <1>2, <1>3, <2>1, <2>2, <2>3, <2>5
    <2>. QED BY <2>4, <2>5
  <1>6. count' \in [Kinds -> Int]
    BY <1>3, <1>4
  <1>. QED BY <1>5, <1>6

-----------------------------------------------------------------------------
(* The steps of a connection that keep uploads, slots and counters.        *)
LEMMA QuietStep ==
  ASSUME IInv, UNCHANGED <<slotType, used, lists, counters>>,
         phase' \in [Conns -> Phases], wanted' \in [Conns -> SlotTypes],
         \A c \in Conns :
           \/ phase'[c] = phase[c] /\ wanted'[c] = wanted[c]
           \/ phase[c] \in {"answer", "send"} /\ phase'[c] \in {"send", "running"}
           \/ phase[c] = "none" /\ phase'[c] = "get"
           \/ phase[c] \in {"get"} \cup Preparing /\ phase'[c] \in {"get"} \cup Preparing
  PROVE  IInv'
  <1>. USE DEF IInv
  <1>1. ConnTypes' /\ UsedCovers'
    BY DEF ConnTypes, UsedCovers, lists, counters
  <1>2. SlotChanges'
    BY DEF SlotChanges, Counting, Preparing
  <1>3. UploadsAlive' /\ FailedLast'
    BY DEF UploadsAlive, FailedLast, lists, Preparing, ConnTypes
  <1>4. NeverOvercounted' /\ SlotsCounted'
    BY UploadsSame, SlotsSame DEF counters, lists
  <1>. QED BY <1>1, <1>2, <1>3, <1>4

LEMMA AnswerStep ==
  ASSUME IInv, NEW c \in Conns,
         (\E next \in {"send", "running"} : Answer(c, next)) \/ FilterFails(c)
  PROVE  IInv'
  <1>. USE DEF IInv, ConnTypes, Enter
  <1>1. ASSUME NEW next \in {"send", "running"}, Answer(c, next) PROVE IInv'
    BY <1>1, QuietStep DEF Answer, Phases
  <1>2. CASE FilterFails(c)
    <2>1. /\ phase[c] = "answer" /\ phase' = [phase EXCEPT ![c] = "get"]
          /\ errors' = [errors EXCEPT ![c] = errors[c] + 1]
          /\ UNCHANGED <<slotType, wanted, used, uploads, stale, perUser, count, lost>>
      BY <1>2 DEF FilterFails, counters
    <2>2. ConnTypes' /\ UsedCovers' /\ SlotChanges'
      BY <2>1 DEF UsedCovers, SlotChanges, Phases, Preparing, Counting
    <2>3. errors[c] \in Nat /\ errors'[c] = errors[c] + 1
          /\ \A d \in Conns \ {c} : errors'[d] = errors[d]
      BY <2>1
    <2>4. ASSUME NEW p \in stale PROVE p[2] \in 1..errors'[p[1]] /\ p # <<c, errors'[c]>>
      <3>1. p[2] \in 1..errors[p[1]] /\ p[1] \in Conns /\ p = <<p[1], p[2]>>
        BY DEF UploadsAlive
      <3>2. CASE p[1] = c
        BY <2>3, <3>1, <3>2
      <3>3. CASE p[1] # c
        BY <2>3, <3>1, <3>3
      <3>. QED BY <3>2, <3>3
    <2>5. UploadsAlive'
      <3>1. \A d \in Conns :
              /\ d \in uploads' => phase'[d] \notin {"none", "uncount"}
              /\ phase'[d] \in {"count", "answer", "send", "running"} => d \in uploads'
        BY <2>1 DEF UploadsAlive
      <3>2. \A p \in stale' : p[2] \in 1..errors'[p[1]]
        BY <2>1, <2>4
      <3>. QED BY <3>1, <3>2 DEF UploadsAlive
    <2>6. FailedLast'
      <3>. SUFFICES ASSUME NEW d \in uploads, phase'[d] \in {"get"} \cup Preparing
                    PROVE  errors'[d] # 0 /\ <<d, errors'[d]>> \notin stale
        BY <2>1 DEF FailedLast
      <3>1. CASE d = c
        BY <2>3, <2>4, <3>1
      <3>2. CASE d # c
        BY <2>1, <2>3, <3>2 DEF FailedLast
      <3>. QED BY <3>1, <3>2
    <2>7. NeverOvercounted' /\ SlotsCounted'
      BY <2>1, UploadsSame, SlotsSame DEF counters
    <2>. QED BY <2>2, <2>5, <2>6, <2>7
  <1>. QED BY <1>1, <1>2

LEMMA ListStep ==
  ASSUME IInv, NEW c \in Conns, ListUpload(c)
  PROVE  IInv'
  <1>. USE DEF IInv, ConnTypes
  <1>1. NeverOvercounted' /\ perUser' \in [Users -> Nat]
    BY UploadAdded
  <1>2. SlotsCounted'
    BY SlotsSame DEF ListUpload
  <1>3. /\ uploads' = uploads \cup {c} /\ used' = used \cup {c}
        /\ UNCHANGED <<slotType, errors, count, lost>>
        /\ stale' = IF c \in uploads THEN stale \cup {<<c, errors[c]>>} ELSE stale
    BY DEF ListUpload, counters
  <1>4. \/ phase' = [phase EXCEPT ![c] = "count"] /\ slotType[c] # wanted[c] /\ wanted' = wanted
        \/ phase' = [phase EXCEPT ![c] = "answer"] /\ wanted' = [wanted EXCEPT ![c] = "NOSLOT"]
    BY DEF ListUpload, Enter
  <1>5. stale' \subseteq Conns \X Nat /\ IsFiniteSet(stale')
    <2>1. IsFiniteSet(stale \cup {<<c, errors[c]>>})
      BY FS_AddElement
    <2>. QED BY <1>3, <2>1
  <1>6. ConnTypes' /\ UsedCovers' /\ SlotChanges'
    BY <1>1, <1>3, <1>4, <1>5
    DEF UsedCovers, SlotChanges, SlotTypes, Phases, Preparing, Counting
  <1>7. ASSUME NEW p \in stale' PROVE p[2] \in 1..errors[p[1]] /\ (p \in stale \/ p[1] = c)
    <2>1. CASE p \in stale
      BY <2>1 DEF UploadsAlive
    <2>2. CASE p \notin stale
      <3>1. c \in uploads /\ p = <<c, errors[c]>>
        BY <1>3, <2>2
      <3>2. errors[c] # 0 /\ errors[c] \in Nat
        BY <3>1 DEF ListUpload, FailedLast, Preparing
      <3>. QED BY <3>1, <3>2
    <2>. QED BY <2>1, <2>2
  <1>8. UploadsAlive'
    <2>1. \A d \in Conns :
            /\ d \in uploads' => phase'[d] \notin {"none", "uncount"}
            /\ phase'[d] \in {"count", "answer", "send", "running"} => d \in uploads'
      BY <1>3, <1>4 DEF UploadsAlive
    <2>2. \A p \in stale' : p[2] \in 1..errors'[p[1]]
      BY <1>3, <1>7
    <2>. QED BY <2>1, <2>2 DEF UploadsAlive
  <1>9. FailedLast'
    <2>. SUFFICES ASSUME NEW d \in uploads', phase'[d] \in {"get"} \cup Preparing
                  PROVE  errors'[d] # 0 /\ <<d, errors'[d]>> \notin stale'
      BY DEF FailedLast
    <2>1. d # c /\ d \in uploads /\ phase'[d] = phase[d]
      BY <1>3, <1>4 DEF Preparing
    <2>2. errors[d] # 0 /\ <<d, errors[d]>> \notin stale
      BY <2>1 DEF FailedLast
    <2>. QED BY <1>3, <1>7, <2>1, <2>2
  <1>. QED BY <1>1, <1>2, <1>6, <1>8, <1>9

LEMMA RemoveStep ==
  ASSUME IInv, NEW c \in Conns, TransmitDone(c) \/ Failed(c)
  PROVE  IInv'
  <1>. USE DEF IInv, ConnTypes
  <1>1. /\ uploads' = uploads \ {c} /\ UNCHANGED <<slotType, stale, errors, count, lost>>
        /\ used' = used \/ used' = used \ {c}
    BY DEF TransmitDone, Failed, removeUpload, lists, counters, UsedCovers
  <1>2. \/ phase' = [phase EXCEPT ![c] = "get"] /\ wanted' = wanted
        \/ phase' = [phase EXCEPT ![c] = "none"] /\ wanted' = [wanted EXCEPT ![c] = "NOSLOT"]
        \/ /\ phase' = [phase EXCEPT ![c] = "uncount"] /\ slotType[c] # "NOSLOT"
           /\ wanted' = [wanted EXCEPT ![c] = "NOSLOT"]
    BY DEF TransmitDone, Failed, Enter
  <1>3. NeverOvercounted' /\ perUser' \in [Users -> Nat]
    <2>1. removeUpload(c) \/ UNCHANGED lists
      BY DEF TransmitDone, Failed
    <2>. QED BY <2>1, UploadRemoved, UploadsSame DEF lists
  <1>4. SlotsCounted'
    BY <1>1, SlotsSame DEF counters
  <1>5. ConnTypes' /\ UsedCovers' /\ SlotChanges'
    BY <1>1, <1>2, <1>3 DEF UsedCovers, SlotChanges, SlotTypes, Phases, Preparing, Counting
  <1>6. UploadsAlive' /\ FailedLast'
    BY <1>1, <1>2 DEF UploadsAlive, FailedLast
  <1>. QED BY <1>3, <1>4, <1>5, <1>6

LEMMA CountStep ==
  ASSUME IInv, NEW c \in Conns, CountSlot(c) \/ \E d \in Conns : CountTogether(c, d)
  PROVE  IInv'
  <1>. USE DEF IInv, ConnTypes, Phases, Preparing, Counting
  <1>1. SlotsCounted' /\ count' \in [Kinds -> Int]
    BY CountOne, CountTwo
  <1>2. PICK cs \in SUBSET Conns : SetSlotType(cs) /\ \A d \in cs : phase[d] \in Counting
    <2>. DEFINE Some == \E cs \in SUBSET Conns :
                  SetSlotType(cs) /\ \A d \in cs : phase[d] \in Counting
    <2>1. CASE CountSlot(c)
      <3>1. SetSlotType({c}) /\ {c} \in SUBSET Conns /\ \A d \in {c} : phase[d] \in Counting
        BY <2>1 DEF CountSlot
      <3>. QED BY <3>1, Zenon
    <2>2. ASSUME NEW d \in Conns, CountTogether(c, d) PROVE Some
      <3>1. /\ SetSlotType({c, d}) /\ {c, d} \in SUBSET Conns
            /\ \A e \in {c, d} : phase[e] \in Counting
        BY <2>2 DEF CountTogether
      <3>. QED BY <3>1, Zenon
    <2>. HIDE DEF Some
    <2>3. Some
      BY <2>1, <2>2 DEF Some
    <2>. QED BY <2>3 DEF Some
  <1>3. lost' \in Nat
    <2>1. lost' = lost \/ lost' = lost + 1
      BY Zenon DEF CountSlot, CountTogether
    <2>. QED BY <2>1
  <1>4. /\ UNCHANGED <<used, uploads, stale, errors, perUser>>
        /\ slotType' = [d \in Conns |-> IF d \in cs THEN wanted[d] ELSE slotType[d]]
        /\ wanted' = [d \in Conns |-> IF d \in cs THEN "NOSLOT" ELSE wanted[d]]
        /\ phase' = [d \in Conns |-> IF d \notin cs THEN phase[d]
                                     ELSE IF phase[d] = "count" THEN "answer" ELSE "none"]
    BY <1>2 DEF SetSlotType, lists
  <1>5. ConnTypes' /\ UsedCovers'
    BY <1>1, <1>3, <1>4 DEF UsedCovers, SlotTypes
  <1>6. SlotChanges'
    BY <1>2, <1>4 DEF SlotChanges
  <1>7. UploadsAlive' /\ FailedLast'
    BY <1>2, <1>4 DEF UploadsAlive, FailedLast
  <1>8. NeverOvercounted'
    BY <1>4, UploadsSame
  <1>. QED BY <1>1, <1>5, <1>6, <1>7, <1>8

LEMMA ConnStepKeeps ==
  ASSUME IInv, NEW c \in Conns, ConnStep(c)
  PROVE  IInv'
  <1>. USE DEF IInv, ConnTypes, Enter, Phases, Preparing
  <1>1. CASE addConnection(c) \/ SeeFreeSlots(c) \/ SeeQueue(c) \/ LeaveQueue(c) \/ Send(c)
    <2>1. /\ UNCHANGED <<slotType, wanted, used, lists, counters>>
          /\ \E p \in Phases : phase' = [phase EXCEPT ![c] = p]
                 /\ \/ phase[c] = "send" /\ p = "running"
                    \/ phase[c] = "none" /\ p = "get"
                    \/ phase[c] \in Preparing /\ p \in Preparing
      BY <1>1 DEF addConnection, SeeFreeSlots, SeeQueue, LeaveQueue, Send
    <2>. QED BY <2>1, QuietStep
  <1>2. CASE Ban(c)
    BY <1>2, QuietStep DEF Ban, conns
  <1>3. ASSUME UNCHANGED <<slotType, used, lists, counters>>, phase[c] \in {"get"} \cup Preparing,
               \E q \in {"get"} \cup Preparing : phase' = [phase EXCEPT ![c] = q],
               \E w \in SlotTypes : wanted' = [wanted EXCEPT ![c] = w]
        PROVE  IInv'
    BY <1>3, QuietStep
  <1>4. ASSUME NEW h \in BOOLEAN, NEW f \in BOOLEAN, prepareFile(c, h, f) PROVE IInv'
    BY <1>3, <1>4 DEF prepareFile, SlotTypes, Kinds
  <1>5. ASSUME NEW a \in BOOLEAN, SeeAutoSlot(c, a) PROVE IInv'
    BY <1>3, <1>5 DEF SeeAutoSlot
  <1>6. ASSUME NEW m \in BOOLEAN, Decide(c, m) PROVE IInv'
    BY <1>3, <1>6 DEF Decide, Grant, SlotTypes, Kinds
  <1>7. ASSUME NEW m \in BOOLEAN, NEW o \in BOOLEAN, NEW p \in BOOLEAN, DecideExtra(c, m, o, p)
        PROVE  IInv'
    BY <1>3, <1>7 DEF DecideExtra, Grant, SlotTypes, Kinds
  <1>8. CASE Refuse(c)
    BY <1>3, <1>8 DEF Refuse
  <1>. QED BY <1>1, <1>2, <1>4, <1>5, <1>6, <1>7, <1>8, AnswerStep, ListStep, RemoveStep, CountStep,
              Zenon DEF ConnStep

LEMMA InvStep == IInv /\ [Next]_vars => IInv'
  <1>. SUFFICES ASSUME IInv, [Next]_vars PROVE IInv'
    OBVIOUS
  <1>1. ASSUME UNCHANGED <<conns, lists, counters>> PROVE IInv'
    BY <1>1, QuietStep DEF IInv, ConnTypes, conns
  <1>2. ASSUME NEW u \in Users, UserStep(u) PROVE IInv'
    BY <1>1, <1>2 DEF UserStep, Elapse, UserDisconnected, UserConnected
  <1>3. CASE notifyQueuedUsers
    BY <1>1, <1>3, Zenon DEF notifyQueuedUsers
  <1>4. CASE Minute
    BY <1>1, <1>4, Zenon DEF Minute
  <1>5. CASE UNCHANGED vars
    BY <1>1, <1>5 DEF vars
  <1>. QED BY <1>2, <1>3, <1>4, <1>5, ConnStepKeeps DEF Next

LEMMA InvCorrect == Spec => []IInv
  <1>1. Init => IInv
    <2>. SUFFICES ASSUME Init PROVE IInv
      OBVIOUS
    <2>. USE DEF Init
    <2>1. ConnTypes /\ UsedCovers /\ SlotChanges /\ UploadsAlive /\ FailedLast
      BY FS_EmptySet
      DEF ConnTypes, UsedCovers, SlotChanges, UploadsAlive, FailedLast, Phases, Preparing,
         Counting, SlotTypes, Kinds
    <2>2. NeverOvercounted
      <3>. SUFFICES ASSUME NEW u \in Users
                    PROVE  perUser[u] <= Cardinality(UploadsOf(u)) + Cardinality(StaleOf(u))
        BY DEF NeverOvercounted
      <3>1. UploadsOf(u) = {} /\ StaleOf(u) = {} /\ perUser[u] = 0
        BY DEF UploadsOf, StaleOf
      <3>. QED BY <3>1, FS_EmptySet
    <2>3. SlotsCounted
      <3>. SUFFICES ASSUME NEW t \in Kinds
                    PROVE  /\ count[t] <= Cardinality(Holders(t)) + lost
                           /\ count[t] >= Cardinality(Holders(t)) - lost
        BY DEF SlotsCounted
      <3>1. Holders(t) = {} /\ count[t] = 0
        BY DEF Holders, Kinds
      <3>. QED BY <3>1, FS_EmptySet
    <2>. QED BY <2>1, <2>2, <2>3 DEF IInv
  <1>. QED BY <1>1, InvStep, PTL DEF Spec

-----------------------------------------------------------------------------
(* Who waits.                                                              *)

Occurs(s, v) == \E i \in 1..Len(s) : s[i] = v
Once(s) == \A i, j \in 1..Len(s) : s[i] = s[j] => i = j

QueueTypes ==
  /\ entitled \subseteq Conns /\ used \subseteq Conns
  /\ errors \in [Conns -> 0..MaxErrors]
  /\ lost \in 0..MaxLost
  /\ waiting \in Seq(Users)
  /\ notified \in [Users -> {"no", "yes", "late"}]
  /\ online \subseteq Users

Less == {p \in Nat \X Nat : p[1] < p[2]}

LEMMA LessFounded == IsWellFoundedOn(Less, Nat)
  BY NatLessThanWellFounded, Zenon DEF OpToRel, Less

LEMMA HasLeast ==
  ASSUME NEW I, I \subseteq Nat, I # {}
  PROVE  \E x \in I : \A y \in I : x <= y
  <1>1. PICK x \in I : \A y \in I : ~(<<y, x>> \in Less)
    BY LessFounded, WFMin
  <1>2. ASSUME NEW y \in I PROVE x <= y
    <2>1. x \in Nat /\ y \in Nat
      OBVIOUS
    <2>2. y < x => <<y, x>> \in Less
      BY <2>1 DEF Less
    <2>. QED BY <1>1, <2>1, <2>2
  <1>. QED BY <1>2

LEMMA AppendOccurs ==
  ASSUME NEW S, NEW s \in Seq(S), NEW e \in S
  PROVE  /\ Append(s, e) \in Seq(S)
         /\ \A v : Occurs(Append(s, e), v) <=> Occurs(s, v) \/ v = e
         /\ Once(s) /\ ~Occurs(s, e) => Once(Append(s, e))
  <1>. DEFINE t == Append(s, e)
  <1>1. /\ t \in Seq(S) /\ Len(t) = Len(s) + 1 /\ Len(s) \in Nat /\ t[Len(s) + 1] = e
        /\ \A i \in 1..Len(s) : t[i] = s[i]
    OBVIOUS
  <1>. HIDE DEF t
  <1>2. ASSUME NEW v PROVE Occurs(t, v) <=> Occurs(s, v) \/ v = e
    <2>1. ASSUME Occurs(t, v) PROVE Occurs(s, v) \/ v = e
      <3>1. PICK i \in 1..Len(t) : t[i] = v
        BY <2>1 DEF Occurs
      <3>2. i \in 1..Len(s) \/ i = Len(s) + 1
        BY <1>1
      <3>. QED BY <1>1, <3>1, <3>2 DEF Occurs
    <2>2. ASSUME Occurs(s, v) \/ v = e PROVE Occurs(t, v)
      <3>1. Len(s) + 1 \in 1..Len(t) /\ 1..Len(s) \subseteq 1..Len(t)
        BY <1>1
      <3>. QED BY <1>1, <2>2, <3>1 DEF Occurs
    <2>. QED BY <2>1, <2>2
  <1>3. ASSUME Once(s), ~Occurs(s, e) PROVE Once(t)
    <2>. SUFFICES ASSUME NEW i \in 1..Len(t), NEW j \in 1..Len(t), t[i] = t[j] PROVE i = j
      BY DEF Once
    <2>1. (i \in 1..Len(s) \/ i = Len(s) + 1) /\ (j \in 1..Len(s) \/ j = Len(s) + 1)
      BY <1>1
    <2>. QED BY <1>1, <1>3, <2>1 DEF Once, Occurs
  <1>. QED BY <1>1, <1>2, <1>3 DEF t

(* In s, v comes before w or is w.                                         *)
Prec(s, v, w) == \E i, j \in 1..Len(s) : i <= j /\ s[i] = v /\ s[j] = w

LEMMA AppendPrec ==
  ASSUME NEW S, NEW s \in Seq(S), NEW e \in S
  PROVE  \A v, w : Prec(Append(s, e), v, w) <=> Prec(s, v, w) \/ (w = e /\ (v = e \/ Occurs(s, v)))
  <1>. DEFINE t == Append(s, e)
              L == Len(s)
  <1>1. /\ Len(t) = L + 1 /\ L \in Nat /\ t[L + 1] = e
        /\ \A i \in 1..L : t[i] = s[i]
    OBVIOUS
  <1>. HIDE DEF t, L
  <1>2. L + 1 \in 1..Len(t) /\ \A i \in 1..L : i \in 1..Len(t) /\ i <= L + 1
    BY <1>1
  <1>3. \A i \in 1..Len(t) : i = L + 1 \/ (i \in 1..L /\ ~(L + 1 <= i))
    BY <1>1
  <1>. TAKE v, w
  <1>4. ASSUME Prec(t, v, w) PROVE Prec(s, v, w) \/ (w = e /\ (v = e \/ Occurs(s, v)))
    <2>1. PICK i \in 1..Len(t), j \in 1..Len(t) : i <= j /\ t[i] = v /\ t[j] = w
      BY <1>4, Zenon DEF Prec
    <2>2. CASE j = L + 1
      <3>1. w = e /\ (i = L + 1 \/ i \in 1..L)
        BY <1>1, <1>3, <2>1, <2>2
      <3>2. i = L + 1 => v = e
        BY <1>1, <2>1
      <3>3. i \in 1..L => Occurs(s, v)
        BY <1>1, <2>1 DEF Occurs, L
      <3>. QED BY <3>1, <3>2, <3>3
    <2>3. CASE j \in 1..L
      <3>1. i \in 1..L
        BY <1>1, <2>1, <2>3
      <3>. QED BY <1>1, <2>1, <2>3, <3>1 DEF Prec, L
    <2>. QED BY <1>3, <2>2, <2>3
  <1>5. ASSUME Prec(s, v, w) PROVE Prec(t, v, w)
    BY <1>1, <1>2, <1>5 DEF Prec, L
  <1>6. ASSUME w = e, v = e \/ Occurs(s, v) PROVE Prec(t, v, w)
    <2>1. L + 1 <= L + 1
      BY <1>1
    <2>2. CASE v = e
      BY <1>1, <1>2, <1>6, <2>1, <2>2 DEF Prec
    <2>3. CASE Occurs(s, v)
      <3>1. PICK i \in 1..L : s[i] = v
        BY <2>3 DEF Occurs, L
      <3>. QED BY <1>1, <1>2, <1>6, <3>1 DEF Prec
    <2>. QED BY <1>6, <2>2, <2>3
  <1>. QED BY <1>4, <1>5, <1>6 DEF t

KeptStep(f, n, us) ==
  IF n = 0 THEN <<>>
  ELSE IF waiting[n] \in us THEN f[n - 1] ELSE Append(f[n - 1], waiting[n])

LEMMA KeptExists ==
  ASSUME NEW us, NEW m \in Nat
  PROVE  \E f : f = [n \in 0..m |-> KeptStep(f, n, us)]
  <1>. DEFINE Good(k) == \E f : f = [n \in 0..k |-> KeptStep(f, n, us)]
              Bad == {k \in Nat : ~Good(k)}
  <1>1. Good(0)
    <2>. DEFINE f == [n \in 0..0 |-> <<>>]
    <2>1. f = [n \in 0..0 |-> KeptStep(f, n, us)]
      BY DEF KeptStep
    <2>. QED BY <2>1
  <1>2. ASSUME NEW k \in Nat, Good(k) PROVE Good(k + 1)
    <2>1. PICK f : f = [n \in 0..k |-> KeptStep(f, n, us)]
      BY <1>2
    <2>. DEFINE g == [n \in 0..(k + 1) |-> KeptStep(f, n, us)]
    <2>2. ASSUME NEW n \in 0..(k + 1) PROVE g[n] = KeptStep(g, n, us)
      <3>1. n # 0 => f[n - 1] = g[n - 1]
        <4>. SUFFICES ASSUME n # 0 PROVE f[n - 1] = g[n - 1]
          OBVIOUS
        <4>1. n - 1 \in 0..k /\ n - 1 \in 0..(k + 1)
          OBVIOUS
        <4>. QED BY <2>1, <4>1
      <3>. QED BY <3>1 DEF KeptStep
    <2>3. g = [n \in 0..(k + 1) |-> KeptStep(g, n, us)]
      BY <2>2
    <2>. QED BY <2>3
  <1>3. Bad = {}
    <2>. SUFFICES ASSUME Bad # {} PROVE FALSE
      OBVIOUS
    <2>. HIDE DEF Good
    <2>1. PICK k \in Bad : \A j \in Bad : k <= j
      BY HasLeast
    <2>2. k # 0
      BY <1>1
    <2>3. k - 1 \in Nat /\ k - 1 \notin Bad
      BY <2>1, <2>2
    <2>4. Good((k - 1) + 1)
      BY <1>2, <2>3
    <2>. QED BY <2>1, <2>4
  <1>. QED BY <1>3

(* What is left of the queue without the users of us: all others in the    *)
(* same order, in a queue that names nobody more often than before.        *)
LEMMA WithoutKeeps ==
  ASSUME waiting \in Seq(Users), NEW us
  PROVE  /\ Without(us) \in Seq(Users)
         /\ \A v : Occurs(Without(us), v) <=> Waits(v) /\ v \notin us
         /\ \A v, w : Prec(Without(us), v, w) <=> Prec(waiting, v, w) /\ v \notin us /\ w \notin us
         /\ WaitsOnce => Once(Without(us))
  <1>. DEFINE L == Len(waiting)
              kept == CHOOSE f : f = [n \in 0..L |->
                        IF n = 0 THEN <<>>
                        ELSE IF waiting[n] \in us THEN f[n - 1] ELSE Append(f[n - 1], waiting[n])]
  <1>1. L \in Nat
    OBVIOUS
  <1>2. Without(us) = kept[L]
    BY Zenon DEF Without
  <1>3. \E f : f = [n \in 0..L |-> KeptStep(f, n, us)]
    BY <1>1, KeptExists
  <1>4. kept = [n \in 0..L |-> KeptStep(kept, n, us)]
    BY <1>3, Zenon DEF KeptStep
  <1>. HIDE DEF kept
  <1>. DEFINE Upto(n, v) == \E i \in 1..n : waiting[i] = v
              Both(n, v, w) == \E i, j \in 1..n : i <= j /\ waiting[i] = v /\ waiting[j] = w
              Keeps(n) == /\ kept[n] \in Seq(Users)
                          /\ \A v : Occurs(kept[n], v) <=> Upto(n, v) /\ v \notin us
                          /\ \A v, w : Prec(kept[n], v, w) <=>
                               Both(n, v, w) /\ v \notin us /\ w \notin us
                          /\ WaitsOnce => Once(kept[n])
              Bad == {n \in 0..L : ~Keeps(n)}
  <1>5. Keeps(0)
    <2>1. kept[0] = <<>>
      BY <1>1, <1>4 DEF KeptStep
    <2>. QED BY <2>1 DEF Occurs, Once, Prec
  <1>6. ASSUME NEW n \in 1..L, Keeps(n - 1) PROVE Keeps(n)
    <2>. DEFINE e == waiting[n]
                s == kept[n - 1]
    <2>1. e \in Users /\ n - 1 \in Nat /\ n \in 0..L
      BY <1>1
    <2>2. kept[n] = IF e \in us THEN s ELSE Append(s, e)
      <3>1. kept[n] = KeptStep(kept, n, us)
        BY <1>4, <2>1, Zenon
      <3>2. n # 0
        BY <1>1
      <3>. QED BY <3>1, <3>2 DEF KeptStep
    <2>3. ASSUME NEW v PROVE Upto(n, v) <=> Upto(n - 1, v) \/ v = e
      BY <2>1
    <2>8. ASSUME NEW v, NEW w
          PROVE  Both(n, v, w) <=> Both(n - 1, v, w) \/ (w = e /\ (v = e \/ Upto(n - 1, v)))
      <3>1. /\ \A i \in 1..(n - 1) : i \in 1..n /\ i <= n
            /\ n \in 1..n /\ n <= n
            /\ \A i \in 1..n : i = n \/ (i \in 1..(n - 1) /\ ~(n <= i))
        BY <2>1
      <3>2. \A i \in 1..n, j \in 1..(n - 1) : i <= j => i \in 1..(n - 1)
        BY <2>1
      <3>. QED BY <3>1, <3>2
    <2>4. /\ s \in Seq(Users) /\ (\A v : Occurs(s, v) <=> Upto(n - 1, v) /\ v \notin us)
          /\ \A v, w : Prec(s, v, w) <=> Both(n - 1, v, w) /\ v \notin us /\ w \notin us
          /\ WaitsOnce => Once(s)
      BY <1>6
    <2>5. WaitsOnce => ~Upto(n - 1, e)
      BY <1>1, <2>1 DEF WaitsOnce
    <2>. HIDE DEF s, e, Upto, Both
    <2>6. CASE e \in us
      <3>1. kept[n] = s
        BY <2>2, <2>6
      <3>. QED BY <2>3, <2>4, <2>6, <2>8, <3>1
    <2>7. CASE e \notin us
      <3>1. kept[n] = Append(s, e)
        BY <2>2, <2>7
      <3>2. /\ Append(s, e) \in Seq(Users)
            /\ \A v : Occurs(Append(s, e), v) <=> Occurs(s, v) \/ v = e
            /\ Once(s) /\ ~Occurs(s, e) => Once(Append(s, e))
        BY <2>1, <2>4, AppendOccurs
      <3>3. \A v, w : Prec(Append(s, e), v, w) <=> Prec(s, v, w) \/ (w = e /\ (v = e \/ Occurs(s, v)))
        BY <2>1, <2>4, AppendPrec
      <3>4. \A v, w : Prec(kept[n], v, w) <=> Both(n, v, w) /\ v \notin us /\ w \notin us
        BY <2>4, <2>7, <2>8, <3>1, <3>3
      <3>. QED BY <2>3, <2>4, <2>5, <2>7, <3>1, <3>2, <3>4
    <2>. QED BY <2>6, <2>7
  <1>7. Bad = {}
    <2>. SUFFICES ASSUME Bad # {} PROVE FALSE
      OBVIOUS
    <2>. HIDE DEF Keeps
    <2>1. Bad \subseteq Nat
      BY <1>1
    <2>2. PICK n \in Bad : \A j \in Bad : n <= j
      BY <2>1, HasLeast
    <2>3. n \in 1..L
      BY <1>1, <1>5, <2>2
    <2>4. Keeps(n - 1)
      BY <1>1, <2>2, <2>3
    <2>. QED BY <1>6, <2>2, <2>3, <2>4
  <1>8. Keeps(L)
    <2>. HIDE DEF Keeps
    <2>. QED BY <1>1, <1>7
  <1>. QED BY <1>2, <1>8 DEF Waits, Prec

LEMMA FailedKeeps ==
  ASSUME waiting \in Seq(Users), NEW u \in Users, addFailedUpload(u)
  PROVE  /\ waiting' \in Seq(Users)
         /\ \A v : Waits(v) => Waits(v)'
         /\ WaitsOnce => WaitsOnce'
  <1>1. CASE Waits(u)
    BY <1>1 DEF addFailedUpload, Waits, WaitsOnce
  <1>2. CASE ~Waits(u)
    <2>1. waiting' = Append(waiting, u)
      BY <1>2 DEF addFailedUpload
    <2>2. /\ waiting' \in Seq(Users)
          /\ \A v : Occurs(waiting', v) <=> Occurs(waiting, v) \/ v = u
          /\ Once(waiting) /\ ~Occurs(waiting, u) => Once(waiting')
      BY <2>1, AppendOccurs
    <2>. QED BY <1>2, <2>2 DEF Occurs, Once, Waits, WaitsOnce
  <1>. QED BY <1>1, <1>2

(* The queue changes in four ways only: somebody is put at its end, some   *)
(* are taken out of it, its head is told of the free slots, or nothing.    *)
QueueStep(us) ==
  \/ UNCHANGED waiting
  \/ \E u \in Users : addFailedUpload(u)
  \/ waiting' = Without(us)

LEMMA QueueKeeps ==
  ASSUME waiting \in Seq(Users), NEW us, QueueStep(us)
  PROVE  /\ waiting' \in Seq(Users)
         /\ \A v : Waits(v) /\ v \notin us => Waits(v)'
         /\ WaitsOnce => WaitsOnce'
  <1>1. CASE UNCHANGED waiting
    BY <1>1 DEF Waits, WaitsOnce
  <1>2. CASE \E u \in Users : addFailedUpload(u)
    BY <1>2, FailedKeeps
  <1>3. CASE waiting' = Without(us)
    BY <1>3, WithoutKeeps DEF Occurs, Once, Waits, WaitsOnce
  <1>. QED BY <1>1, <1>2, <1>3 DEF QueueStep

(* Where u goes without having been told, it has a reason.                 *)
Excused(u) ==
  \/ notified'[u] = "yes" \/ notified[u] = "late" \/ u \notin online'
  \/ \E c \in Conns : UserOf[c] = u /\ phase'[c] = "list"

PlacesKept == \A u \in Users : Waits(u) /\ ~Waits(u)' => Excused(u)

OnceInv == QueueTypes /\ WaitsOnce

LEMMA ConnQueue ==
  ASSUME IInv, OnceInv, NEW c \in Conns, ConnStep(c)
  PROVE  OnceInv' /\ PlacesKept
  <1>. USE DEF OnceInv
  <1>1. UserOf[c] \in Users
    BY UserOfAssumption
  <1>2. /\ online' = online
        /\ entitled' \subseteq Conns /\ used' \subseteq Conns
        /\ errors' \in [Conns -> 0..MaxErrors]
        /\ lost' \in 0..MaxLost
        /\ notified' \in [Users -> {"no", "yes", "late"}]
    <2>. USE DEF ConnStep, QueueTypes, conns, lists, counters, queue, Enter
    <2>1. online' = online /\ entitled' \subseteq Conns /\ used' \subseteq Conns
      BY DEF addConnection, Ban, SeeFreeSlots, SeeQueue, prepareFile, SeeAutoSlot,
             Decide, DecideExtra, Refuse, LeaveQueue, Answer, FilterFails, Send,
             TransmitDone, ListUpload, CountSlot, CountTogether, Failed, SetSlotType
    <2>2. lost' \in 0..MaxLost
      <3>1. lost' = lost \/ (lost < MaxLost /\ lost' = lost + 1)
        BY DEF addConnection, Ban, SeeFreeSlots, SeeQueue, prepareFile, SeeAutoSlot,
             Decide, DecideExtra, Refuse, LeaveQueue, Answer, FilterFails, Send,
               TransmitDone, ListUpload, CountSlot, CountTogether, Failed, SetSlotType
      <3>. QED BY <3>1, SlotsAssumption
    <2>3. notified' = notified \/ notified' = [notified EXCEPT ![UserOf[c]] = "no"]
      BY DEF addConnection, Ban, SeeFreeSlots, SeeQueue, prepareFile, SeeAutoSlot,
             Decide, DecideExtra, Refuse, LeaveQueue, Answer, FilterFails, Send,
             TransmitDone, ListUpload, CountSlot, CountTogether, Failed, SetSlotType
    <2>4. errors' \in [Conns -> 0..MaxErrors]
      <3>1. \/ UNCHANGED errors
            \/ errors[c] < MaxErrors /\ errors' = [errors EXCEPT ![c] = errors[c] + 1]
        BY DEF addConnection, Ban, SeeFreeSlots, SeeQueue, prepareFile, SeeAutoSlot,
               Decide, DecideExtra, Refuse, LeaveQueue, Answer, FilterFails, Send,
               TransmitDone, ListUpload, CountSlot, CountTogether, Failed, SetSlotType, removeUpload
      <3>2. errors[c] < MaxErrors => errors[c] + 1 \in 0..MaxErrors
        BY MaxErrorsAssumption
      <3>. QED BY <3>1, <3>2
    <2>. QED BY <2>1, <2>2, <2>3, <2>4
  <1>3. \/ UNCHANGED waiting
        \/ addFailedUpload(UserOf[c])
        \/ waiting' = Without({UserOf[c]}) /\ phase'[c] = "list"
    BY DEF ConnStep, queue, conns, lists, counters, IInv, ConnTypes, Enter, Grant,
           addConnection, Ban, SeeFreeSlots, SeeQueue, prepareFile, SeeAutoSlot,
             Decide, DecideExtra, Refuse, LeaveQueue, Answer, FilterFails, Send,
           TransmitDone, ListUpload, CountSlot, CountTogether, Failed, SetSlotType
  <1>4. CASE UNCHANGED waiting \/ addFailedUpload(UserOf[c])
    <2>1. QueueStep({})
      BY <1>1, <1>4 DEF QueueStep
    <2>2. /\ waiting' \in Seq(Users) /\ WaitsOnce'
          /\ \A v : Waits(v) /\ v \notin {} => Waits(v)'
      BY <2>1, QueueKeeps DEF QueueTypes
    <2>. QED BY <1>2, <2>2 DEF QueueTypes, PlacesKept
  <1>5. CASE waiting' = Without({UserOf[c]}) /\ phase'[c] = "list"
    <2>1. QueueStep({UserOf[c]})
      BY <1>5 DEF QueueStep
    <2>2. /\ waiting' \in Seq(Users) /\ WaitsOnce'
          /\ \A v : Waits(v) /\ v \notin {UserOf[c]} => Waits(v)'
      BY <2>1, QueueKeeps DEF QueueTypes
    <2>3. Excused(UserOf[c])
      BY <1>5 DEF Excused
    <2>. QED BY <1>2, <2>2, <2>3 DEF QueueTypes, PlacesKept
  <1>. QED BY <1>3, <1>4, <1>5

LEMMA NotifyQueue ==
  ASSUME OnceInv, notifyQueuedUsers
  PROVE  OnceInv' /\ PlacesKept
  <1>. USE DEF OnceInv
  <1>1. PICK n \in 0..Len(waiting) :
          /\ waiting' = SubSeq(waiting, n + 1, Len(waiting))
          /\ notified' = [u \in Users |->
               IF u \in online /\ \E i \in 1..n : waiting[i] = u THEN "yes" ELSE notified[u]]
    BY Zenon DEF notifyQueuedUsers
  <1>2. UNCHANGED <<conns, lists, counters, online>>
    BY Zenon DEF notifyQueuedUsers
  <1>3. waiting \in Seq(Users) /\ Len(waiting) \in Nat
    BY DEF QueueTypes
  <1>4. /\ waiting' \in Seq(Users) /\ Len(waiting') = Len(waiting) - n
        /\ \A i \in 1..(Len(waiting) - n) : waiting'[i] = waiting[n + i]
    BY <1>1, <1>3
  <1>5. WaitsOnce'
    <2>. SUFFICES ASSUME NEW i \in 1..(Len(waiting) - n), NEW j \in 1..(Len(waiting) - n),
                         waiting'[i] = waiting'[j]
                  PROVE  i = j
      BY <1>4 DEF WaitsOnce
    <2>1. n + i \in 1..Len(waiting) /\ n + j \in 1..Len(waiting) /\ waiting[n + i] = waiting[n + j]
      BY <1>3, <1>4
    <2>. QED BY <1>3, <2>1 DEF WaitsOnce
  <1>6. QueueTypes'
    BY <1>1, <1>2, <1>4 DEF QueueTypes, conns, lists, counters
  <1>7. ASSUME NEW u \in Users, Waits(u), ~Waits(u)' PROVE Excused(u)
    <2>1. PICK i \in 1..Len(waiting) : waiting[i] = u
      BY <1>7 DEF Waits
    <2>2. CASE i \in 1..n
      <3>1. u \in online => notified'[u] = "yes"
        BY <1>1, <2>1, <2>2
      <3>2. online' = online
        BY <1>2
      <3>. QED BY <3>1, <3>2 DEF Excused
    <2>3. CASE i \notin 1..n
      <3>1. i - n \in 1..(Len(waiting) - n) /\ n + (i - n) = i
        BY <1>3, <2>3
      <3>2. waiting'[i - n] = u
        BY <1>4, <2>1, <3>1
      <3>3. Waits(u)'
        BY <1>4, <3>1, <3>2 DEF Waits
      <3>. QED BY <1>7, <3>3
    <2>. QED BY <2>2, <2>3
  <1>. QED BY <1>5, <1>6, <1>7 DEF PlacesKept

LEMMA TimedQueue ==
  ASSUME OnceInv, Minute \/ \E u \in Users : UserStep(u)
  PROVE  OnceInv' /\ PlacesKept
  <1>. USE DEF OnceInv
  <1>1. CASE Minute
    <2>1. QueueStep(Late)
      BY <1>1 DEF Minute, QueueStep
    <2>2. /\ waiting' \in Seq(Users) /\ WaitsOnce'
          /\ \A v : Waits(v) /\ v \notin Late => Waits(v)'
      BY <2>1, QueueKeeps DEF QueueTypes
    <2>3. \A u \in Late : Excused(u)
      BY DEF Late, Excused
    <2>4. QueueTypes'
      BY <1>1, <2>2 DEF Minute, QueueTypes, conns, lists, counters
    <2>. QED BY <2>2, <2>3, <2>4 DEF PlacesKept
  <1>2. ASSUME NEW u \in Users, UserDisconnected(u) PROVE OnceInv' /\ PlacesKept
    <2>1. QueueStep({u})
      BY <1>2 DEF UserDisconnected, QueueStep
    <2>2. /\ waiting' \in Seq(Users) /\ WaitsOnce'
          /\ \A v : Waits(v) /\ v \notin {u} => Waits(v)'
      BY <2>1, QueueKeeps DEF QueueTypes
    <2>3. Excused(u)
      BY <1>2 DEF UserDisconnected, Excused
    <2>4. QueueTypes'
      BY <1>2, <2>2 DEF UserDisconnected, QueueTypes, conns, lists, counters
    <2>. QED BY <2>2, <2>3, <2>4 DEF PlacesKept
  <1>3. ASSUME NEW u \in Users, Elapse(u) \/ UserConnected(u) PROVE OnceInv' /\ PlacesKept
    <2>1. UNCHANGED waiting
      BY <1>3 DEF Elapse, UserConnected, queue
    <2>2. QueueTypes'
      BY <1>3 DEF Elapse, UserConnected, QueueTypes, conns, lists, counters, queue
    <2>. QED BY <2>1, <2>2 DEF PlacesKept, Waits, WaitsOnce
  <1>. QED BY <1>1, <1>2, <1>3 DEF UserStep

LEMMA OnceStep ==
  ASSUME IInv, OnceInv, [Next]_vars
  PROVE  OnceInv' /\ (Next => PlacesKept)
  <1>1. CASE Next
    BY <1>1, ConnQueue, NotifyQueue, TimedQueue DEF Next
  <1>2. CASE UNCHANGED vars
    <2>1. OnceInv'
      BY <1>2 DEF vars, conns, lists, counters, queue, OnceInv, QueueTypes, WaitsOnce
    <2>. QED BY <1>1, <2>1
  <1>. QED BY <1>1, <1>2

LEMMA OnceCorrect == Spec => []OnceInv
  <1>1. Init => OnceInv
    BY SlotsAssumption, MaxErrorsAssumption DEF Init, OnceInv, QueueTypes, WaitsOnce
  <1>2. IInv /\ OnceInv /\ [Next]_vars => OnceInv'
    BY OnceStep
  <1>. QED BY <1>1, <1>2, InvCorrect, PTL DEF Spec

(* Until a ZFilter fails for a connection its uploads are in g_uploads     *)
(* only while it lives, and always while it sends (prepareFile,            *)
(* removeUpload, on(Failed)); what is left there afterwards goes back to   *)
(* such failures, each to one (on(AdcCommand::GET)): from no other order   *)
(* of steps does the timer call a deleted connection.                      *)
THEOREM UploadsCorrect == Spec => []UploadsAlive
  BY InvCorrect, PTL DEF IInv

(* No user's uploads are counted more often than they are listed           *)
(* (increaseUserConnectionAmountL, decreaseUserConnectionAmountL).         *)
THEOREM AmountCorrect == Spec => []NeverOvercounted
  BY InvCorrect, PTL DEF IInv

(* The counters of used slots are off by at most one for every time two    *)
(* threads changed them at once (process_slot).                            *)
THEOREM SlotsCorrect == Spec => []SlotsCounted
  BY InvCorrect, PTL DEF IInv

(* Every variable keeps its type, whatever the threads of the connections, *)
(* the timer and the hubs do in between one another's steps.               *)
THEOREM TypeCorrect == Spec => []TypeOK
  <1>1. IInv /\ OnceInv => TypeOK
    BY DEF IInv, ConnTypes, OnceInv, QueueTypes, TypeOK
  <1>. QED BY <1>1, InvCorrect, OnceCorrect, PTL

(* Nobody is in m_slotQueue twice: clearUserFilesL, which takes out the    *)
(* first entry it finds, takes the user out of the queue.                  *)
THEOREM OnceWaiting == Spec => []WaitsOnce
  <1>1. OnceInv => WaitsOnce
    BY DEF OnceInv
  <1>. QED BY <1>1, OnceCorrect, PTL

(* Nobody loses his place for nothing, for any number of users and slots:  *)
(* a step that takes him out of m_slotQueue (prepareFile,                  *)
(* notifyQueuedUsers, on(Minute), on(UserDisconnected)) tells him of a     *)
(* slot or lists his upload, or he is offline or let his 90 seconds go by. *)
THEOREM PlaceCorrect == Spec => PlaceKept
  <1>1. IInv /\ OnceInv /\ [Next]_vars => [PlacesKept]_vars
    BY OnceStep
  <1>2. Spec => [][PlacesKept]_vars
    BY <1>1, InvCorrect, OnceCorrect, PTL DEF Spec
  <1>. QED BY <1>2 DEF PlaceKept, PlacesKept, Excused

-----------------------------------------------------------------------------
(* The amounts of users with one connection.                               *)

OneEach ==
  \A c \in Conns : errors[c] = 0 => perUser[UserOf[c]] = IF c \in uploads THEN 1 ELSE 0

LEMMA OneEachStep ==
  ASSUME \A c, d \in Conns : UserOf[c] = UserOf[d] => c = d,
         IInv, OneEach, [Next]_vars
  PROVE  OneEach'
  <1>. USE DEF IInv, ConnTypes
  <1>1. CASE UNCHANGED lists
    BY <1>1 DEF lists, OneEach
  <1>2. ASSUME NEW c \in Conns, NEW n \in Nat, perUser' = [perUser EXCEPT ![UserOf[c]] = n],
               UNCHANGED errors,
               \/ (errors[c] = 0 => n = 1) /\ uploads' = uploads \cup {c}
               \/ (errors[c] = 0 => n = 0) /\ uploads' = uploads \ {c}
        PROVE  OneEach'
    <2>1. UserOf \in [Conns -> Users]
      BY UserOfAssumption
    <2>2. perUser'[UserOf[c]] = n
      BY <1>2, <2>1
    <2>3. ASSUME NEW d \in Conns, d # c
          PROVE  perUser'[UserOf[d]] = perUser[UserOf[d]] /\ (d \in uploads' <=> d \in uploads)
      BY <1>2, <2>1, <2>3
    <2>. QED BY <1>2, <2>2, <2>3 DEF OneEach
  <1>3. ASSUME NEW c \in Conns, removeUpload(c) PROVE OneEach'
    <2>. DEFINE left == IF perUser[UserOf[c]] > 0 THEN perUser[UserOf[c]] - 1 ELSE 0
    <2>1. /\ perUser' = [perUser EXCEPT ![UserOf[c]] = left] /\ uploads' = uploads \ {c}
          /\ UNCHANGED errors /\ perUser[UserOf[c]] \in Nat
      BY <1>3, UserOfAssumption DEF removeUpload
    <2>2. left \in Nat /\ (errors[c] = 0 => left = 0)
      BY <2>1 DEF OneEach
    <2>. HIDE DEF left
    <2>. QED BY <1>2, <2>1, <2>2
  <1>4. ASSUME NEW c \in Conns, ListUpload(c) PROVE OneEach'
    <2>1. errors[c] = 0 => c \notin uploads
      BY <1>4 DEF ListUpload, FailedLast, Preparing
    <2>2. errors[c] = 0 => perUser[UserOf[c]] = 0
      BY <2>1 DEF OneEach
    <2>3. /\ perUser' = [perUser EXCEPT ![UserOf[c]] = perUser[UserOf[c]] + 1]
          /\ uploads' = uploads \cup {c} /\ UNCHANGED errors /\ perUser[UserOf[c]] \in Nat
      BY <1>4, UserOfAssumption DEF ListUpload
    <2>4. perUser[UserOf[c]] + 1 \in Nat /\ (errors[c] = 0 => perUser[UserOf[c]] + 1 = 1)
      BY <2>2, <2>3
    <2>. QED BY <1>2, <2>3, <2>4
  <1>5. ASSUME NEW c \in Conns, FilterFails(c) PROVE OneEach'
    <2>1. /\ UNCHANGED <<uploads, perUser>> /\ errors[c] \in Nat
          /\ errors' = [errors EXCEPT ![c] = errors[c] + 1]
      BY <1>5 DEF FilterFails
    <2>2. \A d \in Conns : errors'[d] = 0 => errors[d] = 0
      BY <2>1
    <2>. QED BY <2>1, <2>2 DEF OneEach
  <1>6. ASSUME NEW c \in Conns, ConnStep(c)
        PROVE  UNCHANGED lists \/ removeUpload(c) \/ ListUpload(c) \/ FilterFails(c)
    BY <1>6, Zenon
    DEF ConnStep, addConnection, Ban, SeeFreeSlots, SeeQueue, prepareFile, SeeAutoSlot, Decide,
        DecideExtra, Refuse, LeaveQueue, Answer, Send, TransmitDone, CountSlot, CountTogether,
        SetSlotType, Failed
  <1>7. ASSUME NEW u \in Users, UserStep(u) PROVE UNCHANGED lists
    BY <1>7, Zenon DEF UserStep, Elapse, UserDisconnected, UserConnected
  <1>8. CASE notifyQueuedUsers \/ Minute
    BY <1>1, <1>8, Zenon DEF notifyQueuedUsers, Minute
  <1>9. CASE UNCHANGED vars
    BY <1>1, <1>9 DEF vars
  <1>. QED BY <1>1, <1>3, <1>4, <1>5, <1>6, <1>7, <1>8, <1>9, Zenon DEF Next

(* The timer finds the user of every upload in g_uploadsPerUser, as the    *)
(* assertion at UploadManager.cpp:815 says, if no user has more than one   *)
(* connection and until a ZFilter fails for his: the second removal of an  *)
(* upload that is over, by on(Failed), then finds nothing to count out.    *)
THEOREM AmountKnownOfOne ==
  ASSUME \A c, d \in Conns : UserOf[c] = UserOf[d] => c = d
  PROVE  Spec => [](\A c \in Conns : errors[c] = 0 => AmountKnownOf(c))
  <1>1. Init => OneEach
    BY UserOfAssumption DEF Init, OneEach
  <1>2. IInv /\ OneEach /\ [Next]_vars => OneEach'
    BY OneEachStep
  <1>3. IInv /\ OneEach => \A c \in Conns : errors[c] = 0 => AmountKnownOf(c)
    <2>. SUFFICES ASSUME IInv, OneEach, NEW c \in Conns, errors[c] = 0,
                         c \in uploads \cup {p[1] : p \in stale}
                  PROVE  perUser[UserOf[c]] > 0
      BY DEF AmountKnownOf
    <2>1. \A p \in stale : p[1] # c
      BY DEF IInv, UploadsAlive
    <2>. QED BY <2>1 DEF OneEach
  <1>. QED BY <1>1, <1>2, <1>3, InvCorrect, PTL DEF Spec

-----------------------------------------------------------------------------
(* The waiting queue is a WaitingLine.                                     *)

Pairs(s) ==
  {<<s[p[1]], s[p[2]]>> : p \in {q \in (1..Len(s)) \X (1..Len(s)) : q[1] <= q[2]}}

LEMMA PairsPrec ==
  ASSUME NEW s \in Seq(Users)
  PROVE  /\ Pairs(s) \subseteq Users \X Users
         /\ \A v, w : <<v, w>> \in Pairs(s) <=> Prec(s, v, w)
         /\ \A v : Prec(s, v, v) <=> Occurs(s, v)
  <1>. DEFINE L == Len(s)
  <1>1. \A i \in 1..L : s[i] \in Users
    OBVIOUS
  <1>2. \A v, w : <<v, w>> \in Pairs(s) <=> Prec(s, v, w)
    <2>. TAKE v, w
    <2>1. ASSUME <<v, w>> \in Pairs(s) PROVE Prec(s, v, w)
      BY <2>1 DEF Pairs, Prec
    <2>2. ASSUME Prec(s, v, w) PROVE <<v, w>> \in Pairs(s)
      <3>1. PICK i, j \in 1..L : i <= j /\ s[i] = v /\ s[j] = w
        BY <2>2 DEF Prec
      <3>2. <<i, j>> \in {q \in (1..L) \X (1..L) : q[1] <= q[2]}
        BY <3>1
      <3>3. <<v, w>> = <<s[<<i, j>>[1]], s[<<i, j>>[2]]>>
        BY <3>1
      <3>. QED BY <3>2, <3>3 DEF Pairs
    <2>. QED BY <2>1, <2>2
  <1>3. Pairs(s) \subseteq Users \X Users
    BY <1>1 DEF Pairs
  <1>4. \A v : Prec(s, v, v) <=> Occurs(s, v)
    <2>. TAKE v
    <2>1. \A i \in 1..L : i <= i
      OBVIOUS
    <2>. QED BY <2>1 DEF Prec, Occurs
  <1>. QED BY <1>2, <1>3, <1>4

LEMMA LineIsWaiting ==
  ASSUME waiting \in Seq(Users)
  PROVE  /\ Precedes = Pairs(waiting) /\ Precedes' = Pairs(waiting')
         /\ \A u \in Users : u \in Line!Line <=> Waits(u)
  <1>1. Precedes = Pairs(waiting) /\ Precedes' = Pairs(waiting')
    BY DEF Precedes, Pairs
  <1>2. \A u \in Users : <<u, u>> \in Pairs(waiting) <=> Occurs(waiting, u)
    BY PairsPrec
  <1>. QED BY <1>1, <1>2 DEF Line!Line, Waits, Occurs

(* Two sets of pairs of users are equal if the same pairs are in them.     *)
LEMMA SamePairs ==
  ASSUME NEW A, NEW B, A \subseteq Users \X Users, B \subseteq Users \X Users,
         \A v, w \in Users : <<v, w>> \in A <=> <<v, w>> \in B
  PROVE  A = B
  OBVIOUS

LEMMA LineWithout ==
  ASSUME waiting \in Seq(Users), waiting' \in Seq(Users), NEW us,
         \A v, w : Prec(waiting', v, w) <=> Prec(waiting, v, w) /\ v \notin us /\ w \notin us
  PROVE  Precedes' = Line!Without(us)
  <1>1. /\ Precedes \subseteq Users \X Users
        /\ \A v, w : <<v, w>> \in Precedes <=> Prec(waiting, v, w)
    BY PairsPrec, LineIsWaiting
  <1>2. /\ Precedes' \subseteq Users \X Users
        /\ \A v, w : <<v, w>> \in Precedes' <=> Prec(waiting', v, w)
    BY PairsPrec, LineIsWaiting
  <1>3. Line!Without(us) \subseteq Users \X Users
    BY <1>1 DEF Line!Without
  <1>4. \A v, w : <<v, w>> \in Line!Without(us) <=> Prec(waiting, v, w) /\ v \notin us /\ w \notin us
    BY <1>1 DEF Line!Without
  <1>. QED BY <1>2, <1>3, <1>4, SamePairs

SameOthers == UNCHANGED <<notified, online>> /\ Served' = Served

LEMMA SameNotified ==
  ASSUME UNCHANGED notified
  PROVE  Notified' = Notified /\ Late' = Late
  BY DEF Notified, Late

LEMMA LineJoins ==
  ASSUME waiting \in Seq(Users), NEW u \in Users, addFailedUpload(u), SameOthers
  PROVE  [Line!Next]_Line!vars
  <1>1. CASE Waits(u)
    <2>1. Precedes' = Precedes
      BY <1>1 DEF addFailedUpload, Precedes
    <2>. QED BY <2>1, SameNotified DEF SameOthers, Line!vars
  <1>2. CASE ~Waits(u)
    <2>. DEFINE New == {<<v, u>> : v \in Line!Line \cup {u}}
    <2>1. waiting' = Append(waiting, u) /\ waiting' \in Seq(Users)
      BY <1>2 DEF addFailedUpload
    <2>2. \A v, w : Prec(waiting', v, w) <=>
            Prec(waiting, v, w) \/ (w = u /\ (v = u \/ Occurs(waiting, v)))
      BY <2>1, AppendPrec
    <2>3. \A v \in Users : v \in Line!Line <=> Occurs(waiting, v)
      BY LineIsWaiting DEF Waits, Occurs
    <2>4. Line!Line \subseteq Users
      BY DEF Line!Line
    <2>5. Precedes' = Precedes \cup New
      <3>1. /\ Precedes \subseteq Users \X Users /\ Precedes' \subseteq Users \X Users
            /\ \A v, w : <<v, w>> \in Precedes <=> Prec(waiting, v, w)
            /\ \A v, w : <<v, w>> \in Precedes' <=> Prec(waiting', v, w)
        BY <2>1, PairsPrec, LineIsWaiting
      <3>2. New \subseteq Users \X Users
        BY <2>4
      <3>3. \A v, w \in Users : <<v, w>> \in New <=> w = u /\ (v = u \/ Occurs(waiting, v))
        BY <2>3
      <3>4. \A v, w \in Users : <<v, w>> \in Precedes' <=> <<v, w>> \in Precedes \cup New
        BY <2>2, <3>1, <3>3
      <3>5. Precedes \cup New \subseteq Users \X Users
        BY <3>1, <3>2
      <3>. HIDE DEF New
      <3>. QED BY <3>1, <3>4, <3>5, SamePairs
    <2>6. u \notin Line!Line
      BY <1>2, LineIsWaiting
    <2>7. Line!Join(u)
      BY <2>5, <2>6, SameNotified DEF SameOthers, Line!Join
    <2>. QED BY <2>7 DEF Line!Next
  <1>. QED BY <1>1, <1>2

(* Where nobody new is about to get his slot.                              *)
LEMMA LineSettles ==
  ASSUME UNCHANGED <<queue, online>>, \A c \in Conns : phase'[c] = "list" => phase[c] = "list"
  PROVE  [Line!Next]_Line!vars
  <1>1. Served' \subseteq Served
    BY DEF Served
  <1>2. Precedes' = Precedes /\ Notified' = Notified /\ Late' = Late /\ online' = online
    BY DEF queue, Precedes, Notified, Late
  <1>3. Line!Settle
    BY <1>1, <1>2 DEF Line!Settle
  <1>. QED BY <1>3 DEF Line!Next

LEMMA LineServes ==
  ASSUME QueueTypes, phase \in [Conns -> Phases], NEW c \in Conns, LeaveQueue(c)
  PROVE  [Line!Next]_Line!vars
  <1>. DEFINE u == UserOf[c]
  <1>1. u \in Users
    BY UserOfAssumption
  <1>2. Precedes' = Line!Without({u})
    BY WithoutKeeps, LineWithout DEF LeaveQueue, QueueTypes
  <1>3. Notified' = Notified \ {u} /\ Late' = Late \ {u}
    <2>1. notified' = [notified EXCEPT ![u] = "no"] /\ notified \in [Users -> {"no", "yes", "late"}]
      BY DEF LeaveQueue, QueueTypes
    <2>. QED BY <1>1, <2>1 DEF Notified, Late
  <1>4. Served' = Served \cup {u}
    <2>1. phase' = [phase EXCEPT ![c] = "list"]
      BY DEF LeaveQueue, Enter
    <2>. QED BY <2>1 DEF Served
  <1>5. online' = online
    BY DEF LeaveQueue
  <1>. HIDE DEF u
  <1>6. Line!Serve(u)
    BY <1>2, <1>3, <1>4, <1>5 DEF Line!Serve
  <1>. QED BY <1>1, <1>6 DEF Line!Next

LEMMA LineConn ==
  ASSUME IInv, OnceInv, NEW c \in Conns, ConnStep(c)
  PROVE  [Line!Next]_Line!vars
  <1>. USE DEF IInv, ConnTypes, OnceInv
  <1>1. CASE LeaveQueue(c)
    BY <1>1, LineServes
  <1>2. CASE Ban(c) \/ Refuse(c)
    <2>1. /\ addFailedUpload(UserOf[c]) /\ UNCHANGED <<notified, online>>
          /\ phase' = phase \/ (phase[c] = "refuse" /\ phase' = [phase EXCEPT ![c] = "get"])
      BY <1>2 DEF Ban, Refuse, Enter, conns
    <2>2. \A d \in Conns : phase'[d] = "list" <=> phase[d] = "list"
      BY <2>1
    <2>3. SameOthers /\ UserOf[c] \in Users
      BY <2>1, <2>2, UserOfAssumption DEF SameOthers, Served
    <2>. QED BY <2>1, <2>3, LineJoins DEF QueueTypes
  <1>3. CASE ~LeaveQueue(c) /\ ~Ban(c) /\ ~Refuse(c)
    <2>1. UNCHANGED <<queue, online>>
      BY <1>3, Zenon
      DEF ConnStep, addConnection, SeeFreeSlots, SeeQueue, prepareFile, SeeAutoSlot, Decide,
          DecideExtra, Answer, FilterFails, Send, TransmitDone, ListUpload, CountSlot,
          CountTogether, Failed, SetSlotType
    <2>2. ASSUME NEW p \in Phases, p # "list", Enter(c, p)
          PROVE  \A d \in Conns : phase'[d] = "list" => phase[d] = "list"
      BY <2>2 DEF Enter
    <2>3. ASSUME NEW cs, SetSlotType(cs)
          PROVE  \A d \in Conns : phase'[d] = "list" => phase[d] = "list"
      BY <2>3 DEF SetSlotType
    <2>4. (\E p \in Phases : p # "list" /\ Enter(c, p)) \/ \E cs : SetSlotType(cs)
      BY <1>3
      DEF ConnStep, addConnection, SeeFreeSlots, SeeQueue, prepareFile, SeeAutoSlot, Decide,
          DecideExtra, Grant, Answer, FilterFails, Send, TransmitDone, ListUpload, CountSlot,
          CountTogether, Failed, Phases, Preparing, Counting
    <2>. QED BY <2>1, <2>2, <2>3, <2>4, LineSettles
  <1>. QED BY <1>1, <1>2, <1>3

LEMMA LineCalls ==
  ASSUME OnceInv, notifyQueuedUsers
  PROVE  [Line!Next]_Line!vars
  <1>. USE DEF OnceInv, QueueTypes
  <1>1. PICK n \in 0..Len(waiting) :
          /\ waiting' = SubSeq(waiting, n + 1, Len(waiting))
          /\ notified' = [u \in Users |->
               IF u \in online /\ \E i \in 1..n : waiting[i] = u THEN "yes" ELSE notified[u]]
    BY Zenon DEF notifyQueuedUsers
  <1>2. online' = online /\ Served' = Served
    BY DEF notifyQueuedUsers, conns, Served
  <1>. DEFINE L == Len(waiting)
              us == {waiting[i] : i \in 1..n}
  <1>3. L \in Nat /\ n \in 0..L /\ \A i \in 1..L : waiting[i] \in Users
    OBVIOUS
  <1>4. /\ waiting' \in Seq(Users) /\ Len(waiting') = L - n
        /\ \A i \in 1..(L - n) : waiting'[i] = waiting[n + i]
    BY <1>1, <1>3
  <1>5. \A i \in 1..L : waiting[i] \in us <=> i \in 1..n
    BY <1>3 DEF WaitsOnce
  <1>6. us \subseteq Users
    BY <1>3
  <1>. HIDE DEF us
  <1>7. ASSUME NEW v, NEW w
        PROVE  Prec(waiting', v, w) <=> Prec(waiting, v, w) /\ v \notin us /\ w \notin us
    <2>1. ASSUME Prec(waiting', v, w) PROVE Prec(waiting, v, w) /\ v \notin us /\ w \notin us
      <3>1. PICK i, j \in 1..(L - n) : i <= j /\ waiting'[i] = v /\ waiting'[j] = w
        BY <1>4, <2>1 DEF Prec
      <3>2. /\ n + i \in 1..L /\ n + j \in 1..L /\ n + i <= n + j
            /\ n + i \notin 1..n /\ n + j \notin 1..n
        BY <1>3, <3>1
      <3>3. waiting[n + i] = v /\ waiting[n + j] = w
        BY <1>4, <3>1
      <3>. QED BY <1>5, <3>2, <3>3 DEF Prec
    <2>2. ASSUME Prec(waiting, v, w), v \notin us, w \notin us PROVE Prec(waiting', v, w)
      <3>1. PICK i, j \in 1..L : i <= j /\ waiting[i] = v /\ waiting[j] = w
        BY <2>2 DEF Prec
      <3>2. i \notin 1..n /\ j \notin 1..n
        BY <1>5, <2>2, <3>1
      <3>3. /\ i - n \in 1..(L - n) /\ j - n \in 1..(L - n) /\ i - n <= j - n
            /\ n + (i - n) = i /\ n + (j - n) = j
        BY <1>3, <3>1, <3>2
      <3>4. waiting'[i - n] = v /\ waiting'[j - n] = w
        BY <1>4, <3>1, <3>3
      <3>. QED BY <1>4, <3>3, <3>4 DEF Prec
    <2>. QED BY <2>1, <2>2
  <1>8. Precedes' = Line!Without(us)
    BY <1>4, <1>7, LineWithout
  <1>9. us \subseteq Line!Line
    <2>1. \A u \in us : Waits(u)
      BY <1>3 DEF us, Waits
    <2>. QED BY <1>6, <2>1, LineIsWaiting
  <1>10. \A p \in Precedes : p[2] \in us => p[1] \in us
    <2>1. /\ Precedes \subseteq Users \X Users
          /\ \A v, w : <<v, w>> \in Precedes <=> Prec(waiting, v, w)
      BY PairsPrec, LineIsWaiting
    <2>2. ASSUME NEW v, NEW w, Prec(waiting, v, w), w \in us PROVE v \in us
      <3>1. PICK i, j \in 1..L : i <= j /\ waiting[i] = v /\ waiting[j] = w
        BY <2>2 DEF Prec
      <3>2. j \in 1..n
        BY <1>5, <2>2, <3>1
      <3>3. i \in 1..n
        BY <1>3, <3>1, <3>2
      <3>. QED BY <1>5, <3>1, <3>3
    <2>. QED BY <2>1, <2>2
  <1>11. Notified' = Notified \cup (us \cap online) /\ Late' = Late \ (us \cap online)
    <2>1. \A u : u \in us <=> \E i \in 1..n : waiting[i] = u
      BY DEF us
    <2>2. notified' = [u \in Users |-> IF u \in online /\ u \in us THEN "yes" ELSE notified[u]]
      BY <1>1, <2>1
    <2>. QED BY <1>6, <2>2 DEF Notified, Late
  <1>12. Line!Call(us)
    BY <1>2, <1>8, <1>9, <1>10, <1>11 DEF Line!Call
  <1>13. us \in SUBSET Users
    BY <1>6
  <1>. QED BY <1>12, <1>13 DEF Line!Next

LEMMA LineTimed ==
  ASSUME OnceInv, Minute \/ \E u \in Users : UserStep(u)
  PROVE  [Line!Next]_Line!vars
  <1>. USE DEF OnceInv, QueueTypes
  <1>1. CASE Minute
    <2>1. Precedes' = Line!Without(Late)
      BY <1>1, WithoutKeeps, LineWithout DEF Minute
    <2>2. Notified' = Notified \ Late /\ Late' = {}
      BY <1>1 DEF Minute, Notified, Late
    <2>3. online' = online /\ Served' = Served
      BY <1>1 DEF Minute, conns, Served
    <2>4. Line!Forget
      BY <2>1, <2>2, <2>3 DEF Line!Forget
    <2>. QED BY <2>4 DEF Line!Next
  <1>2. ASSUME NEW u \in Users, UserDisconnected(u) PROVE [Line!Next]_Line!vars
    <2>1. Precedes' = Line!Without({u})
      BY <1>2, WithoutKeeps, LineWithout DEF UserDisconnected
    <2>2. Notified' = Notified /\ Late' = Late /\ Served' = Served /\ online' = online \ {u}
      BY <1>2 DEF UserDisconnected, conns, Notified, Late, Served
    <2>3. Line!GoOffline(u)
      BY <2>1, <2>2 DEF Line!GoOffline
    <2>. QED BY <2>3 DEF Line!Next
  <1>3. ASSUME NEW u \in Users, UserConnected(u) PROVE [Line!Next]_Line!vars
    <2>1. /\ Precedes' = Precedes /\ Notified' = Notified /\ Late' = Late /\ Served' = Served
          /\ online' = online \cup {u}
      BY <1>3 DEF UserConnected, conns, queue, Precedes, Notified, Late, Served
    <2>2. Line!GoOnline(u)
      BY <2>1 DEF Line!GoOnline
    <2>. QED BY <2>2 DEF Line!Next
  <1>4. ASSUME NEW u \in Users, Elapse(u) PROVE [Line!Next]_Line!vars
    <2>1. Notified' = Notified /\ Late' = Late \cup {u} /\ u \in Notified
      BY <1>4 DEF Elapse, Notified, Late
    <2>2. Precedes' = Precedes /\ Served' = Served /\ online' = online
      BY <1>4 DEF Elapse, conns, Precedes, Served
    <2>3. Line!Expire(u)
      BY <2>1, <2>2 DEF Line!Expire
    <2>. QED BY <2>3 DEF Line!Next
  <1>. QED BY <1>1, <1>2, <1>3, <1>4 DEF UserStep

(* The waiting queue is a line: for any number of users, connections and   *)
(* slots, whoever waits is told of a free slot before all who came after   *)
(* him, and leaves m_slotQueue only when he is told, served, late or       *)
(* offline (addFailedUpload, clearUserFilesL, notifyQueuedUsers).          *)
THEOREM LineImplemented == Spec => LineSpec
  <1>1. Init => Line!Init
    <2>. SUFFICES ASSUME Init PROVE Line!Init
      OBVIOUS
    <2>1. Precedes = {}
      BY DEF Init, Precedes
    <2>2. Notified = {} /\ Late = {} /\ Served = {} /\ online = Users
      BY DEF Init, Notified, Late, Served
    <2>. QED BY <2>1, <2>2 DEF Line!Init
  <1>2. IInv /\ OnceInv /\ [Next]_vars => [Line!Next]_Line!vars
    <2>1. ASSUME IInv, OnceInv, UNCHANGED vars PROVE UNCHANGED Line!vars
      BY <2>1
      DEF vars, conns, lists, counters, queue, Line!vars, Precedes, Notified, Late, Served
    <2>. QED BY <2>1, LineConn, LineCalls, LineTimed DEF Next
  <1>. QED BY <1>1, <1>2, InvCorrect, OnceCorrect, PTL DEF Spec, LineSpec, Line!Spec

-----------------------------------------------------------------------------
(* No slot is promised twice.                                              *)

LimitInv == IsFiniteSet(Notified) /\ NotifiedLimit

LEMMA FreeSlotsBound ==
  ASSUME IInv
  PROVE  FreeSlots \in Nat /\ FreeSlots <= Slots + lost
  <1>1. count["STDSLOT"] \in Int /\ "STDSLOT" \in Kinds /\ lost \in Nat /\ Slots \in Nat
    BY SlotsAssumption DEF IInv, ConnTypes, Kinds
  <1>2. Cardinality(Holders("STDSLOT")) \in Nat
    BY FiniteConns DEF Holders
  <1>3. count["STDSLOT"] >= Cardinality(Holders("STDSLOT")) - lost
    BY <1>1 DEF IInv, SlotsCounted
  <1>4. count["STDSLOT"] >= 0 - lost
    BY <1>1, <1>2, <1>3
  <1>. QED BY <1>1, <1>4 DEF FreeSlots

(* Who was notified stays so or not, and no slots are given up.            *)
LEMMA LimitShrinks ==
  ASSUME IInv, LimitInv, Notified' \subseteq Notified, lost' \in Nat, lost' >= lost
  PROVE  LimitInv'
  <1>1. /\ IsFiniteSet(Notified') /\ Cardinality(Notified') \in Nat
        /\ Cardinality(Notified) \in Nat /\ Cardinality(Notified') <= Cardinality(Notified)
    BY FS_Subset, FS_CardinalityType DEF LimitInv
  <1>. QED BY <1>1, SlotsAssumption DEF LimitInv, NotifiedLimit, IInv, ConnTypes

(* Of the first n in the queue one more may be online than of n - 1.       *)
LEMMA OnlineAmongGrows ==
  ASSUME NEW n \in Nat
  PROVE  /\ OnlineAmong(n) \in Nat
         /\ n # 0 => OnlineAmong(n) <= OnlineAmong(n - 1) + 1
         /\ n = 0 => OnlineAmong(n) = 0
  <1>. DEFINE On(k) == {i \in 1..k : waiting[i] \in online}
  <1>1. \A k \in Nat : IsFiniteSet(On(k)) /\ Cardinality(On(k)) \in Nat
    <2>. TAKE k \in Nat
    <2>1. IsFiniteSet(1..k) /\ On(k) \in SUBSET (1..k)
      BY FS_Interval
    <2>. HIDE DEF On
    <2>2. IsFiniteSet(On(k))
      BY <2>1, FS_Subset
    <2>. QED BY <2>2, FS_CardinalityType
  <1>2. n # 0 => OnlineAmong(n) <= OnlineAmong(n - 1) + 1
    <2>. SUFFICES ASSUME n # 0 PROVE OnlineAmong(n) <= OnlineAmong(n - 1) + 1
      OBVIOUS
    <2>1. n - 1 \in Nat /\ On(n) \subseteq On(n - 1) \cup {n}
      OBVIOUS
    <2>. HIDE DEF On
    <2>2. /\ IsFiniteSet(On(n - 1) \cup {n})
          /\ Cardinality(On(n - 1) \cup {n}) <= Cardinality(On(n - 1)) + 1
          /\ Cardinality(On(n - 1) \cup {n}) \in Nat
      <3>1. IsFiniteSet(On(n - 1)) /\ Cardinality(On(n - 1)) \in Nat
        BY <1>1, <2>1
      <3>. QED BY <3>1, FS_AddElement
    <2>3. Cardinality(On(n)) <= Cardinality(On(n - 1) \cup {n})
      BY <2>1, <2>2, FS_Subset
    <2>4. Cardinality(On(n)) \in Nat /\ Cardinality(On(n - 1)) \in Nat
      BY <1>1, <2>1
    <2>. QED BY <2>2, <2>3, <2>4 DEF OnlineAmong, On
  <1>3. n = 0 => OnlineAmong(n) = 0
    <2>1. On(0) = {}
      OBVIOUS
    <2>. QED BY <2>1, FS_EmptySet DEF OnlineAmong
  <1>. QED BY <1>1, <1>2, <1>3 DEF OnlineAmong

LEMMA LimitCalls ==
  ASSUME IInv, OnceInv, LimitInv, notifyQueuedUsers
  PROVE  LimitInv'
  <1>. DEFINE offers == FreeSlots - Cardinality(Notified)
  <1>1. PICK n \in 0..Len(waiting) :
          /\ n = Len(waiting) \/ OnlineAmong(n) = offers
          /\ \A k \in 0..(n - 1) : OnlineAmong(k) < offers
          /\ notified' = [u \in Users |->
               IF u \in online /\ \E i \in 1..n : waiting[i] = u THEN "yes" ELSE notified[u]]
    BY Zenon DEF notifyQueuedUsers, Notified
  <1>2. offers > 0 /\ UNCHANGED lost
    BY DEF notifyQueuedUsers, Notified, counters
  <1>3. /\ FreeSlots \in Nat /\ Cardinality(Notified) \in Nat /\ IsFiniteSet(Notified)
        /\ FreeSlots <= Slots + lost
    BY FreeSlotsBound, FS_CardinalityType DEF LimitInv
  <1>4. n \in Nat /\ Len(waiting) \in Nat /\ \A i \in 1..n : waiting[i] \in Users
    BY DEF OnceInv, QueueTypes
  <1>. DEFINE On == {i \in 1..n : waiting[i] \in online}
              told == {waiting[i] : i \in On}
  <1>5. OnlineAmong(n) \in Nat /\ OnlineAmong(n) <= offers
    <2>1. CASE n = 0
      BY <1>2, <1>3, <1>4, <2>1, OnlineAmongGrows
    <2>2. CASE n # 0
      <3>1. OnlineAmong(n) \in Nat /\ OnlineAmong(n) <= OnlineAmong(n - 1) + 1
        BY <1>4, <2>2, OnlineAmongGrows
      <3>2. n - 1 \in Nat /\ n - 1 \in 0..(n - 1)
        BY <1>4, <2>2
      <3>3. OnlineAmong(n - 1) < offers /\ OnlineAmong(n - 1) \in Nat
        BY <1>1, <3>2, OnlineAmongGrows
      <3>. QED BY <1>3, <3>1, <3>3
    <2>. QED BY <2>1, <2>2
  <1>6. /\ IsFiniteSet(told) /\ Cardinality(told) \in Nat
        /\ Cardinality(told) <= OnlineAmong(n)
    <2>1. IsFiniteSet(On)
      <3>1. IsFiniteSet(1..n) /\ On \in SUBSET (1..n)
        BY <1>4, FS_Interval
      <3>. HIDE DEF On
      <3>. QED BY <3>1, FS_Subset
    <2>2. [i \in On |-> waiting[i]] \in Surjection(On, told)
      BY DEF Surjection
    <2>. HIDE DEF On, told
    <2>3. IsFiniteSet(told) /\ Cardinality(told) <= Cardinality(On)
      BY <2>1, <2>2, FS_Surjection
    <2>. QED BY <2>3, FS_CardinalityType DEF OnlineAmong, On
  <1>7. Notified' = Notified \cup told
    <2>1. told \subseteq Users
      BY <1>4
    <2>2. \A u : u \in told <=> u \in online /\ \E i \in 1..n : waiting[i] = u
      OBVIOUS
    <2>3. notified' = [u \in Users |-> IF u \in told THEN "yes" ELSE notified[u]]
      BY <1>1, <2>2
    <2>. HIDE DEF told
    <2>. QED BY <2>1, <2>3 DEF Notified
  <1>. HIDE DEF told
  <1>8. /\ IsFiniteSet(Notified \cup told)
        /\ Cardinality(Notified \cup told) <= Cardinality(Notified) + Cardinality(told)
        /\ Cardinality(Notified \cup told) \in Nat
    <2>1. /\ IsFiniteSet(Notified \cup told)
          /\ Cardinality(Notified \cup told) =
               Cardinality(Notified) + Cardinality(told) - Cardinality(Notified \cap told)
      BY <1>3, <1>6, FS_Union
    <2>2. Cardinality(Notified \cap told) \in Nat
      BY <1>3, FS_Subset, FS_CardinalityType
    <2>3. Cardinality(Notified \cup told) \in Nat
      BY <2>1, FS_CardinalityType
    <2>. QED BY <1>3, <1>6, <2>1, <2>2, <2>3
  <1>9. Cardinality(Notified') <= FreeSlots
    BY <1>3, <1>5, <1>6, <1>7, <1>8
  <1>. QED BY <1>2, <1>3, <1>7, <1>8, <1>9, SlotsAssumption
       DEF LimitInv, NotifiedLimit, IInv, ConnTypes

LEMMA LimitConn ==
  ASSUME IInv, OnceInv, LimitInv, NEW c \in Conns, ConnStep(c)
  PROVE  LimitInv'
  <1>. USE DEF ConnStep, conns, lists, counters, queue
  <1>1. lost' = lost \/ lost' = lost + 1
    BY DEF addConnection, Ban, SeeFreeSlots, SeeQueue, prepareFile, SeeAutoSlot,
             Decide, DecideExtra, Refuse, LeaveQueue, Answer, FilterFails, Send,
           TransmitDone, ListUpload, CountSlot, CountTogether, Failed, SetSlotType
  <1>2. notified' = notified \/ notified' = [notified EXCEPT ![UserOf[c]] = "no"]
    BY DEF addConnection, Ban, SeeFreeSlots, SeeQueue, prepareFile, SeeAutoSlot,
             Decide, DecideExtra, Refuse, LeaveQueue, Answer, FilterFails, Send,
           TransmitDone, ListUpload, CountSlot, CountTogether, Failed, SetSlotType
  <1>3. Notified' \subseteq Notified
    BY <1>2 DEF Notified, OnceInv, QueueTypes
  <1>4. lost' \in Nat /\ lost' >= lost
    BY <1>1 DEF IInv, ConnTypes
  <1>. QED BY <1>3, <1>4, LimitShrinks

LEMMA LimitTimed ==
  ASSUME IInv, OnceInv, LimitInv,
         Minute \/ (\E u \in Users : UserStep(u)) \/ UNCHANGED vars
  PROVE  LimitInv'
  <1>. USE DEF OnceInv, QueueTypes, conns, lists, counters, queue
  <1>1. lost' = lost
    BY DEF Minute, UserStep, Elapse, UserConnected, UserDisconnected, vars
  <1>2. Notified' \subseteq Notified
    BY DEF Minute, UserStep, Elapse, UserConnected, UserDisconnected, vars, Notified, Late
  <1>3. lost' \in Nat /\ lost' >= lost
    BY <1>1 DEF IInv, ConnTypes
  <1>. QED BY <1>2, <1>3, LimitShrinks

(* However grants, returns and lost users follow one another, as many      *)
(* users are told of a slot as there are slots, and one more for each      *)
(* change of the counters that was lost (notifyQueuedUsers).               *)
THEOREM LimitCorrect == Spec => []NotifiedLimit
  <1>1. Init => LimitInv
    <2>. SUFFICES ASSUME Init PROVE LimitInv
      OBVIOUS
    <2>1. Notified = {} /\ lost = 0
      BY DEF Init, Notified
    <2>. QED BY <2>1, FS_EmptySet, SlotsAssumption DEF LimitInv, NotifiedLimit
  <1>2. IInv /\ OnceInv /\ LimitInv /\ [Next]_vars => LimitInv'
    BY LimitConn, LimitCalls, LimitTimed DEF Next
  <1>3. LimitInv => NotifiedLimit
    BY DEF LimitInv
  <1>. QED BY <1>1, <1>2, <1>3, InvCorrect, OnceCorrect, PTL DEF Spec
=============================================================================
