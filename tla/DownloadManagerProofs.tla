------------------------ MODULE DownloadManagerProofs ------------------------
(***************************************************************************)
(* What is proved of DownloadManager, for any number of connections,       *)
(* downloads, slots and waiting UPDATED tasks: its type, that other        *)
(* threads find only live connections in its lists, and that the limit of  *)
(* slots is exceeded only by a connection that another one overtook.       *)
(*                                                                         *)
(* OnlyLive is inductive.  SlotLimit is about one step, which relies on    *)
(* what was tested some steps before: SeenOpen carries it there.           *)
(*                                                                         *)
(* Last, what a connection that is woken once can rely on: its answers     *)
(* find it waiting (AnswersCorrect), and it would be woken once if no      *)
(* second UPDATED were queued while one waits (WokenOnce), since one that  *)
(* waits finds its connection idle (WokenIdle).                            *)
(***************************************************************************)
EXTENDS DownloadManager, FiniteSetTheorems, TLAPS

\* What isStartDownload found when it let the connection pass.
SeenOpen ==
  \A c \in Conns :
    state[c] \in {"counted", "got"} /\ Slots # 0 => seen[c] < Slots + ExtraSlots

LEMMA StartOpen ==
  ASSUME NEW n \in Nat, NEW fast \in BOOLEAN, NEW prio \in Prios,
         isStartDownload(n, fast, prio), Slots # 0
  PROVE  n < Slots + ExtraSlots
  <1>1. CASE fast \/ (Slots # 0 /\ n >= Slots)
    BY <1>1 DEF isStartDownload
  <1>2. CASE ~(fast \/ (Slots # 0 /\ n >= Slots))
    BY <1>2, SlotsAssumption
  <1>. QED BY <1>1, <1>2

LEMMA ListedCounts ==
  ASSUME TypeOK
  PROVE  /\ IsFiniteSet(listed) /\ Cardinality(listed) \in Nat
         /\ \A x : /\ IsFiniteSet(listed \cup {x})
                   /\ Cardinality(listed \cup {x}) <= Cardinality(listed) + 1
  <1>1. IsFiniteSet(Conns \X Downloads)
    BY FiniteAssumption, FS_Product
  <1>2. IsFiniteSet(listed)
    BY <1>1, FS_Subset DEF TypeOK
  <1>3. Cardinality(listed) \in Nat
    BY <1>2, FS_CardinalityType
  <1>4. ASSUME NEW x
        PROVE  IsFiniteSet(listed \cup {x}) /\ Cardinality(listed \cup {x}) <= Cardinality(listed) + 1
    <2>1. ASSUME x \in listed PROVE listed \cup {x} = listed
      BY <2>1
    <2>2. Cardinality(listed) <= Cardinality(listed) + 1
      BY <1>3
    <2>3. ASSUME x \notin listed
          PROVE  IsFiniteSet(listed \cup {x}) /\ Cardinality(listed \cup {x}) = Cardinality(listed) + 1
      BY <1>2, <2>3, FS_AddElement
    <2>4. CASE x \in listed
      BY <1>2, <2>1, <2>2, <2>4, Zenon
    <2>5. CASE x \notin listed
      BY <1>3, <2>3, <2>5
    <2>. QED BY <2>4, <2>5
  <1>. QED BY <1>2, <1>3, <1>4

-----------------------------------------------------------------------------
(* The type.                                                               *)

LEMMA CheckTypes ==
  ASSUME TypeOK, NEW c \in Conns, CheckStep(c)
  PROVE  TypeOK'
  <1>1. CASE checkDownloads(c)
    <2>1. PICK fast \in BOOLEAN, prio \in Prios :
            IF isStartDownload(Cardinality(listed), fast, prio)
            THEN /\ GoTo(c, "counted")
                 /\ seen' = [seen EXCEPT ![c] = Cardinality(listed)]
                 /\ UNCHANGED <<cur, gets, updates>>
            ELSE removeConnection(c) /\ UNCHANGED seen
      BY <1>1 DEF checkDownloads
    <2>2. UNCHANGED <<lists, waking, stray>>
      BY <1>1 DEF checkDownloads
    <2>3. CASE isStartDownload(Cardinality(listed), fast, prio)
      BY <2>1, <2>2, <2>3, ListedCounts DEF GoTo, TypeOK, lists, waking, AtRest, Busy
    <2>4. CASE ~isStartDownload(Cardinality(listed), fast, prio)
      BY <2>1, <2>2, <2>4, SlotsAssumption
        DEF removeConnection, GoTo, TypeOK, lists, waking, AtRest, Busy
    <2>. QED BY <2>3, <2>4
  <1>2. CASE getDownload(c)
    BY <1>2, NoDownloadAssumption DEF getDownload, GoTo, TypeOK, lists, waking, AtRest, Busy
  <1>3. CASE Request(c)
    BY <1>3 DEF Request, GoTo, TypeOK, waking, AtRest, Busy
  <1>4. CASE MissDownload(c)
    BY <1>4 DEF MissDownload, GoTo, TypeOK, lists, waking, AtRest, Busy
  <1>5. CASE BecomeIdle(c)
    BY <1>5 DEF BecomeIdle, GoTo, TypeOK, waking, AtRest, Busy
  <1>. QED BY <1>1, <1>2, <1>3, <1>4, <1>5 DEF CheckStep

LEMMA FailTypes ==
  ASSUME TypeOK, NEW c \in Conns, failDownload(c), idlers' \subseteq idlers,
         UNCHANGED <<seen, waking, stray>>
  PROVE  TypeOK'
  BY SlotsAssumption
    DEF failDownload, removeDownload, removeConnection, GoTo, TypeOK, waking, AtRest, Busy

LEMMA PeerTypes ==
  ASSUME TypeOK, NEW c \in Conns, PeerStep(c)
  PROVE  TypeOK'
  <1>1. CASE addConnection(c)
    BY <1>1 DEF addConnection, GoTo, TypeOK, lists, waking, AtRest, Busy
  <1>2. CASE SND(c)
    <2>1. CASE failDownload(c)
      BY <1>2, <2>1, FailTypes DEF SND
    <2>2. CASE GoTo(c, "running") /\ Answered(c) /\ UNCHANGED <<cur, updates, listed>>
      BY <1>2, <2>2 DEF SND, Answered, GoTo, TypeOK, waking, AtRest, Busy
    <2>. QED BY <1>2, <2>1, <2>2 DEF SND
  <1>3. CASE noSlots(c)
    BY <1>3, FailTypes DEF noSlots
  <1>4. CASE fileNotAvailable(c)
    BY <1>4 DEF fileNotAvailable, removeDownload, Answered, GoTo, TypeOK, waking, AtRest, Busy
  <1>5. CASE BadState(c)
    BY <1>5 DEF BadState, Answered, TypeOK, lists, waking, AtRest, Busy
  <1>6. CASE fireData(c)
    BY <1>6, FailTypes DEF fireData
  <1>7. CASE endData(c)
    BY <1>7 DEF endData, removeDownload, GoTo, TypeOK, waking, AtRest, Busy
  <1>8. CASE onFailed(c)
    BY <1>8, FailTypes DEF onFailed, remove_idlers
  <1>9. CASE getDownloadConnection(c)
    BY <1>9 DEF getDownloadConnection, TypeOK, transfer, lists
  <1>. QED BY <1>1, <1>2, <1>3, <1>4, <1>5, <1>6, <1>7, <1>8, <1>9 DEF PeerStep

LEMMA WakeTypes ==
  ASSUME TypeOK, NEW c \in Conns, Updated(c) \/ checkIdle(c)
  PROVE  TypeOK'
  <1>1. CASE Updated(c)
    BY <1>1, SlotsAssumption DEF Updated, remove_idlers, GoTo, TypeOK, waking, AtRest, Busy
  <1>2. CASE checkIdle(c)
    BY <1>2, SlotsAssumption DEF checkIdle, TypeOK, transfer, lists
  <1>. QED BY <1>1, <1>2

(* DownloadManager and the request list it shares with ConnectionManager   *)
(* keep their types, and a connection that requests or transfers has a     *)
(* download.                                                               *)
THEOREM TypeCorrect == Spec => []TypeOK
  <1>1. Init => TypeOK
    BY SlotsAssumption DEF Init, TypeOK, AtRest, Busy
  <1>2. TypeOK /\ [Next]_vars => TypeOK'
    <2>. SUFFICES ASSUME TypeOK, [Next]_vars PROVE TypeOK'
      OBVIOUS
    <2>1. CASE Second
      BY <2>1 DEF Second, TypeOK, transfer, lists
    <2>2. ASSUME NEW c \in Conns, ConnStep(c) PROVE TypeOK'
      BY <2>2, CheckTypes, PeerTypes, WakeTypes DEF ConnStep
    <2>3. CASE UNCHANGED vars
      BY <2>3 DEF vars, transfer, lists, waking, TypeOK
    <2>. QED BY <2>1, <2>2, <2>3 DEF Next
  <1>. QED BY <1>1, <1>2, PTL DEF Spec

-----------------------------------------------------------------------------
(* The lists.                                                              *)

LEMMA CheckLive ==
  ASSUME TypeOK, OnlyLive, NEW c \in Conns, CheckStep(c)
  PROVE  OnlyLive'
  <1>1. CASE checkDownloads(c)
    <2>1. \E p \in {"counted", "none"} : GoTo(c, p)
      BY <1>1 DEF checkDownloads, removeConnection
    <2>2. UNCHANGED <<lists, stray>> /\ \A x \in Conns \ {c} : cur'[x] = cur[x]
      BY <1>1 DEF checkDownloads, removeConnection, TypeOK
    <2>. QED BY <1>1, <2>1, <2>2 DEF checkDownloads, GoTo, TypeOK, OnlyLive, lists, Busy
  <1>2. CASE getDownload(c)
    BY <1>2 DEF getDownload, GoTo, TypeOK, OnlyLive, lists, Busy
  <1>3. CASE Request(c)
    BY <1>3 DEF Request, GoTo, TypeOK, OnlyLive, Busy
  <1>4. CASE MissDownload(c)
    BY <1>4 DEF MissDownload, GoTo, TypeOK, OnlyLive, lists, Busy
  <1>5. CASE BecomeIdle(c)
    BY <1>5 DEF BecomeIdle, GoTo, TypeOK, OnlyLive, Busy
  <1>. QED BY <1>1, <1>2, <1>3, <1>4, <1>5 DEF CheckStep

LEMMA FailLive ==
  ASSUME TypeOK, OnlyLive, NEW c \in Conns, failDownload(c),
         idlers' = idlers \ {c}, UNCHANGED stray
  PROVE  OnlyLive'
  BY DEF failDownload, removeDownload, removeConnection, GoTo, TypeOK, OnlyLive, Busy

LEMMA BusyNotIdle ==
  ASSUME OnlyLive, NEW c \in Conns, state[c] \in Busy
  PROVE  idlers = idlers \ {c}
  BY DEF OnlyLive, Busy

LEMMA PeerLive ==
  ASSUME TypeOK, OnlyLive, NEW c \in Conns, PeerStep(c)
  PROVE  OnlyLive'
  <1>1. CASE addConnection(c)
    BY <1>1 DEF addConnection, GoTo, TypeOK, OnlyLive, lists, Busy
  <1>2. CASE SND(c)
    <2>1. CASE failDownload(c)
      BY <1>2, <2>1, FailLive, BusyNotIdle DEF SND, Busy
    <2>2. CASE GoTo(c, "running") /\ Answered(c) /\ UNCHANGED <<cur, updates, listed>>
      BY <1>2, <2>2 DEF SND, GoTo, TypeOK, OnlyLive, Busy
    <2>. QED BY <1>2, <2>1, <2>2 DEF SND
  <1>3. CASE noSlots(c)
    BY <1>3, FailLive, BusyNotIdle DEF noSlots, Busy
  <1>4. CASE fileNotAvailable(c)
    BY <1>4 DEF fileNotAvailable, removeDownload, GoTo, TypeOK, OnlyLive, Busy
  <1>5. CASE BadState(c)
    BY <1>5 DEF BadState, OnlyLive, lists
  <1>6. CASE fireData(c)
    BY <1>6, FailLive, BusyNotIdle DEF fireData, Busy
  <1>7. CASE endData(c)
    BY <1>7 DEF endData, removeDownload, GoTo, TypeOK, OnlyLive, Busy
  <1>8. CASE onFailed(c)
    BY <1>8, FailLive DEF onFailed, remove_idlers
  <1>9. CASE getDownloadConnection(c)
    BY <1>9 DEF getDownloadConnection, OnlyLive, transfer, lists
  <1>. QED BY <1>1, <1>2, <1>3, <1>4, <1>5, <1>6, <1>7, <1>8, <1>9 DEF PeerStep

LEMMA WakeLive ==
  ASSUME TypeOK, OnlyLive, NEW c \in Conns, Updated(c) \/ checkIdle(c)
  PROVE  OnlyLive'
  <1>1. CASE Updated(c)
    BY <1>1 DEF Updated, remove_idlers, GoTo, TypeOK, OnlyLive, Busy, AtRest
  <1>2. CASE checkIdle(c)
    BY <1>2 DEF checkIdle, OnlyLive, transfer, lists
  <1>. QED BY <1>1, <1>2

(* A thread that goes through g_idlers or g_download_map calls nobody who  *)
(* is gone, and every slot is that of a transfer, unless its connection    *)
(* took an UPDATED while it was busy.                                      *)
THEOREM LiveCorrect == Spec => []OnlyLive
  <1>1. Init => OnlyLive
    BY DEF Init, OnlyLive
  <1>2. TypeOK /\ OnlyLive /\ [Next]_vars => OnlyLive'
    <2>. SUFFICES ASSUME TypeOK, OnlyLive, [Next]_vars PROVE OnlyLive'
      OBVIOUS
    <2>1. CASE Second
      BY <2>1 DEF Second, OnlyLive, transfer, lists
    <2>2. ASSUME NEW c \in Conns, ConnStep(c) PROVE OnlyLive'
      BY <2>2, CheckLive, PeerLive, WakeLive DEF ConnStep
    <2>3. CASE UNCHANGED vars
      BY <2>3 DEF vars, transfer, lists, OnlyLive
    <2>. QED BY <2>1, <2>2, <2>3 DEF Next
  <1>. QED BY <1>1, <1>2, TypeCorrect, PTL DEF Spec

-----------------------------------------------------------------------------
(* The slots.                                                              *)

(* Whoever passes the test is recorded with a count below the limit, and   *)
(* keeps it until its download is listed.                                  *)
LEMMA ConnOpen ==
  ASSUME TypeOK, SeenOpen, NEW c \in Conns, ConnStep(c)
  PROVE  SeenOpen'
  <1>1. CASE checkDownloads(c)
    <2>1. PICK fast \in BOOLEAN, prio \in Prios :
            IF isStartDownload(Cardinality(listed), fast, prio)
            THEN /\ GoTo(c, "counted")
                 /\ seen' = [seen EXCEPT ![c] = Cardinality(listed)]
            ELSE removeConnection(c) /\ UNCHANGED seen
      BY <1>1 DEF checkDownloads
    <2>2. CASE isStartDownload(Cardinality(listed), fast, prio)
      <3>1. Slots # 0 => Cardinality(listed) < Slots + ExtraSlots
        BY <2>2, StartOpen, ListedCounts
      <3>. QED BY <2>1, <2>2, <3>1 DEF GoTo, TypeOK, SeenOpen
    <2>3. CASE ~isStartDownload(Cardinality(listed), fast, prio)
      BY <2>1, <2>3 DEF removeConnection, GoTo, TypeOK, SeenOpen
    <2>. QED BY <2>2, <2>3
  <1>2. CASE getDownload(c)
    BY <1>2 DEF getDownload, GoTo, TypeOK, SeenOpen
  <1>3. CASE Request(c) \/ MissDownload(c)
    BY <1>3 DEF Request, MissDownload, GoTo, TypeOK, SeenOpen
  <1>4. ASSUME NEW s, s \notin {"counted", "got"}, GoTo(c, s) \/ UNCHANGED state, UNCHANGED seen
        PROVE  SeenOpen'
    BY <1>4 DEF GoTo, TypeOK, SeenOpen
  <1>5. CASE BecomeIdle(c) \/ addConnection(c) \/ fileNotAvailable(c) \/ BadState(c)
    BY <1>4, <1>5 DEF BecomeIdle, addConnection, fileNotAvailable, BadState
  <1>6. CASE noSlots(c) \/ fireData(c) \/ onFailed(c)
    BY <1>4, <1>6 DEF noSlots, fireData, onFailed, failDownload, removeConnection
  <1>7. CASE SND(c) \/ endData(c)
    BY <1>4, <1>7 DEF SND, endData, failDownload, removeConnection
  <1>8. CASE getDownloadConnection(c) \/ Updated(c) \/ checkIdle(c)
    BY <1>4, <1>8 DEF getDownloadConnection, Updated, checkIdle, transfer
  <1>. QED BY <1>1, <1>2, <1>3, <1>5, <1>6, <1>7, <1>8
        DEF ConnStep, CheckStep, PeerStep

LEMMA OpenCorrect == Spec => []SeenOpen
  <1>1. Init => SeenOpen
    BY DEF Init, SeenOpen
  <1>2. TypeOK /\ SeenOpen /\ [Next]_vars => SeenOpen'
    <2>. SUFFICES ASSUME TypeOK, SeenOpen, [Next]_vars PROVE SeenOpen'
      OBVIOUS
    <2>1. CASE Second
      BY <2>1 DEF Second, SeenOpen, transfer
    <2>2. CASE UNCHANGED vars
      BY <2>2 DEF vars, transfer, SeenOpen
    <2>. QED BY <2>1, <2>2, ConnOpen DEF Next
  <1>. QED BY <1>1, <1>2, TypeCorrect, PTL DEF Spec

(* Only Request makes a connection that has its download wait for SND.     *)
LEMMA RequestLists ==
  ASSUME TypeOK, [Next]_vars, NEW c \in Conns, state[c] = "got", state'[c] = "snd"
  PROVE  listed' = listed \cup {<<c, cur[c]>>}
  <1>1. ASSUME NEW d \in Conns, ConnStep(d) PROVE d = c /\ Request(c)
    <2>1. \A s : GoTo(d, s) /\ d # c => state'[c] = "got"
      BY DEF GoTo, TypeOK
    <2>2. CASE CheckStep(d)
      BY <2>1, <2>2 DEF CheckStep, checkDownloads, removeConnection, getDownload,
        Request, MissDownload, BecomeIdle, GoTo, TypeOK
    <2>3. CASE PeerStep(d)
      BY <2>1, <2>3 DEF PeerStep, addConnection, SND, noSlots, fileNotAvailable, BadState, fireData,
        endData, onFailed, getDownloadConnection, failDownload, removeConnection, transfer, AtRest, Busy
    <2>4. CASE Updated(d) \/ checkIdle(d)
      BY <2>1, <2>4 DEF Updated, checkIdle, transfer, AtRest, Busy
    <2>. QED BY <1>1, <2>2, <2>3, <2>4 DEF ConnStep
  <1>2. state' # state
    OBVIOUS
  <1>3. ~Second /\ ~UNCHANGED vars
    BY <1>2 DEF Second, vars, transfer
  <1>. QED BY <1>1, <1>3 DEF Next, Request

(* A download beyond the slots and the extra slots is listed only when     *)
(* another one was listed since its connection was let pass.               *)
THEOREM SlotsCorrect == Spec => SlotLimit
  <1>1. ASSUME TypeOK, SeenOpen, [Next]_vars, NEW c \in Conns, state[c] = "got", state'[c] = "snd",
               Slots # 0, Cardinality(listed) <= seen[c]
        PROVE  Cardinality(listed') <= Slots + ExtraSlots
    <2>1. Cardinality(listed') <= Cardinality(listed) + 1
      BY <1>1, RequestLists, ListedCounts
    <2>2. seen[c] < Slots + ExtraSlots
      BY <1>1 DEF SeenOpen
    <2>3. Cardinality(listed') \in Nat /\ Cardinality(listed) \in Nat /\ seen[c] \in Nat
      <3>1. IsFiniteSet(listed')
        BY <1>1, RequestLists, ListedCounts
      <3>. QED BY <1>1, <3>1, ListedCounts, FS_CardinalityType DEF TypeOK
    <2>. QED BY <1>1, <2>1, <2>2, <2>3, SlotsAssumption
  <1>2. TypeOK /\ SeenOpen /\ [Next]_vars =>
          \A c \in Conns :
            state[c] = "got" /\ state'[c] = "snd" /\ Slots # 0 /\ Cardinality(listed) <= seen[c]
              => Cardinality(listed') <= Slots + ExtraSlots
    BY <1>1
  <1>. QED BY <1>2, TypeCorrect, OpenCorrect, PTL DEF Spec, SlotLimit

-----------------------------------------------------------------------------
(* Answers, and connections that are woken once.                           *)

(* The steps that end a connection, and those that keep what it waits for. *)
LEMMA FailAwaits ==
  ASSUME TypeOK, AnswersAwaited, NEW c \in Conns, removeConnection(c), UNCHANGED stray
  PROVE  AnswersAwaited'
  BY DEF removeConnection, GoTo, TypeOK, AnswersAwaited

LEMMA CheckAwaits ==
  ASSUME TypeOK, AnswersAwaited, NEW c \in Conns, CheckStep(c)
  PROVE  AnswersAwaited'
  <1>1. CASE checkDownloads(c)
    <2>1. removeConnection(c) \/ (GoTo(c, "counted") /\ UNCHANGED gets)
      BY <1>1 DEF checkDownloads
    <2>2. UNCHANGED stray /\ state[c] = "check"
      BY <1>1 DEF checkDownloads
    <2>. QED BY <2>1, <2>2, FailAwaits DEF GoTo, TypeOK, AnswersAwaited
  <1>2. CASE getDownload(c)
    BY <1>2 DEF getDownload, GoTo, TypeOK, AnswersAwaited
  <1>3. CASE Request(c)
    BY <1>3 DEF Request, GoTo, TypeOK, AnswersAwaited
  <1>4. CASE MissDownload(c)
    BY <1>4 DEF MissDownload, GoTo, TypeOK, AnswersAwaited
  <1>5. CASE BecomeIdle(c)
    BY <1>5 DEF BecomeIdle, GoTo, TypeOK, AnswersAwaited
  <1>. QED BY <1>1, <1>2, <1>3, <1>4, <1>5 DEF CheckStep

LEMMA PeerAwaits ==
  ASSUME TypeOK, AnswersAwaited, NEW c \in Conns, PeerStep(c)
  PROVE  AnswersAwaited'
  <1>1. CASE addConnection(c)
    BY <1>1 DEF addConnection, GoTo, TypeOK, AnswersAwaited
  <1>2. CASE SND(c)
    <2>1. CASE failDownload(c)
      BY <1>2, <2>1, FailAwaits DEF SND, failDownload
    <2>2. CASE GoTo(c, "running") /\ Answered(c) /\ UNCHANGED <<cur, updates, listed>>
      BY <1>2, <2>2 DEF SND, Answered, GoTo, TypeOK, AnswersAwaited
    <2>. QED BY <1>2, <2>1, <2>2 DEF SND
  <1>3. CASE noSlots(c) \/ fireData(c) \/ onFailed(c)
    BY <1>3, FailAwaits DEF noSlots, fireData, onFailed, failDownload
  <1>4. CASE fileNotAvailable(c)
    BY <1>4 DEF fileNotAvailable, Answered, GoTo, TypeOK, AnswersAwaited
  <1>5. CASE BadState(c)
    BY <1>5 DEF BadState, Answered, TypeOK, AnswersAwaited
  <1>6. CASE endData(c)
    BY <1>6 DEF endData, GoTo, TypeOK, AnswersAwaited
  <1>7. CASE getDownloadConnection(c)
    BY <1>7 DEF getDownloadConnection, transfer, AnswersAwaited
  <1>. QED BY <1>1, <1>2, <1>3, <1>4, <1>5, <1>6, <1>7 DEF PeerStep

LEMMA WakeAwaits ==
  ASSUME TypeOK, AnswersAwaited, NEW c \in Conns, Updated(c) \/ checkIdle(c)
  PROVE  AnswersAwaited'
  <1>1. CASE Updated(c)
    BY <1>1 DEF Updated, GoTo, TypeOK, AnswersAwaited
  <1>2. CASE checkIdle(c)
    BY <1>2 DEF checkIdle, transfer, AnswersAwaited
  <1>. QED BY <1>1, <1>2

(* An answer of the peer finds the connection waiting for it, as           *)
(* DownloadManager.cpp:433 asserts, and no request stays without an owner: *)
(* for any number of connections that no UPDATED met busy.                 *)
THEOREM AnswersCorrect == Spec => []AnswersAwaited
  <1>1. Init => AnswersAwaited
    BY DEF Init, AnswersAwaited
  <1>2. TypeOK /\ AnswersAwaited /\ [Next]_vars => AnswersAwaited'
    <2>. SUFFICES ASSUME TypeOK, AnswersAwaited, [Next]_vars PROVE AnswersAwaited'
      OBVIOUS
    <2>1. CASE Second
      BY <2>1 DEF Second, AnswersAwaited, transfer
    <2>2. ASSUME NEW c \in Conns, ConnStep(c) PROVE AnswersAwaited'
      BY <2>2, CheckAwaits, PeerAwaits, WakeAwaits DEF ConnStep
    <2>3. CASE UNCHANGED vars
      BY <2>3 DEF vars, transfer, AnswersAwaited
    <2>. QED BY <2>1, <2>2, <2>3 DEF Next
  <1>. QED BY <1>1, <1>2, TypeCorrect, PTL DEF Spec

(* An UPDATED that waits finds its connection idle, as long as there are   *)
(* not two of them.                                                        *)
WokenIdle == \A c \in Conns : updates[c] > 0 => c \in idlers

WakeInv == WokenIdle /\ Undisturbed

LEMMA WakeStep ==
  ASSUME MaxUpdates <= 1, TypeOK, OnlyLive, WakeInv, NEW c \in Conns, ConnStep(c)
  PROVE  WakeInv'
  <1>. USE DEF WakeInv, WokenIdle, Undisturbed
  <1>1. CASE Updated(c)
    <2>1. updates[c] = 1 /\ updates' = [updates EXCEPT ![c] = 0]
      <3>1. updates[c] \in 0..MaxUpdates /\ updates[c] > 0
        BY <1>1 DEF Updated, TypeOK
      <3>2. updates[c] = 1
        BY <3>1, SlotsAssumption
      <3>3. updates' = [updates EXCEPT ![c] = updates[c] - 1]
        BY <1>1 DEF Updated
      <3>. QED BY <3>2, <3>3
    <2>2. c \in idlers /\ state[c] = "idle"
      BY <2>1 DEF OnlyLive
    <2>3. stray' = stray /\ idlers' = idlers \ {c}
      BY <1>1, <2>2 DEF Updated, remove_idlers
    <2>. QED BY <2>1, <2>3 DEF TypeOK
  <1>2. CASE checkIdle(c)
    BY <1>2 DEF checkIdle, lists, TypeOK
  <1>3. ASSUME removeConnection(c), idlers \ {c} \subseteq idlers', UNCHANGED stray PROVE WakeInv'
    BY <1>3 DEF removeConnection, TypeOK
  <1>4. CASE CheckStep(c)
    <2>1. UNCHANGED stray /\ idlers \subseteq idlers' /\ (UNCHANGED updates \/ removeConnection(c))
      BY <1>4 DEF CheckStep, checkDownloads, getDownload, Request, MissDownload, BecomeIdle, lists
    <2>. QED BY <1>3, <2>1
  <1>5. CASE PeerStep(c)
    <2>1. CASE onFailed(c)
      BY <1>3, <2>1 DEF onFailed, remove_idlers, failDownload
    <2>2. CASE ~onFailed(c)
      <3>1. UNCHANGED <<stray, idlers>> /\ (UNCHANGED updates \/ removeConnection(c))
        BY <1>5, <2>2
        DEF PeerStep, addConnection, SND, noSlots, fileNotAvailable, BadState, fireData, endData,
            getDownloadConnection, failDownload, lists
      <3>. QED BY <1>3, <3>1
    <2>. QED BY <2>1, <2>2
  <1>. QED BY <1>1, <1>2, <1>4, <1>5 DEF ConnStep

(* If checkIdle queued no second UPDATED while one waits, none would meet  *)
(* its connection busy: then every listed download is that of a transfer   *)
(* (LiveCorrect) and every answer is waited for (AnswersCorrect), without  *)
(* exception.                                                              *)
THEOREM WokenOnce ==
  ASSUME MaxUpdates <= 1
  PROVE  Spec => []Undisturbed
  <1>1. Init => WakeInv
    BY DEF Init, WakeInv, WokenIdle, Undisturbed
  <1>2. TypeOK /\ OnlyLive /\ WakeInv /\ [Next]_vars => WakeInv'
    <2>. SUFFICES ASSUME TypeOK, OnlyLive, WakeInv, [Next]_vars PROVE WakeInv'
      OBVIOUS
    <2>1. CASE Second
      BY <2>1 DEF Second, WakeInv, WokenIdle, Undisturbed, lists
    <2>2. ASSUME NEW c \in Conns, ConnStep(c) PROVE WakeInv'
      BY <2>2, WakeStep
    <2>3. CASE UNCHANGED vars
      BY <2>3 DEF vars, lists, WakeInv, WokenIdle, Undisturbed
    <2>. QED BY <2>1, <2>2, <2>3 DEF Next
  <1>3. WakeInv => Undisturbed
    BY DEF WakeInv
  <1>. QED BY <1>1, <1>2, <1>3, TypeCorrect, LiveCorrect, PTL DEF Spec
=============================================================================
