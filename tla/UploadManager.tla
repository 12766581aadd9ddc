--------------------------- MODULE UploadManager ---------------------------
(***************************************************************************)
(* UploadManager (src/client/UploadManager.cpp): who may download from us. *)
(* Each connection is run by the thread of its socket, which asks for a    *)
(* slot in prepareFile; a user without one waits in m_slotQueue, is told   *)
(* by the timer thread when a slot comes free and then has 90 seconds to   *)
(* come back.                                                              *)
(*                                                                         *)
(* prepareFile takes its locks one after the other and holds none of them  *)
(* from its first test to its last change: it is one action per critical   *)
(* section here, and one per look at the counters of used slots, which     *)
(* have no lock at all: of two threads that add to one at the same time    *)
(* one may do so in vain.                                                  *)
(*                                                                         *)
(* After prepareFile has listed an upload its compression may fail to      *)
(* start.  on(AdcCommand::GET) then returns with the upload still listed,  *)
(* the connection in the state for the next request: that makes a new      *)
(* upload, and the connection forgets the old one, which nobody takes out  *)
(* of the list any more, not even when the connection is deleted (stale).  *)
(*                                                                         *)
(* What is asked for, and of whom, is left to the answers the slots depend *)
(* on, free choices here: has he a reserved slot (g_reservedSlots, or we   *)
(* download from him), is he a favourite (or let in by IpGrant), is it     *)
(* time for an automatic slot, may the file use a minislot, is he an       *)
(* operator, is it a part of an unfinished file.  A user has one address   *)
(* and nick, so hasUpload finds his uploads alone.  g_delayUploads, the    *)
(* chunks that are over and only serve the log, is left out.               *)
(***************************************************************************)
EXTENDS Integers, Sequences, FiniteSets

CONSTANTS
  Users,        \* those who want to download from us
  Conns,        \* their connections
  UserOf,       \* UserConnection::getUser
  Slots,        \* getSlots()
  AutoSlots,    \* SETTING(AUTO_SLOTS)
  ExtraSlots,   \* SETTING(EXTRA_SLOTS), the minislots
  PartialSlots, \* SETTING(EXTRA_PARTIAL_SLOTS)
  MaxLost,      \* bound: how often two threads may change the counters at once
  MaxErrors     \* bound: how often a ZFilter may fail for one connection

ASSUME ConnsAssumption == IsFiniteSet(Conns)
ASSUME UserOfAssumption == UserOf \in [Conns -> Users]
ASSUME SlotsAssumption ==
  /\ Slots \in Nat /\ AutoSlots \in Nat /\ ExtraSlots \in Nat
  /\ PartialSlots \in Nat /\ MaxLost \in Nat
ASSUME MaxErrorsAssumption == MaxErrors \in Nat

VARIABLES
  phase,        \* of a connection: its state and how far prepareFile is
  slotType,     \* UserConnection::getSlotType
  wanted,       \* the slotType prepareFile decided on
  entitled,     \* the connections that may have a standard slot
  used,         \* those whose getUpload is set, which nothing ever clears
  uploads,      \* g_uploads: the connections whose last upload is in it
  stale,        \* g_uploads: the others, with the error they are left from
  errors,       \* how often a ZFilter failed for a connection so far
  perUser,      \* g_uploadsPerUser, 0 for no entry
  count,        \* g_running, extra and extraPartial
  lost,         \* how often two threads changed them at once so far
  waiting,      \* m_slotQueue, the users only
  notified,     \* m_notifiedUsers: when, "late" from the 90th second on
  online        \* User::isOnline

conns == <<phase, slotType, wanted, entitled, used>>
lists == <<uploads, stale, errors, perUser>>
counters == <<count, lost>>
queue == <<waiting, notified>>
vars == <<conns, lists, counters, queue, online>>

Kinds == {"STDSLOT", "EXTRASLOT", "PARTIALSLOT"}
SlotTypes == Kinds \cup {"NOSLOT"}

(* "get", "send" and "running" are the states of the connection; between   *)
(* them prepareFile has yet to look at the free slots, at the queue, at    *)
(* the time of the last grant, at the uploads, at the extra slots, to put  *)
(* the user in the queue or out of it, to list the upload, to count the    *)
(* slot, and its caller to answer the request.                             *)
Preparing == {"free", "queue", "auto", "decide", "extra", "refuse", "leave", "list"}
Counting == {"count", "uncount"}
Phases == {"none", "get", "answer", "send", "running"} \cup Preparing \cup Counting

TypeOK ==
  /\ phase \in [Conns -> Phases]
  /\ slotType \in [Conns -> SlotTypes] /\ wanted \in [Conns -> SlotTypes]
  /\ entitled \subseteq Conns /\ used \subseteq Conns
  /\ uploads \subseteq Conns /\ stale \subseteq Conns \X Nat
  /\ errors \in [Conns -> 0..MaxErrors]
  /\ perUser \in [Users -> Nat]
  /\ count \in [Kinds -> Int]
  /\ lost \in 0..MaxLost
  /\ waiting \in Seq(Users)
  /\ notified \in [Users -> {"no", "yes", "late"}]
  /\ online \subseteq Users

Init ==
  /\ phase = [c \in Conns |-> "none"]
  /\ slotType = [c \in Conns |-> "NOSLOT"] /\ wanted = slotType
  /\ entitled = {} /\ used = {}
  /\ uploads = {} /\ stale = {} /\ errors = [c \in Conns |-> 0]
  /\ perUser = [u \in Users |-> 0]
  /\ count = [t \in Kinds |-> 0]
  /\ lost = 0
  /\ waiting = <<>>
  /\ notified = [u \in Users |-> "no"]
  /\ online = Users

-----------------------------------------------------------------------------
(* A connection as its socket thread runs it.                              *)

Enter(c, p) == phase' = [phase EXCEPT ![c] = p]
Waits(u) == \E i \in 1..Len(waiting) : waiting[i] = u
FreeSlots == IF Slots > count["STDSLOT"] THEN Slots - count["STDSLOT"] ELSE 0

(* A deleted connection that is still listed does not give its name to a   *)
(* new one.                                                                *)
addConnection(c) ==
  /\ phase[c] = "none" /\ \A p \in stale : p[1] # c
  /\ Enter(c, "get")
  /\ UNCHANGED <<slotType, wanted, entitled, used, lists, counters, queue, online>>

(* A user who is refused waits, in the place he has if he has one.         *)
addFailedUpload(u) ==
  waiting' = IF Waits(u) THEN waiting ELSE Append(waiting, u)

(* handleBan: not for favourites and not for reserved slots.               *)
Ban(c) ==
  /\ phase[c] = "get"
  /\ addFailedUpload(UserOf[c])
  /\ UNCHANGED <<conns, lists, counters, notified, online>>

(* Get, or GET: the file is there and may be read.  Who has a standard     *)
(* slot keeps it, unless one was reserved for him: then all is asked anew. *)
prepareFile(c, hasReserved, isFavourite) ==
  /\ phase[c] = "get"
  /\ IF slotType[c] = "STDSLOT" /\ ~hasReserved
     THEN /\ Enter(c, "leave")
          /\ wanted' = [wanted EXCEPT ![c] = "STDSLOT"]
          /\ UNCHANGED entitled
     ELSE /\ Enter(c, "free")
          /\ entitled' = IF hasReserved \/ isFavourite THEN entitled \cup {c} ELSE entitled
          /\ UNCHANGED wanted
  /\ UNCHANGED <<slotType, used, lists, counters, queue, online>>

(* The free slots, under no lock ...                                       *)
SeeFreeSlots(c) ==
  /\ phase[c] = "free"
  /\ Enter(c, IF FreeSlots > 0 THEN "queue" ELSE "auto")
  /\ UNCHANGED <<slotType, wanted, entitled, used, lists, counters, queue, online>>

(* ... and who has a better right to them.                                 *)
MayTakeSlot(u) ==
  \/ waiting = <<>> /\ \A v \in Users : notified[v] = "no"
  \/ notified[u] # "no"

SeeQueue(c) ==
  /\ phase[c] = "queue"
  /\ Enter(c, "auto")
  /\ entitled' = IF MayTakeSlot(UserOf[c]) THEN entitled \cup {c} ELSE entitled
  /\ UNCHANGED <<slotType, wanted, used, lists, counters, queue, online>>

(* getAutoSlot also asks for time and speed, a free choice here.           *)
MayGetAutoSlot == Slots + AutoSlots >= count["STDSLOT"]

SeeAutoSlot(c, auto) ==
  /\ phase[c] = "auto" /\ (auto => MayGetAutoSlot)
  /\ Enter(c, "decide")
  /\ entitled' = IF auto THEN entitled \cup {c} ELSE entitled
  /\ UNCHANGED <<slotType, wanted, used, lists, counters, queue, online>>

(* A deleted connection that is still listed has any address at all.       *)
hasUpload(u, match) ==
  \/ \E d \in uploads : UserOf[d] = u
  \/ \E p \in stale : UserOf[p[1]] = u /\ (phase[p[1]] # "none" \/ match)

Grant(c, type) ==
  /\ Enter(c, "leave")
  /\ wanted' = [wanted EXCEPT ![c] = type]

(* A standard slot for who may have one and has no upload yet.             *)
Decide(c, match) ==
  /\ phase[c] = "decide"
  /\ IF c \in entitled /\ ~hasUpload(UserOf[c], match)
     THEN Grant(c, "STDSLOT")
     ELSE Enter(c, "extra") /\ UNCHANGED wanted
  /\ entitled' = entitled \ {c}
  /\ UNCHANGED <<slotType, used, lists, counters, queue, online>>

(* Operators get a minislot even when none is free.                        *)
GetsExtra(c, mini, op) ==
  mini /\ (slotType[c] = "EXTRASLOT" \/ op \/ count["EXTRASLOT"] < ExtraSlots)

GetsPartial(c, part) ==
  part /\ (slotType[c] = "PARTIALSLOT" \/ count["PARTIALSLOT"] < PartialSlots)

DecideExtra(c, mini, op, part) ==
  /\ phase[c] = "extra"
  /\ \/ GetsExtra(c, mini, op) /\ Grant(c, "EXTRASLOT")
     \/ ~GetsExtra(c, mini, op) /\ GetsPartial(c, part) /\ Grant(c, "PARTIALSLOT")
     \/ /\ ~GetsExtra(c, mini, op) /\ ~GetsPartial(c, part)
        /\ Enter(c, "refuse") /\ UNCHANGED wanted
  /\ UNCHANGED <<slotType, entitled, used, lists, counters, queue, online>>

(* maxedOut: he is told his place in the queue.                            *)
Refuse(c) ==
  /\ phase[c] = "refuse"
  /\ Enter(c, "get")
  /\ addFailedUpload(UserOf[c])
  /\ UNCHANGED <<slotType, wanted, entitled, used, lists, counters, notified, online>>

(* Those who wait but the users of us, in the order they came.             *)
Without(us) ==
  LET kept[n \in 0..Len(waiting)] ==
        IF n = 0 THEN <<>>
        ELSE IF waiting[n] \in us THEN kept[n - 1]
        ELSE Append(kept[n - 1], waiting[n])
  IN  kept[Len(waiting)]

(* clearUserFilesL, and he is not a notified user any more.                *)
LeaveQueue(c) ==
  /\ phase[c] = "leave"
  /\ Enter(c, "list")
  /\ waiting' = Without({UserOf[c]})
  /\ notified' = [notified EXCEPT ![UserOf[c]] = "no"]
  /\ UNCHANGED <<slotType, wanted, entitled, used, lists, counters, online>>

(* The new upload is listed and becomes the last one of the connection.    *)
ListUpload(c) ==
  /\ phase[c] = "list"
  /\ uploads' = uploads \cup {c}
  /\ stale' = IF c \in uploads THEN stale \cup {<<c, errors[c]>>} ELSE stale
  /\ perUser' = [perUser EXCEPT ![UserOf[c]] = @ + 1]
  /\ used' = used \cup {c}
  /\ IF slotType[c] # wanted[c]
     THEN Enter(c, "count") /\ UNCHANGED wanted
     ELSE Enter(c, "answer") /\ wanted' = [wanted EXCEPT ![c] = "NOSLOT"]
  /\ UNCHANGED <<slotType, entitled, errors, counters, queue, online>>

\* Mutant of Change: the type the connection had is not counted out.
ChangeAdds(c, t) == IF t = wanted[c] THEN 1 ELSE 0

(* process_slot: the type the connection had is counted out, the one it    *)
(* gets is counted in.                                                     *)
Change(c, t) ==
  CASE t = slotType[c] -> -1
    [] t = wanted[c] -> 1
    [] OTHER -> 0

SetSlotType(cs) ==
  /\ slotType' = [c \in Conns |-> IF c \in cs THEN wanted[c] ELSE slotType[c]]
  /\ wanted' = [c \in Conns |-> IF c \in cs THEN "NOSLOT" ELSE wanted[c]]
  /\ phase' = [c \in Conns |->
       IF c \notin cs THEN phase[c] ELSE IF phase[c] = "count" THEN "answer" ELSE "none"]
  /\ UNCHANGED <<entitled, used, lists, queue, online>>

CountSlot(c) ==
  /\ phase[c] \in Counting
  /\ count' = [t \in Kinds |-> count[t] + Change(c, t)]
  /\ SetSlotType({c})
  /\ UNCHANGED lost

(* Two threads at once: where both change a counter, the change of one is  *)
(* lost.                                                                   *)
CountTogether(c, d) ==
  /\ c # d /\ phase[c] \in Counting /\ phase[d] \in Counting
  /\ lost < MaxLost /\ lost' = lost + 1
  /\ count' = [t \in Kinds |->
       count[t] + IF Change(c, t) # 0 THEN Change(c, t) ELSE Change(d, t)]
  /\ SetSlotType({c, d})

(* Get is answered with the length of the file and waits for Send, GET is  *)
(* sent at once ...                                                        *)
Answer(c, next) ==
  /\ phase[c] = "answer"
  /\ Enter(c, next)
  /\ UNCHANGED <<slotType, wanted, entitled, used, lists, counters, queue, online>>

(* ... unless it is to be compressed and the constructor of ZFilter throws.*)
FilterFails(c) ==
  /\ phase[c] = "answer" /\ errors[c] < MaxErrors
  /\ Enter(c, "get")
  /\ errors' = [errors EXCEPT ![c] = @ + 1]
  /\ UNCHANGED <<slotType, wanted, entitled, used, uploads, stale, perUser, counters, queue,
                  online>>

Send(c) ==
  /\ phase[c] = "send"
  /\ Enter(c, "running")
  /\ UNCHANGED <<slotType, wanted, entitled, used, lists, counters, queue, online>>

\* Mutants of removeUpload: it stays listed; it is not counted out; it is
\* counted out though there is no entry (UploadManager.cpp:801).
removeUploadAlways(c) ==
  /\ uploads' = uploads \ {c}
  /\ perUser' = [perUser EXCEPT ![UserOf[c]] = @ - 1]
  /\ UNCHANGED <<stale, errors>>
removeUploadKept(c) ==
  /\ uploads' = uploads
  /\ perUser' = [perUser EXCEPT ![UserOf[c]] = IF @ > 0 THEN @ - 1 ELSE 0]
  /\ UNCHANGED <<stale, errors>>
removeUploadCounted(c) ==
  /\ uploads' = uploads \ {c}
  /\ UNCHANGED <<stale, errors, perUser>>

removeUpload(c) ==
  /\ uploads' = uploads \ {c}
  /\ perUser' = [perUser EXCEPT ![UserOf[c]] = IF @ > 0 THEN @ - 1 ELSE 0]
  /\ UNCHANGED <<stale, errors>>

TransmitDone(c) ==
  /\ phase[c] = "running"
  /\ Enter(c, "get")
  /\ removeUpload(c)
  /\ UNCHANGED <<slotType, wanted, entitled, used, counters, queue, online>>

(* The last upload is removed once more if it is over.                     *)
Failed(c) ==
  /\ phase[c] \in {"get", "send", "running"}
  /\ IF c \in used THEN removeUpload(c) ELSE UNCHANGED lists
  /\ used' = used \ {c}
  /\ Enter(c, IF slotType[c] = "NOSLOT" THEN "none" ELSE "uncount")
  /\ wanted' = [wanted EXCEPT ![c] = "NOSLOT"]
  /\ UNCHANGED <<slotType, entitled, counters, queue, online>>

-----------------------------------------------------------------------------
(* The timer thread, the hubs and the user of the program.                 *)

Notified == {u \in Users : notified[u] # "no"}
OnlineAmong(n) == Cardinality({i \in 1..n : waiting[i] \in online})

\* Mutant of notifyQueuedUsers: the last one in the queue is told first.
notifyLast ==
  LET last == waiting[Len(waiting)]
  IN /\ FreeSlots > Cardinality(Notified) /\ waiting # <<>>
     /\ waiting' = SubSeq(waiting, 1, Len(waiting) - 1)
     /\ notified' = IF last \in online THEN [notified EXCEPT ![last] = "yes"] ELSE notified
     /\ UNCHANGED <<conns, lists, counters, online>>

(* As many of those who wait are told as there are free slots that nobody  *)
(* was told of; who is not online loses his place.                         *)
notifyQueuedUsers ==
  LET offers == FreeSlots - Cardinality(Notified)
  IN /\ offers > 0 /\ waiting # <<>>
     /\ \E n \in 0..Len(waiting) :
          /\ n = Len(waiting) \/ OnlineAmong(n) = offers
          /\ \A k \in 0..(n - 1) : OnlineAmong(k) < offers
          /\ waiting' = SubSeq(waiting, n + 1, Len(waiting))
          /\ notified' = [u \in Users |->
               IF u \in online /\ \E i \in 1..n : waiting[i] = u THEN "yes" ELSE notified[u]]
     /\ UNCHANGED <<conns, lists, counters, online>>

Elapse(u) ==
  /\ notified[u] = "yes"
  /\ notified' = [notified EXCEPT ![u] = "late"]
  /\ UNCHANGED <<conns, lists, counters, waiting, online>>

Late == {u \in Users : notified[u] = "late"}

\* Mutant of Minute: the users who did not come are not forgotten.
MinuteKeeps ==
  /\ waiting' = Without(Late)
  /\ UNCHANGED <<conns, lists, counters, notified, online>>

(* Who was told and did not come is forgotten, and so is his new place if  *)
(* he came in vain.                                                        *)
Minute ==
  /\ Late # {}
  /\ waiting' = Without(Late)
  /\ notified' = [u \in Users |-> IF u \in Late THEN "no" ELSE notified[u]]
  /\ UNCHANGED <<conns, lists, counters, online>>

UserDisconnected(u) ==
  /\ u \in online
  /\ online' = online \ {u}
  /\ waiting' = Without({u})
  /\ UNCHANGED <<conns, lists, counters, notified>>

UserConnected(u) ==
  /\ u \notin online
  /\ online' = online \cup {u}
  /\ UNCHANGED <<conns, lists, counters, queue>>

-----------------------------------------------------------------------------
ConnStep(c) ==
  \/ addConnection(c) \/ Ban(c) \/ SeeFreeSlots(c) \/ SeeQueue(c)
  \/ \E hasReserved, isFavourite \in BOOLEAN : prepareFile(c, hasReserved, isFavourite)
  \/ \E auto \in BOOLEAN : SeeAutoSlot(c, auto)
  \/ \E match \in BOOLEAN : Decide(c, match)
  \/ \E mini, op, part \in BOOLEAN : DecideExtra(c, mini, op, part)
  \/ Refuse(c) \/ LeaveQueue(c) \/ ListUpload(c) \/ CountSlot(c)
  \/ \E d \in Conns : CountTogether(c, d)
  \/ \E next \in {"send", "running"} : Answer(c, next)
  \/ FilterFails(c) \/ Send(c) \/ TransmitDone(c) \/ Failed(c)

UserStep(u) ==
  Elapse(u) \/ UserDisconnected(u) \/ UserConnected(u)

Next ==
  \/ \E c \in Conns : ConnStep(c)
  \/ notifyQueuedUsers \/ Minute
  \/ \E u \in Users : UserStep(u)

Spec == Init /\ [][Next]_vars

(* The timer fires every second and every minute; time passes.             *)
Fairness ==
  WF_vars(notifyQueuedUsers) /\ WF_vars(Minute) /\ \A u \in Users : WF_vars(Elapse(u))

FairSpec == Spec /\ Fairness

-----------------------------------------------------------------------------
Holders(t) == {c \in Conns : slotType[c] = t}
UploadsOf(u) == {c \in uploads : UserOf[c] = u}
StaleOf(u) == {p \in stale : UserOf[p[1]] = u}

(* The counters of used slots are off by no more than the changes two      *)
(* threads made at once: no order of grants, changes of type, failures and *)
(* reconnections makes a slot leak or be given twice by itself.            *)
SlotsCounted ==
  \A t \in Kinds :
    /\ count[t] <= Cardinality(Holders(t)) + lost
    /\ count[t] >= Cardinality(Holders(t)) - lost

(* The timer goes through g_uploads and calls the connection of each: a    *)
(* connection that is being deleted has no upload there, and one that      *)
(* sends has, except for the uploads that a new one replaced after their   *)
(* compression had failed to start.  Each of those goes back to an error   *)
(* of its own: nothing else leaves one behind.                             *)
UploadsAlive ==
  /\ \A c \in Conns :
       /\ c \in uploads => phase[c] \notin {"none", "uncount"}
       /\ phase[c] \in {"count", "answer", "send", "running"} => c \in uploads
  /\ \A p \in stale : p[2] \in 1..errors[p[1]]

(* The share of the speed limit a connection gets is the user's divided by *)
(* g_uploadsPerUser: it never counts more uploads than there are.          *)
NeverOvercounted ==
  \A u \in Users : perUser[u] <= Cardinality(UploadsOf(u)) + Cardinality(StaleOf(u))

(* UploadManager.cpp:815 dcassert(0): the timer finds the user of every    *)
(* upload in g_uploadsPerUser.                                             *)
AmountKnownOf(c) ==
  c \in uploads \cup {p[1] : p \in stale} => perUser[UserOf[c]] > 0
AmountKnown == \A c \in Conns : AmountKnownOf(c)

(* Nobody loses his place for nothing: he is told of a slot, got one, went *)
(* offline, or let the 90 seconds of his slot go by.                       *)
PlaceKept ==
  [][\A u \in Users : Waits(u) /\ ~Waits(u)'
       => \/ notified'[u] = "yes" \/ notified[u] = "late" \/ u \notin online'
          \/ \E c \in Conns : UserOf[c] = u /\ phase'[c] = "list"]_vars

(* Nobody is in m_slotQueue twice: clearUserFilesL, which takes out the    *)
(* first entry it finds, takes the user out of the queue.                  *)
WaitsOnce ==
  \A i, j \in 1..Len(waiting) : waiting[i] = waiting[j] => i = j

(* As long as there is a free slot nobody waits for ever, not even behind  *)
(* users who were told and never come.                                     *)
QueueMoves ==
  \A u \in Users : (<>[](FreeSlots > 0)) => (Waits(u) ~> ~Waits(u))

(* As many users are told of a slot as there are slots, and one more for   *)
(* each change of the counters that was lost: no order of grants, of       *)
(* returns and of users who do not come promises a slot twice.             *)
NotifiedLimit == Cardinality(Notified) <= Slots + lost

-----------------------------------------------------------------------------
(* The waiting queue as the line that WaitingLine describes.               *)

Precedes ==
  {<<waiting[p[1]], waiting[p[2]]>> :
     p \in {q \in (1..Len(waiting)) \X (1..Len(waiting)) : q[1] <= q[2]}}

Served == {UserOf[c] : c \in {d \in Conns : phase[d] = "list"}}

Line == INSTANCE WaitingLine WITH
  before <- Precedes, called <- Notified, late <- Late, served <- Served

(* Whoever waits is told of a slot before all who came after him, and      *)
(* leaves m_slotQueue only when he is told, served, late or offline.       *)
LineSpec == Line!Spec

=============================================================================
