----------------------------- MODULE WaitingLine -----------------------------
(***************************************************************************)
(* What UploadManager promises those who wait for a slot: a line in the    *)
(* order they came.  It is called from its front only, whoever is online   *)
(* at the front with all before him; nobody is passed by another.  Who is  *)
(* called may come until he is late and is then forgotten, with the new    *)
(* place he has if he came in vain.  Nobody leaves the line otherwise, but *)
(* to be served or because he goes offline.                                *)
(***************************************************************************)

CONSTANT Users

VARIABLES
  before,  \* <<v, u>>: v is in the line, and so is u, behind v or v himself
  called,  \* those who may come now
  late,    \* those of them whose time is over
  online,
  served   \* those who come, and are about to get their slot

vars == <<before, called, late, online, served>>

Line == {u \in Users : <<u, u>> \in before}
Without(us) == {p \in before : p[1] \notin us /\ p[2] \notin us}

Init ==
  /\ before = {} /\ called = {} /\ late = {} /\ served = {}
  /\ online = Users

Join(u) ==
  /\ u \notin Line
  /\ before' = before \cup {<<v, u>> : v \in Line \cup {u}}
  /\ UNCHANGED <<called, late, online, served>>

Call(us) ==
  /\ us \subseteq Line
  /\ \A p \in before : p[2] \in us => p[1] \in us
  /\ before' = Without(us)
  /\ called' = called \cup (us \cap online)
  /\ late' = late \ (us \cap online)
  /\ UNCHANGED <<online, served>>

Expire(u) ==
  /\ u \in called
  /\ late' = late \cup {u}
  /\ UNCHANGED <<before, called, online, served>>

Forget ==
  /\ before' = Without(late)
  /\ called' = called \ late
  /\ late' = {}
  /\ UNCHANGED <<online, served>>

Serve(u) ==
  /\ before' = Without({u})
  /\ called' = called \ {u} /\ late' = late \ {u}
  /\ served' = served \cup {u}
  /\ UNCHANGED online

Settle ==
  /\ served' \subseteq served
  /\ UNCHANGED <<before, called, late, online>>

GoOffline(u) ==
  /\ before' = Without({u})
  /\ online' = online \ {u}
  /\ UNCHANGED <<called, late, served>>

GoOnline(u) ==
  /\ online' = online \cup {u}
  /\ UNCHANGED <<before, called, late, served>>

Next ==
  \/ \E u \in Users : Join(u) \/ Expire(u) \/ Serve(u) \/ GoOffline(u) \/ GoOnline(u)
  \/ \E us \in SUBSET Users : Call(us)
  \/ Forget \/ Settle

Spec == Init /\ [][Next]_vars
=============================================================================
