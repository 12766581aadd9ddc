----------------------------- MODULE SocketLife -----------------------------
(***************************************************************************)
(* What a BufferedSocket promises the UserConnection that owns it: the     *)
(* events Connecting, Connected and Failed are heard at most once each, in *)
(* that order, only while the owner is alive; the owner goes after it      *)
(* heard Failed, or before the connection ever began; the thread outlives  *)
(* the owner, and then ends for good.                                      *)
(***************************************************************************)
EXTENDS Sequences

VARIABLES heard, owner, running

vars == <<heard, owner, running>>

Init == heard = <<>> /\ owner = "none" /\ ~running

Heard(e) == \E i \in DOMAIN heard : heard[i] = e

Create ==
  /\ owner = "none" /\ owner' = "alive"
  /\ UNCHANGED <<heard, running>>

Begin ==
  /\ owner = "alive" /\ ~running /\ running' = TRUE
  /\ UNCHANGED <<heard, owner>>

Hear(e) ==
  /\ owner = "alive" /\ running /\ ~Heard(e) /\ ~Heard("Failed")
  /\ e = "Connected" => Heard("Connecting")
  /\ e = "Connecting" => heard = <<>>
  /\ heard' = Append(heard, e)
  /\ UNCHANGED <<owner, running>>

Leave ==
  /\ owner = "alive" /\ running
  /\ heard = <<>> \/ Heard("Failed")
  /\ owner' = "deleted"
  /\ UNCHANGED <<heard, running>>

End ==
  /\ owner = "deleted" /\ running /\ running' = FALSE
  /\ UNCHANGED <<heard, owner>>

Next ==
  \/ Create \/ Begin \/ Leave \/ End
  \/ \E e \in {"Connecting", "Connected", "Failed"} : Hear(e)

Spec == Init /\ [][Next]_vars
=============================================================================
