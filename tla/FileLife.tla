------------------------------ MODULE FileLife ------------------------------
(***************************************************************************)
(* What a QueueItem promises of its file, however many connections load    *)
(* it: what was written stays written; a part is recorded as done only     *)
(* when it was written, though the record may lose parts again, which are  *)
(* then loaded anew; the file is moved to its target only at a time when   *)
(* all of it is recorded; it leaves the queue only once it was moved, and  *)
(* does not come back.                                                     *)
(***************************************************************************)

CONSTANT Parts \* of the file

VARIABLES written, recorded, moved, gone

vars == <<written, recorded, moved, gone>>

Init == written = {} /\ recorded = {} /\ ~moved /\ ~gone

Write ==
  /\ written \subseteq written' /\ written' \subseteq Parts
  /\ UNCHANGED <<recorded, moved, gone>>

Record ==
  /\ recorded' \subseteq written
  /\ UNCHANGED <<written, moved, gone>>

Move ==
  /\ recorded = Parts /\ moved'
  /\ UNCHANGED <<written, recorded, gone>>

Leave ==
  /\ moved /\ gone'
  /\ UNCHANGED <<written, recorded, moved>>

Next == Write \/ Record \/ Move \/ Leave

Spec == Init /\ [][Next]_vars
=============================================================================
