-------------------------- MODULE MCUploadManager --------------------------
(* Model checking of UploadManager: two users with a connection each, who  *)
(* compete for a slot, or one user with two.                               *)
EXTENDS UploadManager, TLC

CONSTANTS u1, u2, c1, c2

EachHisOwn == c1 :> u1 @@ c2 :> u2
OneUser == c1 :> u1 @@ c2 :> u1
=============================================================================
