---------------------------- MODULE MCQueueItem ----------------------------
(* Model checking of QueueItem: the sources of a file are interchangeable. *)
EXTENDS QueueItem, TLC

\* Any user may at times be faster than any other.
AnyFaster == {p \in Users \X Users : p[1] # p[2]}

\* One user is always the faster one.
OneFaster == {<<f, v>> : f \in {CHOOSE u \in Users : TRUE}, v \in Users} \ {<<u, u>> : u \in Users}

UserSymmetry == Permutations(Users)
=============================================================================
