------------------------------ MODULE MCJobQueue ------------------------------
(* Small instances of JobQueue for TLC. *)
EXTENDS JobQueue, TLC

CONSTANTS i1, w1, w2, j1, s1

OneProcess == (w1 :> i1) @@ (w2 :> i1)

OneOwner == (j1 :> s1)

FlatPriority == [j \in Jobs |-> 0]

\* retryBackoff, 1 s and 2 s, against a lease of 60 s: at most one tick.
ShortRetry == [a \in 1 .. MaxAttempts |-> 1]
=============================================================================
