------------------------------- MODULE MCLocks -------------------------------
(***************************************************************************)
(* Three tasks: on three of the paths that contend for several locks, or   *)
(* two on the same path beside a third on one that is short.               *)
(***************************************************************************)
EXTENDS Locks

Three == {"t1", "t2", "t3"}

Contended == <<"zap", "social", "track", "operator", "reset", "rebuild", "recompute",
               "transfer">>
Shorter == {"split", "midnight", "deliver", "chat"}

Cast(p, q, r) == [t \in Three |-> IF t = "t1" THEN p ELSE IF t = "t2" THEN q ELSE r]

\* The tasks differ in nothing else: one order of each choice is enough.
SomeThree ==
  {Cast(Contended[i], Contended[j], Contended[k]) :
     <<i, j, k>> \in {m \in (1..8) \X (1..8) \X (1..8) : m[1] < m[2] /\ m[2] < m[3]}}
  \cup {Cast(p, p, "chat") : p \in Paths}
  \cup {Cast(p, q, q) : p \in Paths, q \in Shorter}
=============================================================================
