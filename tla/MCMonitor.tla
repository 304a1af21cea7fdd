------------------------------ MODULE MCMonitor ------------------------------
(***************************************************************************)
(* Two notes, and an engagement with the later one.                        *)
(***************************************************************************)
EXTENDS Monitor, TLC

TwoNotes == {1, 2}
Repost == 11
OneRepost == {Repost}
OnLater == Repost :> 2

Quiet(busy, askers) == [upsets |-> 0, busy |-> busy, askers |-> askers]
OneUpset == [upsets |-> 1, busy |-> 1, askers |-> 1]

\* Nothing wrong, with all tasks or two subscribers at a time; or one of each
\* and something going wrong.
QuietOrUpset == {Quiet(3, 1), Quiet(1, 2), OneUpset}
OneAtATime == {Quiet(1, 1)}
=============================================================================
