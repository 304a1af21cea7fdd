----------------------------- MODULE MCDelivery -----------------------------
(***************************************************************************)
(* A member who is met in a note and in a stream, and has a share; a       *)
(* refused admission; a feeding; one stream.                               *)
(***************************************************************************)
EXTENDS Delivery, TLC

Stream == "stream"
OneStream == {Stream}
MemberEvents == {"join", "zap", "miss"}
Authors == "join" :> "alice" @@ "zap" :> "alice" @@ "miss" :> "bob"
Places == "join" :> Notes @@ "zap" :> Stream @@ "miss" :> Notes
Misses == {"miss"}
OneShare == {"share"}
ToAlice == "share" :> "alice"
OneFeeding == {"feeding"}
ThreeMessages ==
  {[messages |-> 3, cycles |-> 1, readings |-> 2, invitations |-> 0, faults |-> 1],
   [messages |-> 2, cycles |-> 2, readings |-> 1, invitations |-> 1, faults |-> 1]}
=============================================================================
