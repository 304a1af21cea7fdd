----------------------------- MODULE MCRecovery -----------------------------
(***************************************************************************)
(* A morning note and a later one; a zap of each of two people on the      *)
(* first and one of them on the second.                                    *)
(***************************************************************************)
EXTENDS Recovery, TLC

Morning == 10
Noon == 20
TwoNotes == {Morning, Noon}
ThreePayments == {"p1", "p2", "p3"}
TwoZappers == "p1" :> "alice" @@ "p2" :> "bob" @@ "p3" :> "alice"
NamedNotes == "p1" :> Morning @@ "p2" :> Noon @@ "p3" :> Noon
InvoiceTimes == "p1" :> 11 @@ "p2" :> 21 @@ "p3" :> 22
=============================================================================
