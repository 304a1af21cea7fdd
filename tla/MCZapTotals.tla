---------------------------- MODULE MCZapTotals ----------------------------
(***************************************************************************)
(* Two payments of one sender; a page holds one payment, so that a payment *)
(* with an earlier invoice can settle between any two pages.               *)
(***************************************************************************)
EXTENDS ZapTotals, TLC

Alice == "alice"
Bob == "bob"
TwoPayments == {1, 2}
OneOfTwo == {1}
BothZappers == {Alice, Bob}
Senders == 1 :> Alice @@ 2 :> Alice
PTags == 1 :> "old" @@ 2 :> "old"
TwoTargets == {"old", "new"}
ThreeRequests == {[kind |-> "get", zapper |-> Alice],
                  [kind |-> "all", zapper |-> Everyone],
                  [kind |-> "tracked", zapper |-> Everyone]}
=============================================================================
