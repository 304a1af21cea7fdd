---------------------------- MODULE PayoutPromise ----------------------------
(***************************************************************************)
(* What a distribution promises: money leaves only out of what has come    *)
(* in, only to the recipients that were listed before a feeding was        *)
(* funded, to each of them once, and a member hears once, and truly, what  *)
(* became of the share.  Nobody is paid who was told of a skipped share.   *)
(*                                                                         *)
(* Nothing is said of transfers, tasks, deliveries, crashes or records.    *)
(***************************************************************************)
CONSTANTS Recipients, Members, Invoices

VARIABLES
  listed,   \* the invoices whose recipients are fixed
  list,     \* ... and who they are
  fed,      \* the invoices a feeding pays, or has tried to pay
  settled,  \* the invoices that are paid
  payout,   \* the payment to a recipient
  told      \* what a member was told

promise == <<listed, list, fed, settled, payout, told>>

Init ==
  /\ listed = {} /\ list = [i \in Invoices |-> {}]
  /\ fed = {} /\ settled = {}
  /\ payout = [i \in Invoices |-> [r \in Recipients |-> "none"]]
  /\ told = [i \in Invoices |-> [r \in Recipients |-> "none"]]

\* Once and for all, and before a feeding puts its money in.
List(i, recipients) ==
  /\ i \notin listed \cup fed
  /\ listed' = listed \cup {i}
  /\ list' = [list EXCEPT ![i] = recipients]
  /\ UNCHANGED <<fed, settled, payout, told>>

\* A feeding pays the invoice, which may settle at once.
Feed(i) ==
  /\ i \in listed
  /\ fed' = fed \cup {i}
  /\ settled' \in {settled, settled \cup {i}}
  /\ UNCHANGED <<listed, list, payout, told>>

\* Somebody else pays it: the list may still be open.
Receive(i) ==
  /\ i \notin fed
  /\ settled' = settled \cup {i}
  /\ UNCHANGED <<listed, list, fed, payout, told>>

Pay(i, r) ==
  /\ i \in settled /\ r \in list[i]
  /\ payout[i][r] = "none" /\ told[i][r] = "none"
  /\ payout' = [payout EXCEPT ![i][r] = "inflight"]
  /\ UNCHANGED <<listed, list, fed, settled, told>>

Conclude(i, r) ==
  /\ payout[i][r] = "inflight"
  /\ payout' \in {[payout EXCEPT ![i][r] = result] : result \in {"success", "failed"}}
  /\ UNCHANGED <<listed, list, fed, settled, told>>

\* A member hears of treats that arrived, or of a share that was not sent.
Tell(i, r) ==
  /\ i \in settled /\ r \in list[i] \cap Members /\ told[i][r] = "none"
  /\ \/ payout[i][r] = "success" /\ told' = [told EXCEPT ![i][r] = "treats"]
     \/ payout[i][r] = "none" /\ told' = [told EXCEPT ![i][r] = "skipped"]
  /\ UNCHANGED <<listed, list, fed, settled, payout>>

Next ==
  \E i \in Invoices :
    \/ \E recipients \in SUBSET Recipients : List(i, recipients)
    \/ Feed(i) \/ Receive(i)
    \/ \E r \in Recipients : Pay(i, r) \/ Conclude(i, r) \/ Tell(i, r)

Spec == Init /\ [][Next]_promise
=============================================================================
