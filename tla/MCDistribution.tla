--------------------------- MODULE MCDistribution ---------------------------
(***************************************************************************)
(* Distribution on a family of small instances in one state space.  Two    *)
(* invoices let a transfer be repeated, two recipients let one list be     *)
(* worked off with several payments under way, two faults let a crash be   *)
(* followed by a second delivery; Small keeps them from coming together.   *)
(***************************************************************************)
EXTENDS Distribution

Used == {i \in Invoices : purpose[i] # Nobody}

Listed == targets \cup call.seen \cup split.todo \cup UNION {manifest[i] : i \in Invoices}

PaidOut == {i \in Invoices : \E r \in Recipients : record[i][r] \notin {"none", "planned"}}

\* Invoices are interchangeable, so the second one is used second.
Small ==
  /\ Used \in {{}, {"inv1"}, {"inv1", "inv2"}}
  /\ 2 * (Cardinality(Used) + Cardinality(Listed)) + faults <= 6
  /\ Cardinality(PaidOut) <= 1
=============================================================================
