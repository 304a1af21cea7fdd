------------------------- MODULE DistributionProofs -------------------------
(***************************************************************************)
(* The safety properties of Distribution, for any feedings, recipients,    *)
(* invoices, balances and numbers of faults.                               *)
(*                                                                         *)
(* TransferInv follows a feeding's invoice from its creation to the paid   *)
(* record: a payment exists only of the recorded invoice, whose recipients *)
(* are frozen.  PayoutInv follows one share from its claim to its notice:  *)
(* nothing is sent before the claim, a start belongs to an attempt that    *)
(* has not been paid, and the worker's verdict is that of the payment.     *)
(***************************************************************************)
EXTENDS Distribution, TLAPS

-----------------------------------------------------------------------------
(* The invariants.                                                         *)

\* A recorded transfer has its own invoice, and a paid one a settled payment.
RecordedOK ==
  \A f \in Feedings :
    /\ transfer[f].state # "none" =>
         transfer[f].invoice \in Invoices /\ purpose[transfer[f].invoice] = f
    /\ transfer[f].state = "paid" => funding[transfer[f].invoice] = "success"

\* A feeding's payment is that of the recorded invoice, frozen before it.
FundedOK ==
  \A f \in Feedings, i \in Invoices :
    Moves(i, f) => transfer[f].state # "none" /\ transfer[f].invoice = i /\ i \in frozen

UnusedOK == \A i \in Invoices : purpose[i] = Nobody => funding[i] = "none"

\* What the call under the lock knows at each stage.
CallOK ==
  LET f == call.feeding
      i == call.invoice
  IN
  /\ call.stage # "idle" => f \in Feedings
  /\ call.stage \in {"issue", "save"} => transfer[f].state = "none"
  /\ call.stage = "save" => i \in Invoices /\ purpose[i] = f
  /\ call.stage \in {"targets", "freeze", "pay", "finish"} =>
       i \in Invoices /\ transfer[f].state # "none" /\ transfer[f].invoice = i
  /\ call.stage = "pay" => i \in frozen
  /\ call.stage = "finish" => funding[i] = "success"

TransferInv == RecordedOK /\ FundedOK /\ UnusedOK /\ CallOK

\* No payment of the share was started or is about to be.
Unpaid(i, r) ==
  /\ sent[i][r] = 0 /\ payout[i][r] = "none"
  /\ <<i, r, "start">> \notin paying /\ <<i, r, "done">> \notin paying

\* A share's payment, its task and its record.
ShareOK(i, r) ==
  /\ sent[i][r] \in {0, 1}
  /\ sent[i][r] = 0 <=> payout[i][r] = "none"
  /\ <<i, r, "start">> \in paying => sent[i][r] = 0 /\ record[i][r] = "attempted"
  /\ <<i, r, "done">> \in paying => sent[i][r] = 1
  /\ record[i][r] \in {"none", "planned", "preparing", "too_small", "invoice_failed"}
       => Unpaid(i, r)
  /\ notice[i][r] = "skipped" => Unpaid(i, r) /\ record[i][r] = "announced"
  /\ notice[i][r] = "treats" => payout[i][r] = "success"
  /\ i \notin frozen => record[i][r] = "none"

SharesOK == \A i \in Invoices, r \in Recipients : ShareOK(i, r)

\* The listener holds the claim of the share it is at.
SplitOK ==
  /\ split.stage # "idle" => split.invoice \in Invoices
  /\ split.stage \in {"claim", "invoice", "no_invoice"} => split.invoice \in frozen
  /\ split.stage \in {"invoice", "no_invoice"} => split.at \in Recipients
  /\ split.stage = "invoice" => record[split.invoice][split.at] = "preparing"
  /\ split.stage = "no_invoice" =>
       record[split.invoice][split.at] \in {"too_small", "announced"}

\* The worker's verdict is still true when it is written.
WorkOK ==
  /\ work.verdict # "none" => work.invoice \in Invoices /\ work.at \in Recipients
  /\ work.verdict \in {"success", "failed"} =>
       /\ payout[work.invoice][work.at] = work.verdict
       /\ record[work.invoice][work.at] \in {"attempted", "pending"}
  /\ work.verdict = "too_small" => record[work.invoice][work.at] = "too_small"

PayoutInv == SharesOK /\ SplitOK /\ WorkOK

DistributionInv == TypeOK /\ TransferInv /\ PayoutInv

-----------------------------------------------------------------------------
(* The shared writes.                                                      *)

\* What prepare_distribution does: nothing to a frozen invoice, and to the
\* others no more than plan some of the recipients of one.
LEMMA FreezeEffect ==
  ASSUME NEW i \in Invoices, NEW seen \in SUBSET Recipients, RecordsOK, Freeze(i, seen)
  PROVE  /\ frozen' \subseteq Invoices /\ manifest' \in [Invoices -> SUBSET Recipients]
         /\ record' \in [Invoices -> [Recipients -> RecordStates]]
         /\ i \in frozen' /\ frozen \subseteq frozen' /\ frozen' \subseteq frozen \cup {i}
         /\ \A j \in frozen : manifest'[j] = manifest[j] /\ record'[j] = record[j]
         /\ \A j \in Invoices : j \notin frozen' => record'[j] = record[j]
         /\ \A j \in Invoices, r \in Recipients :
              record'[j][r] = record[j][r] \/ (j \notin frozen /\ record'[j][r] = "planned")
<1>1. CASE i \in frozen
  BY <1>1 DEF Freeze, RecordsOK, freezeVars
<1>2. CASE i \notin frozen
  <2>1. /\ frozen' = frozen \cup {i}
        /\ manifest' = [manifest EXCEPT ![i] = seen]
        /\ record' = [record EXCEPT ![i] =
                        [r \in Recipients |-> IF r \in seen THEN "planned" ELSE @[r]]]
    BY <1>2 DEF Freeze
  <2>2. record' \in [Invoices -> [Recipients -> RecordStates]]
    BY <2>1 DEF RecordsOK, RecordStates
  <2>. QED  BY <1>2, <2>1, <2>2 DEF RecordsOK
<1>. QED  BY <1>1, <1>2

\* What outcome does: one share's record changes, unless it is final.
LEMMA OutcomeEffect ==
  ASSUME NEW i \in Invoices, NEW r \in Recipients, NEW state \in RecordStates,
         RecordsOK, Outcome(i, r, state)
  PROVE  /\ record' \in [Invoices -> [Recipients -> RecordStates]]
         /\ \A j \in Invoices, q \in Recipients : j # i \/ q # r => record'[j][q] = record[j][q]
         /\ record'[i][r] = IF record[i][r] \in {"announced", "paid", "too_small"}
                              THEN record[i][r] ELSE state
BY DEF Outcome, RecordsOK

-----------------------------------------------------------------------------
(* Type correctness.                                                       *)

\* One entry of a table by invoice and recipient is written.
LEMMA UpdateType ==
  ASSUME NEW S, NEW table \in [Invoices -> [Recipients -> S]],
         NEW i \in Invoices, NEW r \in Recipients, NEW v \in S
  PROVE  [table EXCEPT ![i][r] = v] \in [Invoices -> [Recipients -> S]]
OBVIOUS

LEMMA TypeInit == Init => TypeOK
BY BoundsAssumption
   DEF Init, TypeOK, RecordsOK, WalletsOK, TasksOK, RecordStates, NoCall, NoSplit, NoWork

\* A call that goes on or returns is still a call.
LEMMA CallTyped ==
  ASSUME TasksOK, NEW stage \in {"idle", "issue", "save", "targets", "freeze", "pay", "finish"}
  PROVE  LET calls == [stage: {"idle", "issue", "save", "targets", "freeze", "pay", "finish"},
                       feeding: Feedings \cup {Nobody}, invoice: Invoices \cup {Nobody},
                       seen: SUBSET Recipients]
         IN  NoCall \in calls /\ [call EXCEPT !.stage = stage] \in calls
BY DEF TasksOK, NoCall

LEMMA TypeStep ==
  ASSUME TypeOK, CallOK, SplitOK, WorkOK, [Next]_vars
  PROVE  TypeOK'
<1>. USE DEF TypeOK, Advance, Return, NoCall, NoSplit, NoWork, NextRecipient, transferVars,
             freezeVars, walletVars, splitVars, payVars, workVars
<1>1. ASSUME NEW f \in Feedings, StartTransfer(f)
      PROVE  TypeOK'
  BY <1>1 DEF RecordsOK, WalletsOK, TasksOK, StartTransfer
<1>2. ASSUME NEW i \in Invoices, Issue(i)
      PROVE  TypeOK'
  BY <1>2 DEF RecordsOK, WalletsOK, TasksOK, CallOK, Issue
<1>3. CASE SavePrepared
  BY <1>3 DEF RecordsOK, WalletsOK, TasksOK, SavePrepared
<1>4. CASE ReadTargets
  BY <1>4 DEF RecordsOK, WalletsOK, TasksOK, ReadTargets
<1>5. CASE FreezeForTransfer
  <2>1. call.invoice \in Invoices /\ call.seen \in SUBSET Recipients
    BY <1>5 DEF FreezeForTransfer, CallOK, TasksOK
  <2>2. RecordsOK'
    BY <1>5, <2>1, FreezeEffect DEF FreezeForTransfer, RecordsOK
  <2>. QED  BY <1>5, <2>2 DEF WalletsOK, TasksOK, FreezeForTransfer
<1>6. CASE FoundPayment
  <2>1. call' = [call EXCEPT !.stage = "finish"] \/ call' = NoCall
    BY <1>6 DEF FoundPayment
  <2>2. TasksOK'
    BY <1>6, <2>1, CallTyped DEF TasksOK, FoundPayment
  <2>. QED  BY <1>6, <2>2 DEF RecordsOK, WalletsOK, FoundPayment
<1>7. CASE PayTransfer
  <2>1. call.invoice \in Invoices
    BY <1>7 DEF PayTransfer, CallOK
  <2>2. \/ funding' = [funding EXCEPT ![call.invoice] = "success"]
        \/ funding' = [funding EXCEPT ![call.invoice] = "pending"]
    BY <1>7 DEF PayTransfer
  <2>3. funding' \in [Invoices -> {"none", "pending", "success", "failed"}]
    BY <2>2 DEF WalletsOK
  <2>4. funds' \in Nat
    BY <1>7 DEF WalletsOK, PayTransfer, Covered
  <2>5. call' = [call EXCEPT !.stage = "finish"] \/ call' = NoCall
    BY <1>7 DEF PayTransfer
  <2>6. inbox' \subseteq Invoices
    BY <1>7, <2>1 DEF PayTransfer, TasksOK
  <2>7. TasksOK'
    BY <1>7, <2>5, <2>6, CallTyped DEF TasksOK, PayTransfer
  <2>. QED  BY <1>7, <2>3, <2>4, <2>7 DEF RecordsOK, WalletsOK, PayTransfer
<1>8. CASE Finish
  <2>1. transfer' \in [Feedings -> [state: {"none", "prepared", "paid"},
                                   invoice: Invoices \cup {Nobody}]]
    <3>1. call.feeding \in Feedings
      BY <1>8 DEF Finish, CallOK
    <3>2. [transfer[call.feeding] EXCEPT !.state = "paid"] \in
            [state: {"none", "prepared", "paid"}, invoice: Invoices \cup {Nobody}]
      BY <3>1 DEF RecordsOK
    <3>. QED  BY <1>8, <3>1, <3>2 DEF Finish, RecordsOK
  <2>. QED  BY <1>8, <2>1 DEF RecordsOK, WalletsOK, TasksOK, Finish
<1>9. CASE TransferFails
  BY <1>9 DEF RecordsOK, WalletsOK, TasksOK, TransferFails
<1>10. ASSUME NEW i \in Invoices, FundingSettles(i)
       PROVE  TypeOK'
  <2>1. \E state \in {"success", "failed"} : funding' = [funding EXCEPT ![i] = state]
    BY <1>10 DEF FundingSettles
  <2>2. funding' \in [Invoices -> {"none", "pending", "success", "failed"}]
    BY <2>1 DEF WalletsOK
  <2>3. funds' \in Nat /\ inbox' \subseteq Invoices
    BY <1>10 DEF FundingSettles, WalletsOK, TasksOK
  <2>. QED  BY <1>10, <2>2, <2>3 DEF RecordsOK, WalletsOK, TasksOK, FundingSettles
<1>11. ASSUME NEW i \in Invoices, DepositArrives(i)
       PROVE  TypeOK'
  BY <1>11 DEF RecordsOK, WalletsOK, TasksOK, DepositArrives
<1>12. ASSUME NEW i \in Invoices, Redeliver(i)
       PROVE  TypeOK'
  BY <1>12 DEF RecordsOK, WalletsOK, TasksOK, Redeliver
<1>13. ASSUME NEW i \in Invoices, NEW r \in Recipients, PayoutSettles(i, r)
       PROVE  TypeOK'
  BY <1>13 DEF RecordsOK, WalletsOK, TasksOK, PayoutSettles
<1>14. ASSUME NEW new \in SUBSET Recipients, Retarget(new)
       PROVE  TypeOK'
  BY <1>14 DEF RecordsOK, WalletsOK, TasksOK, Retarget
<1>15. CASE Crash
  BY <1>15 DEF RecordsOK, WalletsOK, TasksOK, Crash
<1>16. ASSUME NEW i \in Invoices, Deliver(i)
       PROVE  TypeOK'
  BY <1>16 DEF RecordsOK, WalletsOK, TasksOK, Deliver
<1>17. CASE FreezeForSplit
  <2>1. split.invoice \in Invoices /\ split.todo \in SUBSET Recipients
    BY <1>17 DEF FreezeForSplit, SplitOK, TasksOK
  <2>2. RecordsOK'
    BY <1>17, <2>1, FreezeEffect DEF FreezeForSplit, RecordsOK
  <2>3. manifest'[split.invoice] \in SUBSET Recipients
    BY <2>1, <2>2 DEF RecordsOK
  <2>. QED  BY <1>17, <2>2, <2>3 DEF WalletsOK, TasksOK, FreezeForSplit
<1>18. ASSUME NEW r \in Recipients, Claim(r)
       PROVE  TypeOK'
  <2>1. split.invoice \in Invoices
    BY <1>18 DEF Claim, SplitOK
  <2>2. record' \in [Invoices -> [Recipients -> RecordStates]]
    <3>1. record' = record \/ record' = [record EXCEPT ![split.invoice][r] = "preparing"]
      BY <1>18 DEF Claim
    <3>2. "preparing" \in RecordStates /\ record \in [Invoices -> [Recipients -> RecordStates]]
      BY DEF RecordStates, RecordsOK
    <3>3. [record EXCEPT ![split.invoice][r] = "preparing"] \in
            [Invoices -> [Recipients -> RecordStates]]
      BY <2>1, <3>2, UpdateType
    <3>. QED  BY <3>1, <3>2, <3>3
  <2>3. split' \in [stage: {"idle", "freeze", "claim", "invoice", "no_invoice"},
                    invoice: Invoices \cup {Nobody}, at: Recipients \cup {Nobody},
                    todo: SUBSET Recipients]
    <3>1. \/ split' = [split EXCEPT !.stage = "invoice", !.at = r, !.todo = @ \ {r}]
          \/ split' = [split EXCEPT !.todo = @ \ {r}]
      BY <1>18 DEF Claim
    <3>2. CASE split' = [split EXCEPT !.stage = "invoice", !.at = r, !.todo = @ \ {r}]
      BY <3>2 DEF TasksOK
    <3>3. CASE split' = [split EXCEPT !.todo = @ \ {r}]
      BY <3>3 DEF TasksOK
    <3>. QED  BY <3>1, <3>2, <3>3
  <2>. QED  BY <1>18, <2>2, <2>3 DEF RecordsOK, WalletsOK, TasksOK, Claim
<1>19. ASSUME NEW state \in {"too_small", "invoice_failed", "attempted"},
              split.stage \in {"invoice", "no_invoice"},
              Outcome(split.invoice, split.at, state)
       PROVE  record' \in [Invoices -> [Recipients -> RecordStates]]
  BY <1>19, OutcomeEffect DEF SplitOK, RecordStates
<1>20. CASE TooSmall
  BY <1>19, <1>20 DEF RecordsOK, WalletsOK, TasksOK, TooSmall
<1>21. CASE BelowMinimum
  BY <1>19, <1>21 DEF RecordsOK, WalletsOK, TasksOK, BelowMinimum
<1>22. CASE InvoiceFails
  BY <1>19, <1>22 DEF RecordsOK, WalletsOK, TasksOK, InvoiceFails
<1>23. CASE Attempt
  <2>1. <<split.invoice, split.at, "start">> \in Invoices \X Recipients \X {"start", "done"}
    BY <1>23 DEF Attempt, SplitOK
  <2>. QED  BY <1>19, <1>23, <2>1 DEF RecordsOK, WalletsOK, TasksOK, Attempt
<1>24. CASE LeaveInvoice
  BY <1>24 DEF RecordsOK, WalletsOK, TasksOK, LeaveInvoice
<1>25. ASSUME NEW i \in Invoices, NEW r \in Recipients, PayOut(i, r)
       PROVE  TypeOK'
  <2>1. WalletsOK'
    <3>1. /\ payout' = payout \/ payout' = [payout EXCEPT ![i][r] = "inflight"]
          /\ sent' = sent \/ sent' = [sent EXCEPT ![i][r] = @ + 1]
      BY <1>25 DEF PayOut
    <3>2. payout' \in [Invoices -> [Recipients -> {"none", "inflight", "success", "failed"}]]
      <4>1. [payout EXCEPT ![i][r] = "inflight"] \in
              [Invoices -> [Recipients -> {"none", "inflight", "success", "failed"}]]
        BY UpdateType DEF WalletsOK
      <4>. QED  BY <3>1, <4>1 DEF WalletsOK
    <3>3. sent' \in [Invoices -> [Recipients -> Nat]]
      <4>1. [sent EXCEPT ![i][r] = @ + 1] \in [Invoices -> [Recipients -> Nat]]
        BY DEF WalletsOK
      <4>. QED  BY <3>1, <4>1 DEF WalletsOK
    <3>. QED  BY <1>25, <3>2, <3>3 DEF WalletsOK, PayOut
  <2>2. paying' \subseteq Invoices \X Recipients \X {"start", "done"}
    BY <1>25 DEF TasksOK, PayOut
  <2>. QED  BY <1>25, <2>1, <2>2 DEF RecordsOK, TasksOK, PayOut
<1>26. ASSUME NEW i \in Invoices, NEW r \in Recipients, RecordPending(i, r)
       PROVE  TypeOK'
  <2>1. record' \in [Invoices -> [Recipients -> RecordStates]]
    BY <1>26, OutcomeEffect DEF RecordPending, RecordStates
  <2>. QED  BY <1>26, <2>1 DEF RecordsOK, WalletsOK, TasksOK, RecordPending
<1>27. ASSUME NEW i \in Invoices, NEW r \in Recipients, Look(i, r)
       PROVE  TypeOK'
  BY <1>27 DEF RecordsOK, WalletsOK, TasksOK, Look
<1>28. CASE Settle
  <2>1. work.invoice \in Invoices /\ work.at \in Recipients
    BY <1>28 DEF Settle, WorkOK
  <2>2. RecordsOK'
    <3>1. /\ \E state \in {"failed", "paid", "announced"} :
               record' = [record EXCEPT ![work.invoice][work.at] = state]
          /\ \/ notice' = notice
             \/ \E what \in {"treats", "skipped"} :
                  notice' = [notice EXCEPT ![work.invoice][work.at] =
                               IF @ = "none" THEN what ELSE @]
      BY <1>28 DEF Settle, Announce
    <3>2. {"failed", "paid", "announced"} \subseteq RecordStates
      BY DEF RecordStates
    <3>3. record' \in [Invoices -> [Recipients -> RecordStates]]
      BY <2>1, <3>1, <3>2, UpdateType DEF RecordsOK
    <3>4. notice' \in [Invoices -> [Recipients -> {"none", "treats", "skipped"}]]
      <4>1. CASE notice' = notice
        BY <4>1 DEF RecordsOK
      <4>2. ASSUME NEW what \in {"treats", "skipped"},
                   notice' = [notice EXCEPT ![work.invoice][work.at] =
                                IF @ = "none" THEN what ELSE @]
            PROVE  notice' \in [Invoices -> [Recipients -> {"none", "treats", "skipped"}]]
        BY <2>1, <4>2 DEF RecordsOK
      <4>. QED  BY <3>1, <4>1, <4>2
    <3>. QED  BY <1>28, <3>3, <3>4 DEF RecordsOK, Settle
  <2>. QED  BY <1>28, <2>2 DEF WalletsOK, TasksOK, Settle
<1>29. CASE UNCHANGED vars
  BY <1>29 DEF RecordsOK, WalletsOK, TasksOK, vars
<1>. QED
  BY <1>1, <1>2, <1>3, <1>4, <1>5, <1>6, <1>7, <1>8, <1>9, <1>10, <1>11, <1>12, <1>13, <1>14,
     <1>15, <1>16, <1>17, <1>18, <1>20, <1>21, <1>22, <1>23, <1>24, <1>25, <1>26, <1>27, <1>28,
     <1>29 DEF Next, Transfer, Outside, Split, Worker

-----------------------------------------------------------------------------
(* The transfer.                                                           *)

LEMMA TransferInit == Init => TransferInv
BY DEF Init, TransferInv, RecordedOK, FundedOK, UnusedOK, CallOK, Moves, NoCall

\* Steps that leave the records, invoices and the call of a transfer alone.
LEMMA TransferUntouched ==
  ASSUME TransferInv, UNCHANGED <<transferVars, purpose, funding>>, frozen \subseteq frozen'
  PROVE  TransferInv'
BY DEF TransferInv, RecordedOK, FundedOK, UnusedOK, CallOK, Moves, transferVars

LEMMA TransferStep ==
  ASSUME TypeOK, TransferInv, SplitOK, [Next]_vars
  PROVE  TransferInv'
<1>. USE DEF TransferInv, Advance, Return, NoCall, transferVars, freezeVars, walletVars, splitVars,
             payVars, workVars
<1>1. ASSUME NEW f \in Feedings, StartTransfer(f)
      PROVE  TransferInv'
  <2>1. CASE /\ transfer[f].state = "prepared"
             /\ call' = [NoCall EXCEPT !.stage = "targets", !.feeding = f,
                                       !.invoice = transfer[f].invoice]
    <3>1. transfer[f].state # "none" /\ transfer[f].invoice \in Invoices
      BY <2>1 DEF RecordedOK
    <3>2. CallOK'
      BY <1>1, <2>1, <3>1 DEF StartTransfer, CallOK
    <3>. QED  BY <1>1, <3>2 DEF StartTransfer, RecordedOK, FundedOK, UnusedOK, Moves
  <2>2. CASE /\ transfer[f].state = "none"
             /\ call' = [NoCall EXCEPT !.stage = "issue", !.feeding = f]
    <3>1. CallOK'
      BY <1>1, <2>2 DEF StartTransfer, CallOK
    <3>. QED  BY <1>1, <3>1 DEF StartTransfer, RecordedOK, FundedOK, UnusedOK, Moves
  <2>. QED  BY <1>1, <2>1, <2>2 DEF StartTransfer
<1>2. ASSUME NEW i \in Invoices, Issue(i)
      PROVE  TransferInv'
  <2>1. \A j \in Invoices, f \in Feedings : Moves(j, f)' => Moves(j, f)
    BY <1>2 DEF Issue, UnusedOK, Moves, TypeOK, WalletsOK
  <2>2. \A f \in Feedings : transfer[f].state # "none" => transfer[f].invoice # i
    BY <1>2, FeedingsAssumption DEF Issue, RecordedOK
  <2>. QED  BY <1>2, <2>1, <2>2, FeedingsAssumption
            DEF Issue, RecordedOK, FundedOK, UnusedOK, CallOK, TypeOK, WalletsOK, TasksOK
<1>3. CASE SavePrepared
  BY <1>3 DEF SavePrepared, RecordedOK, FundedOK, UnusedOK, CallOK, Moves, TypeOK, RecordsOK,
              TasksOK
<1>4. CASE ReadTargets
  BY <1>4 DEF ReadTargets, RecordedOK, FundedOK, UnusedOK, CallOK, Moves, TypeOK, TasksOK
<1>5. CASE FreezeForTransfer
  <2>1. call.invoice \in Invoices /\ call.seen \in SUBSET Recipients
    BY <1>5 DEF FreezeForTransfer, CallOK, TypeOK, TasksOK
  <2>2. call.invoice \in frozen' /\ frozen \subseteq frozen'
    BY <1>5, <2>1, FreezeEffect DEF FreezeForTransfer, TypeOK
  <2>. QED  BY <1>5, <2>2 DEF FreezeForTransfer, RecordedOK, FundedOK, UnusedOK, CallOK, Moves,
                              TypeOK, TasksOK
<1>6. CASE FoundPayment
  <2>1. CASE funding[call.invoice] = "success"
    BY <1>6, <2>1 DEF FoundPayment, RecordedOK, FundedOK, UnusedOK, CallOK, Moves, TypeOK, TasksOK
  <2>2. CASE funding[call.invoice] # "success"
    BY <1>6, <2>2 DEF FoundPayment, RecordedOK, FundedOK, UnusedOK, CallOK, Moves, TypeOK, TasksOK
  <2>. QED  BY <2>1, <2>2
<1>7. CASE PayTransfer
  <2>. DEFINE i == call.invoice
  <2>1. /\ i \in Invoices /\ i \in frozen /\ call.feeding \in Feedings
        /\ transfer[call.feeding].state # "none" /\ transfer[call.feeding].invoice = i
        /\ purpose[i] = call.feeding /\ call.stage = "pay"
    BY <1>7 DEF PayTransfer, CallOK, RecordedOK
  <2>2. /\ funding' \in [Invoices -> {"none", "pending", "success", "failed"}]
        /\ \A j \in Invoices : j # i => funding'[j] = funding[j]
        /\ funding'[i] # "none"
        /\ UNCHANGED <<transfer, frozen, purpose>>
    BY <1>7, <2>1 DEF PayTransfer, TypeOK, WalletsOK
  <2>3. RecordedOK'
    BY <1>7, <2>1, <2>2 DEF PayTransfer, RecordedOK, TypeOK, WalletsOK
  <2>4. FundedOK'
    BY <2>1, <2>2 DEF FundedOK, Moves
  <2>5. UnusedOK'
    BY <2>1, <2>2, FeedingsAssumption DEF UnusedOK
  <2>6. CallOK'
    <3>1. CASE funding'[i] = "success" /\ call' = [call EXCEPT !.stage = "finish"]
      BY <2>1, <2>2, <3>1 DEF CallOK, TypeOK, TasksOK
    <3>2. CASE call' = NoCall
      BY <3>2 DEF CallOK
    <3>. QED  BY <1>7, <2>1, <3>1, <3>2 DEF PayTransfer, TypeOK, WalletsOK
  <2>. QED  BY <2>3, <2>4, <2>5, <2>6
<1>8. CASE Finish
  BY <1>8 DEF Finish, RecordedOK, FundedOK, UnusedOK, CallOK, Moves, TypeOK, RecordsOK, TasksOK
<1>9. CASE TransferFails
  BY <1>9 DEF TransferFails, RecordedOK, FundedOK, UnusedOK, CallOK, Moves
<1>10. ASSUME NEW i \in Invoices, FundingSettles(i)
       PROVE  TransferInv'
  <2>1. /\ \A j \in Invoices : j # i => funding'[j] = funding[j]
        /\ funding[i] = "pending" /\ funding'[i] # "none"
        /\ UNCHANGED <<transfer, call, frozen, purpose>>
    BY <1>10 DEF FundingSettles, TypeOK, WalletsOK
  <2>. QED  BY <2>1 DEF RecordedOK, FundedOK, UnusedOK, CallOK, Moves
<1>11. ASSUME NEW i \in Invoices, DepositArrives(i)
       PROVE  TransferInv'
  <2>1. /\ purpose[i] = Nobody
        /\ purpose' = [purpose EXCEPT ![i] = Deposit]
        /\ funding' = [funding EXCEPT ![i] = "success"]
        /\ UNCHANGED <<transfer, call, frozen>>
    BY <1>11 DEF DepositArrives
  <2>2. Deposit # Nobody
    BY DEF Deposit, Nobody
  <2>. QED  BY <2>1, <2>2, FeedingsAssumption
            DEF RecordedOK, FundedOK, UnusedOK, CallOK, Moves, TypeOK, WalletsOK
<1>12. CASE Crash
  BY <1>12 DEF Crash, RecordedOK, FundedOK, UnusedOK, CallOK, Moves
<1>13. CASE FreezeForSplit
  <2>1. split.invoice \in Invoices /\ split.todo \in SUBSET Recipients
    BY <1>13 DEF FreezeForSplit, SplitOK, TypeOK, TasksOK
  <2>2. frozen \subseteq frozen'
    BY <1>13, <2>1, FreezeEffect DEF FreezeForSplit, TypeOK
  <2>. QED  BY <1>13, <2>2, TransferUntouched DEF FreezeForSplit
<1>14. CASE \/ \E i \in Invoices : Redeliver(i) \/ Deliver(i)
            \/ \E i \in Invoices, r \in Recipients :
                 PayoutSettles(i, r) \/ PayOut(i, r) \/ RecordPending(i, r) \/ Look(i, r)
            \/ \E new \in SUBSET Recipients : Retarget(new)
            \/ \E r \in Recipients : Claim(r)
            \/ TooSmall \/ BelowMinimum \/ InvoiceFails \/ Attempt \/ LeaveInvoice \/ Settle
  <2>1. UNCHANGED <<transferVars, purpose, funding, frozen>>
    BY <1>14 DEF Redeliver, Deliver, PayoutSettles, PayOut, RecordPending, Look, Retarget, Claim,
                 TooSmall, BelowMinimum, InvoiceFails, Attempt, LeaveInvoice, Settle
  <2>. QED  BY <2>1, TransferUntouched
<1>15. CASE UNCHANGED vars
  BY <1>15, TransferUntouched DEF vars
<1>. QED
  BY <1>1, <1>2, <1>3, <1>4, <1>5, <1>6, <1>7, <1>8, <1>9, <1>10, <1>11, <1>12, <1>13, <1>14, <1>15
     DEF Next, Transfer, Outside, Split, Worker

-----------------------------------------------------------------------------
(* The shares.                                                             *)

LEMMA PayoutInit == Init => PayoutInv
BY DEF Init, PayoutInv, SharesOK, ShareOK, Unpaid, SplitOK, WorkOK, NoSplit, NoWork

\* Steps that leave the shares, their tasks, the listener and the worker alone.
LEMMA PayoutUntouched ==
  ASSUME PayoutInv, UNCHANGED <<frozen, record, notice, payVars, split, work>>
  PROVE  PayoutInv'
BY DEF PayoutInv, SharesOK, ShareOK, Unpaid, SplitOK, WorkOK, payVars

\* A snapshot plans shares of an invoice that had none: no task and no verdict
\* is about them.
LEMMA FreezeKeepsShares ==
  ASSUME TypeOK, PayoutInv, NEW i \in Invoices, NEW seen \in SUBSET Recipients, Freeze(i, seen),
         UNCHANGED <<notice, payVars, work>>
  PROVE  /\ SharesOK' /\ WorkOK'
         /\ \A j \in frozen : record'[j] = record[j]
         /\ i \in frozen' /\ frozen \subseteq frozen'
<1>1. /\ i \in frozen' /\ frozen \subseteq frozen' /\ frozen' \subseteq frozen \cup {i}
      /\ \A j \in frozen : record'[j] = record[j]
      /\ \A j \in Invoices : j \notin frozen' => record'[j] = record[j]
      /\ \A j \in Invoices, r \in Recipients :
           record'[j][r] = record[j][r] \/ (j \notin frozen /\ record'[j][r] = "planned")
  BY FreezeEffect DEF TypeOK
<1>2. ASSUME NEW j \in Invoices, NEW r \in Recipients
      PROVE  ShareOK(j, r)'
  <2>1. ShareOK(j, r)
    BY DEF PayoutInv, SharesOK
  <2>2. CASE record'[j][r] = record[j][r]
    BY <1>1, <2>1, <2>2 DEF ShareOK, Unpaid, payVars
  <2>3. CASE j \notin frozen /\ record'[j][r] = "planned"
    <3>1. Unpaid(j, r) /\ record[j][r] = "none"
      BY <2>1, <2>3 DEF ShareOK
    <3>. QED  BY <1>1, <2>1, <2>3, <3>1 DEF ShareOK, Unpaid, payVars
  <2>. QED  BY <1>1, <2>2, <2>3
<1>3. WorkOK'
  <2>1. work.verdict # "none" =>
          /\ work.invoice \in Invoices /\ work.at \in Recipients
          /\ record[work.invoice][work.at] # "none"
    BY DEF PayoutInv, WorkOK, TypeOK, TasksOK
  <2>2. \A j \in Invoices, r \in Recipients : j \notin frozen => record[j][r] = "none"
    BY DEF PayoutInv, SharesOK, ShareOK
  <2>3. work.verdict # "none" => work.invoice \in frozen
    BY <2>1, <2>2
  <2>. QED  BY <1>1, <2>3 DEF PayoutInv, WorkOK, payVars, TypeOK, TasksOK
<1>. QED  BY <1>1, <1>2, <1>3 DEF SharesOK

\* The record of the share the listener holds is written; it was not paid, and
\* the worker has nothing to say of it unless it was skipped.
LEMMA WriteKeepsShares ==
  ASSUME TypeOK, PayoutInv, NEW i \in frozen, i \in Invoices, NEW r \in Recipients,
         NEW state \in {"preparing", "too_small", "invoice_failed"},
         record[i][r] \in {"planned", "preparing"},
         record' = [record EXCEPT ![i][r] = state],
         UNCHANGED <<frozen, notice, payVars, work>>
  PROVE  SharesOK' /\ WorkOK' /\ record'[i][r] = state
<1>1. /\ record'[i][r] = state
      /\ \A j \in Invoices, q \in Recipients : j # i \/ q # r => record'[j][q] = record[j][q]
  BY DEF TypeOK, RecordsOK
<1>2. ShareOK(i, r)'
  BY <1>1 DEF PayoutInv, SharesOK, ShareOK, Unpaid, payVars
<1>3. ASSUME NEW j \in Invoices, NEW q \in Recipients
      PROVE  ShareOK(j, q)'
  <2>1. CASE j = i /\ q = r
    BY <1>2, <2>1
  <2>2. CASE j # i \/ q # r
    BY <1>1, <2>2 DEF PayoutInv, SharesOK, ShareOK, Unpaid, payVars
  <2>. QED  BY <2>1, <2>2
<1>4. work.verdict # "none" => work.invoice # i \/ work.at # r
  BY DEF PayoutInv, WorkOK, TypeOK, TasksOK
<1>5. WorkOK'
  BY <1>1, <1>4 DEF PayoutInv, WorkOK, payVars, TypeOK, TasksOK
<1>. QED  BY <1>1, <1>3, <1>5 DEF SharesOK

LEMMA PayoutStep ==
  ASSUME TypeOK, TransferInv, PayoutInv, [Next]_vars
  PROVE  PayoutInv'
<1>. USE DEF NoSplit, NoWork, NextRecipient
<1>1. CASE FreezeForTransfer
  <2>1. call.invoice \in Invoices /\ call.seen \in SUBSET Recipients
    BY <1>1 DEF FreezeForTransfer, TransferInv, CallOK, TypeOK, TasksOK
  <2>2. SharesOK' /\ WorkOK' /\ (\A j \in frozen : record'[j] = record[j]) /\ frozen \subseteq frozen'
    BY <1>1, <2>1, FreezeKeepsShares DEF FreezeForTransfer, workVars
  <2>3. SplitOK'
    BY <1>1, <2>2 DEF FreezeForTransfer, PayoutInv, SplitOK, splitVars
  <2>. QED  BY <2>2, <2>3 DEF PayoutInv
<1>2. ASSUME NEW i \in Invoices, NEW r \in Recipients, PayoutSettles(i, r)
      PROVE  PayoutInv'
  <2>1. /\ payout[i][r] = "inflight" /\ payout'[i][r] \in {"success", "failed"}
        /\ \A j \in Invoices, q \in Recipients : j # i \/ q # r => payout'[j][q] = payout[j][q]
        /\ UNCHANGED <<frozen, record, notice, sent, paying, split, work>>
    BY <1>2 DEF PayoutSettles, freezeVars, splitVars, workVars, TypeOK, WalletsOK
  <2>2. SharesOK'
    <3>1. ASSUME NEW j \in Invoices, NEW q \in Recipients
          PROVE  ShareOK(j, q)'
      <4>. ShareOK(j, q)
        BY DEF PayoutInv, SharesOK
      <4>1. CASE j = i /\ q = r
        BY <2>1, <4>1 DEF ShareOK, Unpaid
      <4>2. CASE j # i \/ q # r
        BY <2>1, <4>2 DEF ShareOK, Unpaid
      <4>. QED  BY <4>1, <4>2
    <3>. QED  BY <3>1 DEF SharesOK
  <2>3. WorkOK'
    BY <2>1 DEF PayoutInv, WorkOK
  <2>. QED  BY <2>1, <2>2, <2>3 DEF PayoutInv, SplitOK
<1>3. CASE Crash
  <2>1. SharesOK'
    <3>1. ASSUME NEW j \in Invoices, NEW q \in Recipients
          PROVE  ShareOK(j, q)'
      <4>. ShareOK(j, q)
        BY DEF PayoutInv, SharesOK
      <4>. QED  BY <1>3 DEF Crash, ShareOK, Unpaid, freezeVars
    <3>. QED  BY <3>1 DEF SharesOK
  <2>2. SplitOK' /\ WorkOK'
    BY <1>3 DEF Crash, SplitOK, WorkOK
  <2>. QED  BY <2>1, <2>2 DEF PayoutInv
<1>4. ASSUME NEW i \in Invoices, Deliver(i)
      PROVE  PayoutInv'
  <2>1. SplitOK'
    BY <1>4 DEF Deliver, SplitOK
  <2>. QED  BY <1>4, <2>1 DEF Deliver, PayoutInv, SharesOK, ShareOK, Unpaid, WorkOK, freezeVars,
                              payVars, workVars
<1>5. CASE FreezeForSplit
  <2>1. split.invoice \in Invoices /\ split.todo \in SUBSET Recipients
    BY <1>5 DEF FreezeForSplit, PayoutInv, SplitOK, TypeOK, TasksOK
  <2>2. SharesOK' /\ WorkOK' /\ split.invoice \in frozen'
    BY <1>5, <2>1, FreezeKeepsShares DEF FreezeForSplit, workVars
  <2>3. SplitOK'
    BY <1>5, <2>1, <2>2 DEF FreezeForSplit, SplitOK, TypeOK, TasksOK
  <2>. QED  BY <2>2, <2>3 DEF PayoutInv
<1>6. ASSUME NEW r \in Recipients, Claim(r)
      PROVE  PayoutInv'
  <2>1. split.invoice \in Invoices /\ split.invoice \in frozen /\ split.stage = "claim"
    BY <1>6 DEF Claim, PayoutInv, SplitOK
  <2>2. CASE record[split.invoice][r] = "planned"
    <3>1. /\ record' = [record EXCEPT ![split.invoice][r] = "preparing"]
          /\ split' = [split EXCEPT !.stage = "invoice", !.at = r, !.todo = @ \ {r}]
          /\ UNCHANGED <<frozen, notice, payVars, work>>
      BY <1>6, <2>2 DEF Claim, freezeVars, workVars
    <3>2. SharesOK' /\ WorkOK' /\ record'[split.invoice][r] = "preparing"
      BY <2>1, <2>2, <3>1, WriteKeepsShares
    <3>3. SplitOK'
      BY <2>1, <3>1, <3>2 DEF SplitOK, TypeOK, TasksOK
    <3>. QED  BY <3>2, <3>3 DEF PayoutInv
  <2>3. CASE record[split.invoice][r] # "planned"
    <3>1. /\ split' = [split EXCEPT !.todo = @ \ {r}]
          /\ UNCHANGED <<frozen, record, notice, payVars, work>>
      BY <1>6, <2>3 DEF Claim, freezeVars, workVars
    <3>2. SplitOK'
      BY <2>1, <3>1 DEF SplitOK, TypeOK, TasksOK
    <3>. QED  BY <3>1, <3>2 DEF PayoutInv, SharesOK, ShareOK, Unpaid, WorkOK, payVars
  <2>. QED  BY <2>2, <2>3
<1>7. ASSUME NEW state \in {"too_small", "invoice_failed"}, split.stage = "invoice",
             Outcome(split.invoice, split.at, state), UNCHANGED <<frozen, notice, payVars, work>>
      PROVE  SharesOK' /\ WorkOK' /\ record'[split.invoice][split.at] = state
  <2>1. /\ split.invoice \in Invoices /\ split.invoice \in frozen /\ split.at \in Recipients
        /\ record[split.invoice][split.at] = "preparing"
    BY <1>7 DEF PayoutInv, SplitOK
  <2>2. record' = [record EXCEPT ![split.invoice][split.at] = state]
    BY <1>7, <2>1 DEF Outcome
  <2>. QED  BY <1>7, <2>1, <2>2, WriteKeepsShares
<1>8. CASE TooSmall
  <2>1. SharesOK' /\ WorkOK'
    BY <1>7, <1>8 DEF TooSmall, freezeVars, workVars
  <2>2. SplitOK'
    BY <1>8 DEF TooSmall, PayoutInv, SplitOK, TypeOK, TasksOK, freezeVars
  <2>. QED  BY <2>1, <2>2 DEF PayoutInv
<1>9. CASE BelowMinimum
  <2>1. SharesOK' /\ WorkOK' /\ record'[split.invoice][split.at] = "too_small"
    BY <1>7, <1>9 DEF BelowMinimum, freezeVars, workVars
  <2>2. SplitOK'
    BY <1>9, <2>1 DEF BelowMinimum, PayoutInv, SplitOK, TypeOK, TasksOK, freezeVars
  <2>. QED  BY <2>1, <2>2 DEF PayoutInv
<1>10. CASE InvoiceFails
  <2>1. UNCHANGED <<frozen, notice, payVars, work>>
    BY <1>10 DEF InvoiceFails, freezeVars, workVars
  <2>2. ASSUME split.stage = "invoice"
        PROVE  SharesOK' /\ WorkOK'
    BY <1>7, <1>10, <2>1, <2>2 DEF InvoiceFails
  <2>3. ASSUME split.stage = "no_invoice"
        PROVE  SharesOK' /\ WorkOK'
    <3>1. record' = record
      BY <1>10, <2>3 DEF PayoutInv, SplitOK, InvoiceFails, Outcome
    <3>. QED  BY <2>1, <3>1 DEF PayoutInv, SharesOK, ShareOK, Unpaid, WorkOK, payVars
  <2>4. SplitOK'
    BY <1>10 DEF InvoiceFails, PayoutInv, SplitOK, TypeOK, TasksOK, freezeVars
  <2>. QED  BY <1>10, <2>2, <2>3, <2>4 DEF InvoiceFails, PayoutInv
<1>11. CASE Attempt
  <2>. DEFINE i == split.invoice
              r == split.at
  <2>1. i \in Invoices /\ i \in frozen /\ r \in Recipients /\ record[i][r] = "preparing"
    BY <1>11 DEF Attempt, PayoutInv, SplitOK
  <2>2. /\ record'[i][r] = "attempted"
        /\ \A j \in Invoices, q \in Recipients : j # i \/ q # r => record'[j][q] = record[j][q]
        /\ paying' = paying \cup {<<i, r, "start">>}
        /\ UNCHANGED <<frozen, notice, payout, sent, work>>
    BY <1>11, <2>1, OutcomeEffect DEF Attempt, TypeOK, RecordStates, freezeVars, workVars
  <2>3. Unpaid(i, r) /\ notice[i][r] # "skipped" /\ notice[i][r] # "treats"
    BY <2>1 DEF PayoutInv, SharesOK, ShareOK, Unpaid
  <2>4. SharesOK'
    <3>1. ASSUME NEW j \in Invoices, NEW q \in Recipients
          PROVE  ShareOK(j, q)'
      <4>1. CASE j = i /\ q = r
        BY <2>1, <2>2, <2>3, <4>1 DEF ShareOK, Unpaid
      <4>2. CASE j # i \/ q # r
        BY <2>2, <4>2 DEF PayoutInv, SharesOK, ShareOK, Unpaid
      <4>. QED  BY <4>1, <4>2
    <3>. QED  BY <3>1 DEF SharesOK
  <2>5. work.verdict # "none" => work.invoice # i \/ work.at # r
    BY <2>1 DEF PayoutInv, WorkOK, TypeOK, TasksOK
  <2>6. WorkOK'
    BY <2>2, <2>5 DEF PayoutInv, WorkOK, TypeOK, TasksOK
  <2>7. SplitOK'
    BY <1>11, <2>2 DEF Attempt, PayoutInv, SplitOK, TypeOK, TasksOK
  <2>. QED  BY <2>4, <2>6, <2>7 DEF PayoutInv
<1>12. CASE LeaveInvoice
  BY <1>12 DEF LeaveInvoice, PayoutInv, SharesOK, ShareOK, Unpaid, SplitOK, WorkOK, freezeVars,
               payVars, workVars
<1>13. ASSUME NEW i \in Invoices, NEW r \in Recipients, PayOut(i, r)
       PROVE  PayoutInv'
  <2>1. sent[i][r] = 0 /\ payout[i][r] = "none" /\ record[i][r] = "attempted"
        /\ <<i, r, "done">> \notin paying
    BY <1>13 DEF PayOut, PayoutInv, SharesOK, ShareOK
  <2>2. UNCHANGED <<frozen, record, notice, split, work>>
    BY <1>13 DEF PayOut, freezeVars, splitVars, workVars
  <2>3. /\ \A j \in Invoices, q \in Recipients : j # i \/ q # r =>
             payout'[j][q] = payout[j][q] /\ sent'[j][q] = sent[j][q]
        /\ \/ payout'[i][r] = "none" /\ sent'[i][r] = 0 /\ <<i, r, "done">> \notin paying'
           \/ payout'[i][r] = "inflight" /\ sent'[i][r] = 1
        /\ <<i, r, "start">> \notin paying'
        /\ \A j \in Invoices, q \in Recipients, at \in {"start", "done"} : j # i \/ q # r =>
             (<<j, q, at>> \in paying' <=> <<j, q, at>> \in paying)
    BY <1>13, <2>1 DEF PayOut, TypeOK, WalletsOK
  <2>4. SharesOK'
    <3>1. ASSUME NEW j \in Invoices, NEW q \in Recipients
          PROVE  ShareOK(j, q)'
      <4>. ShareOK(j, q)
        BY DEF PayoutInv, SharesOK
      <4>1. CASE j = i /\ q = r
        BY <2>1, <2>2, <2>3, <4>1 DEF ShareOK, Unpaid
      <4>2. CASE j # i \/ q # r
        BY <2>2, <2>3, <4>2 DEF ShareOK, Unpaid
      <4>. QED  BY <4>1, <4>2
    <3>. QED  BY <3>1 DEF SharesOK
  <2>5. WorkOK'
    BY <2>1, <2>2, <2>3 DEF PayoutInv, WorkOK
  <2>. QED  BY <2>2, <2>4, <2>5 DEF PayoutInv, SplitOK
<1>14. ASSUME NEW i \in Invoices, NEW r \in Recipients, RecordPending(i, r)
       PROVE  PayoutInv'
  <2>1. sent[i][r] = 1
    BY <1>14 DEF RecordPending, PayoutInv, SharesOK, ShareOK
  <2>2. ~Unpaid(i, r) /\ record[i][r] \notin {"none", "planned", "preparing", "too_small"}
    <3>1. ~Unpaid(i, r)
      BY <2>1 DEF Unpaid
    <3>. QED  BY <3>1 DEF PayoutInv, SharesOK, ShareOK
  <2>3. /\ record'[i][r] \in {record[i][r], "pending"}
        /\ record[i][r] \in {"attempted", "pending"} => record'[i][r] = "pending"
        /\ \A j \in Invoices, q \in Recipients : j # i \/ q # r => record'[j][q] = record[j][q]
        /\ paying' = paying \ {<<i, r, "done">>}
        /\ UNCHANGED <<frozen, notice, payout, sent, split, work>>
    BY <1>14, OutcomeEffect
       DEF RecordPending, TypeOK, RecordStates, freezeVars, splitVars, workVars
  <2>4. SharesOK'
    <3>1. ASSUME NEW j \in Invoices, NEW q \in Recipients
          PROVE  ShareOK(j, q)'
      <4>. ShareOK(j, q)
        BY DEF PayoutInv, SharesOK
      <4>1. CASE j = i /\ q = r
        BY <2>1, <2>2, <2>3, <4>1 DEF ShareOK, Unpaid
      <4>2. CASE j # i \/ q # r
        BY <2>3, <4>2 DEF ShareOK, Unpaid
      <4>. QED  BY <4>1, <4>2
    <3>. QED  BY <3>1 DEF SharesOK
  <2>5. WorkOK'
    BY <2>2, <2>3 DEF PayoutInv, WorkOK, TypeOK, TasksOK
  <2>6. SplitOK'
    <3>1. split.stage \in {"invoice", "no_invoice"} =>
            record'[split.invoice][split.at] = record[split.invoice][split.at]
      <4>1. ASSUME split.stage \in {"invoice", "no_invoice"}, split.invoice = i, split.at = r
            PROVE  record'[i][r] = record[i][r]
        BY <1>14, <2>2, <4>1, OutcomeEffect
           DEF PayoutInv, SplitOK, RecordPending, TypeOK, RecordStates
      <4>. QED  BY <2>3, <4>1 DEF PayoutInv, SplitOK
    <3>. QED  BY <2>3, <3>1 DEF PayoutInv, SplitOK
  <2>. QED  BY <2>4, <2>5, <2>6 DEF PayoutInv
<1>15. ASSUME NEW i \in Invoices, NEW r \in Recipients, Look(i, r)
       PROVE  PayoutInv'
  <2>1. WorkOK'
    BY <1>15 DEF Look, WorkOK, payVars
  <2>. QED  BY <1>15, <2>1 DEF Look, PayoutInv, SharesOK, ShareOK, Unpaid, SplitOK, freezeVars,
                               splitVars, payVars
<1>16. CASE Settle
  <2>. PICK i \in Invoices, r \in Recipients : work.invoice = i /\ work.at = r
    BY <1>16 DEF Settle, PayoutInv, WorkOK
  <2>1. /\ work.verdict \in {"success", "failed"} =>
             payout[i][r] = work.verdict /\ record[i][r] \in {"attempted", "pending"}
        /\ work.verdict = "too_small" => record[i][r] = "too_small"
    BY <1>16 DEF Settle, PayoutInv, WorkOK
  <2>2. ShareOK(i, r)
    BY <2>1 DEF PayoutInv, SharesOK
  <2>3. /\ \A j \in Invoices, q \in Recipients : j # i \/ q # r =>
             record'[j][q] = record[j][q] /\ notice'[j][q] = notice[j][q]
        /\ \/ work.verdict = "failed" /\ record'[i][r] = "failed" /\ notice' = notice
           \/ work.verdict = "success" /\ record'[i][r] = "paid" /\ notice' = notice
           \/ /\ work.verdict = "success" /\ record'[i][r] = "announced"
              /\ notice'[i][r] \in {"treats", notice[i][r]}
           \/ /\ work.verdict = "too_small" /\ record'[i][r] = "announced"
              /\ notice'[i][r] \in {"skipped", notice[i][r]}
        /\ work' = NoWork
        /\ UNCHANGED <<frozen, payout, sent, paying, split>>
    <3>1. CASE work.verdict = "failed"
      BY <1>16, <2>1, <3>1 DEF Settle, TypeOK, RecordsOK, freezeVars, payVars, splitVars
    <3>2. CASE work.verdict = "success" /\ r \notin Members
      BY <1>16, <2>1, <3>2 DEF Settle, TypeOK, RecordsOK, freezeVars, payVars, splitVars
    <3>3. CASE work.verdict = "success" /\ r \in Members
      BY <1>16, <2>1, <3>3 DEF Settle, Announce, TypeOK, RecordsOK, freezeVars, payVars, splitVars
    <3>4. CASE work.verdict = "too_small"
      BY <1>16, <2>1, <3>4 DEF Settle, Announce, TypeOK, RecordsOK, freezeVars, payVars, splitVars
    <3>. QED  BY <1>16, <3>1, <3>2, <3>3, <3>4 DEF Settle
  <2>4. SharesOK'
    <3>1. ShareOK(i, r)'
      BY <2>1, <2>2, <2>3 DEF ShareOK, Unpaid
    <3>2. ASSUME NEW j \in Invoices, NEW q \in Recipients
          PROVE  ShareOK(j, q)'
      <4>. ShareOK(j, q)
        BY DEF PayoutInv, SharesOK
      <4>1. CASE j = i /\ q = r
        BY <2>3, <3>1, <4>1 DEF ShareOK, Unpaid
      <4>2. CASE j # i \/ q # r
        BY <2>3, <4>2 DEF ShareOK, Unpaid
      <4>. QED  BY <4>1, <4>2
    <3>. QED  BY <3>2 DEF SharesOK
  <2>5. WorkOK'
    BY <2>3 DEF WorkOK
  <2>6. SplitOK'
    <3>1. ASSUME split.stage = "invoice"
          PROVE  split.invoice # i \/ split.at # r
      BY <2>1, <2>3, <3>1 DEF PayoutInv, SplitOK
    <3>2. ASSUME split.stage = "no_invoice", split.invoice = i, split.at = r
          PROVE  record'[i][r] = "announced"
      BY <2>1, <2>3, <3>2 DEF PayoutInv, SplitOK
    <3>. QED  BY <2>3, <3>1, <3>2 DEF PayoutInv, SplitOK
  <2>. QED  BY <2>4, <2>5, <2>6 DEF PayoutInv
<1>17. CASE \/ \E f \in Feedings : StartTransfer(f)
            \/ \E i \in Invoices :
                 Issue(i) \/ FundingSettles(i) \/ DepositArrives(i) \/ Redeliver(i)
            \/ \E new \in SUBSET Recipients : Retarget(new)
            \/ SavePrepared \/ ReadTargets \/ FoundPayment \/ PayTransfer \/ Finish
            \/ TransferFails \/ UNCHANGED vars
  <2>1. UNCHANGED <<frozen, record, notice, payVars, split, work>>
    BY <1>17 DEF StartTransfer, Issue, FundingSettles, DepositArrives, Redeliver, Retarget,
                 SavePrepared, ReadTargets, FoundPayment, PayTransfer, Finish, TransferFails, vars,
                 freezeVars, payVars, splitVars, workVars
  <2>. QED  BY <2>1, PayoutUntouched
<1>. QED
  BY <1>1, <1>2, <1>3, <1>4, <1>5, <1>6, <1>8, <1>9, <1>10, <1>11, <1>12, <1>13, <1>14, <1>15,
     <1>16, <1>17 DEF Next, Transfer, Outside, Split, Worker

-----------------------------------------------------------------------------
(* The theorems.                                                           *)

\* The inductive invariant: feedings, shares, listener and worker agree with the
\* records in every reachable state.
THEOREM InvariantHolds == Spec => []DistributionInv
<1>1. Init => DistributionInv
  BY TypeInit, TransferInit, PayoutInit DEF DistributionInv
<1>2. DistributionInv /\ [Next]_vars => DistributionInv'
  BY TypeStep, TransferStep, PayoutStep DEF DistributionInv, TransferInv, PayoutInv
<1>. QED  BY <1>1, <1>2, PTL DEF Spec

\* Records, wallets, tasks and the listener are well typed, and the herd wallet is
\* never overdrawn.
THEOREM DistributionTypeCorrect == Spec => []TypeOK
<1>. QED  BY InvariantHolds, PTL DEF DistributionInv

\* A repeated, interrupted or unanswered transfer never moves the threshold of
\* one feeding twice, and one recorded as paid has moved it.
THEOREM FeedingMovedOnce == Spec => []FeedingMovesOnce
<1>1. DistributionInv => FeedingMovesOnce
  BY DEF DistributionInv, TransferInv, RecordedOK, FundedOK, FeedingMovesOnce, TypeOK, RecordsOK
<1>. QED  BY <1>1, InvariantHolds, PTL

\* No delivery, redelivery or crash makes SplitPayments start a second payment
\* to a recipient of one distribution.
THEOREM NobodyPaidTwice == Spec => []RecipientPaidOnce
<1>1. DistributionInv => RecipientPaidOnce
  <2>1. DistributionInv => \A i \in Invoices, r \in Recipients : sent[i][r] \in {0, 1}
    BY DEF DistributionInv, PayoutInv, SharesOK, ShareOK
  <2>. QED  BY <2>1 DEF RecipientPaidOnce
<1>. QED  BY <1>1, InvariantHolds, PTL

\* A received-treat notice is queued only for a settled payment and a skipped
\* notice only for a share that was never sent.
THEOREM NoticesTrue == Spec => []NoticesTellTheTruth
<1>1. DistributionInv => NoticesTellTheTruth
  BY DEF DistributionInv, PayoutInv, SharesOK, ShareOK, Unpaid, NoticesTellTheTruth
<1>. QED  BY <1>1, InvariantHolds, PTL

\* Once a feeding's payment exists no later snapshot changes its recipients.
THEOREM RecipientsStayFixed == Spec => RecipientsFixedAtFunding
<1>1. ASSUME DistributionInv, [Next]_vars,
             NEW i \in Invoices, purpose[i] \in Feedings, funding[i] # "none"
      PROVE  manifest'[i] = manifest[i]
  <2>1. i \in frozen
    BY <1>1 DEF DistributionInv, TransferInv, FundedOK, Moves
  <2>2. ASSUME NEW j \in Invoices, NEW seen \in SUBSET Recipients, Freeze(j, seen)
        PROVE  manifest'[i] = manifest[i]
    BY <1>1, <2>1, <2>2, FreezeEffect DEF DistributionInv, TypeOK
  <2>3. CASE FreezeForTransfer
    BY <1>1, <2>2, <2>3
       DEF FreezeForTransfer, DistributionInv, TransferInv, CallOK, TypeOK, TasksOK
  <2>4. CASE FreezeForSplit
    BY <1>1, <2>2, <2>4
       DEF FreezeForSplit, DistributionInv, PayoutInv, SplitOK, TypeOK, TasksOK
  <2>5. CASE ~FreezeForTransfer /\ ~FreezeForSplit
    <3>1. UNCHANGED manifest
      BY <1>1, <2>5
         DEF Next, Transfer, Outside, Split, Worker, StartTransfer, Issue, SavePrepared,
             ReadTargets, FoundPayment, PayTransfer, Finish, TransferFails, FundingSettles,
             DepositArrives, Redeliver, PayoutSettles, Retarget, Crash, Deliver, Claim, TooSmall,
             BelowMinimum, InvoiceFails, Attempt, LeaveInvoice, PayOut, RecordPending, Look,
             Settle, vars, freezeVars
    <3>. QED  BY <3>1
  <2>. QED  BY <2>3, <2>4, <2>5
<1>2. DistributionInv /\ [Next]_vars =>
        [\A i \in Invoices : purpose[i] \in Feedings /\ funding[i] # "none"
           => manifest'[i] = manifest[i]]_vars
  BY <1>1
<1>. QED  BY <1>2, InvariantHolds, PTL DEF Spec, RecipientsFixedAtFunding

\* A paid or announced share keeps its record for ever, a skipped one until it is
\* announced: late tasks and repeated deliveries take nothing back.
THEOREM OutcomesStand == Spec => OutcomeStands
<1>. DEFINE Stands == \A i \in Invoices, r \in Recipients :
              /\ record[i][r] \in {"paid", "announced"} => record'[i][r] = record[i][r]
              /\ record[i][r] = "too_small" => record'[i][r] \in {"too_small", "announced"}
<1>1. ASSUME DistributionInv, Next
      PROVE  Stands
  <2>. TypeOK /\ TransferInv /\ PayoutInv
    BY <1>1 DEF DistributionInv
  <2>1. ASSUME NEW i \in Invoices, NEW seen \in SUBSET Recipients, Freeze(i, seen)
        PROVE  Stands
    <3>1. \A j \in Invoices, r \in Recipients : j \notin frozen => record[j][r] = "none"
      BY DEF PayoutInv, SharesOK, ShareOK
    <3>2. \A j \in frozen : record'[j] = record[j]
      BY <2>1, FreezeEffect DEF TypeOK
    <3>3. \A j \in Invoices, r \in Recipients :
            record[j][r] # "none" => record'[j][r] = record[j][r]
      BY <3>1, <3>2
    <3>. QED  BY <3>3
  <2>2. ASSUME NEW i \in Invoices, NEW r \in Recipients, NEW state \in RecordStates,
               Outcome(i, r, state)
        PROVE  Stands
    BY <2>2, OutcomeEffect DEF TypeOK
  <2>3. CASE FreezeForTransfer
    BY <2>1, <2>3 DEF FreezeForTransfer, TransferInv, CallOK, TypeOK, TasksOK
  <2>4. CASE FreezeForSplit
    BY <2>1, <2>4 DEF FreezeForSplit, PayoutInv, SplitOK, TypeOK, TasksOK
  <2>5. CASE TooSmall \/ BelowMinimum \/ InvoiceFails \/ Attempt
    <3>1. split.invoice \in Invoices /\ split.at \in Recipients
      BY <2>5 DEF TooSmall, BelowMinimum, InvoiceFails, Attempt, PayoutInv, SplitOK
    <3>2. \E state \in RecordStates : Outcome(split.invoice, split.at, state)
      BY <2>5 DEF TooSmall, BelowMinimum, InvoiceFails, Attempt, RecordStates
    <3>. QED  BY <2>2, <3>1, <3>2
  <2>6. CASE \E i \in Invoices, r \in Recipients : RecordPending(i, r)
    BY <2>2, <2>6 DEF RecordPending, RecordStates
  <2>7. ASSUME NEW r \in Recipients, Claim(r)
        PROVE  Stands
    <3>1. CASE record[split.invoice][r] = "planned"
      BY <2>7, <3>1 DEF Claim, TypeOK, RecordsOK
    <3>2. CASE record[split.invoice][r] # "planned"
      BY <2>7, <3>2 DEF Claim
    <3>. QED  BY <3>1, <3>2
  <2>8. CASE Settle
    <3>. PICK i \in Invoices, r \in Recipients : work.invoice = i /\ work.at = r
      BY <2>8 DEF Settle, PayoutInv, WorkOK
    <3>1. /\ work.verdict \in {"success", "failed"} => record[i][r] \in {"attempted", "pending"}
          /\ work.verdict = "too_small" => record[i][r] = "too_small"
      BY DEF PayoutInv, WorkOK
    <3>2. /\ \A j \in Invoices, q \in Recipients : j # i \/ q # r => record'[j][q] = record[j][q]
          /\ work.verdict = "too_small" => record'[i][r] = "announced"
      BY <2>8 DEF Settle, Announce, TypeOK, RecordsOK
    <3>3. work.verdict \in {"success", "failed", "too_small"}
      BY <2>8 DEF Settle
    <3>. QED  BY <3>1, <3>2, <3>3
  <2>9. CASE UNCHANGED record
    BY <2>9
  <2>. QED
    BY <1>1, <2>3, <2>4, <2>5, <2>6, <2>7, <2>8, <2>9
       DEF Next, Transfer, Outside, Split, Worker, StartTransfer, Issue, SavePrepared, ReadTargets,
           FoundPayment, PayTransfer, Finish, TransferFails, FundingSettles, DepositArrives,
           Redeliver, PayoutSettles, Retarget, Crash, Deliver, LeaveInvoice, PayOut, Look
<1>2. DistributionInv /\ [Next]_vars => [Stands]_vars
  BY <1>1
<1>. QED  BY <1>2, InvariantHolds, PTL DEF Spec, OutcomeStands

-----------------------------------------------------------------------------
(* Distribution implements PayoutPromise.  The mapping needs to know where   *)
(* a payment comes from: every share beyond its plan, and every share the    *)
(* listener is about to claim, is on the fixed list of a settled invoice.    *)

\* The share is on the fixed list of an invoice that is paid.
Covers(i, r) == i \in frozen /\ funding[i] = "success" /\ r \in manifest[i]

ListenerOK ==
  /\ \A i \in inbox : funding[i] = "success"
  /\ split.stage # "idle" => funding[split.invoice] = "success"
  /\ split.stage \in {"claim", "invoice", "no_invoice"} =>
       \A r \in split.todo : Covers(split.invoice, r)
  /\ split.stage \in {"invoice", "no_invoice"} => Covers(split.invoice, split.at)

ClaimedOK ==
  \A i \in Invoices, r \in Recipients :
    record[i][r] \notin {"none", "planned"} => Covers(i, r)

\* Only a member's share is looked at for having been skipped.
SkippedOK == work.verdict = "too_small" => work.at \in Members

PromiseInv == ListenerOK /\ ClaimedOK /\ SkippedOK

\* A settled invoice stays settled and a fixed list stays as it is.
LEMMA CoverStays ==
  ASSUME DistributionInv, [Next]_vars, NEW i \in Invoices
  PROVE  /\ funding[i] = "success" => funding'[i] = "success"
         /\ i \in frozen => i \in frozen' /\ manifest'[i] = manifest[i]
         /\ \A r : Covers(i, r) => Covers(i, r)'
<1>. TypeOK /\ TransferInv /\ PayoutInv
  BY DEF DistributionInv
<1>1. funding[i] = "success" => funding'[i] = "success"
  <2>1. ASSUME NEW j \in Invoices, FundingSettles(j)
        PROVE  funding[i] = "success" => funding'[i] = "success"
    BY <2>1 DEF FundingSettles, TypeOK, WalletsOK
  <2>2. ASSUME NEW j \in Invoices, DepositArrives(j)
        PROVE  funding[i] = "success" => funding'[i] = "success"
    BY <2>2 DEF DepositArrives, TypeOK, WalletsOK
  <2>3. CASE PayTransfer
    BY <2>3 DEF PayTransfer, TypeOK, WalletsOK
  <2>4. CASE UNCHANGED funding
    BY <2>4
  <2>. QED
    BY <2>1, <2>2, <2>3, <2>4
       DEF Next, Transfer, Outside, Split, Worker, StartTransfer, Issue, SavePrepared, ReadTargets,
           FreezeForTransfer, FoundPayment, Finish, TransferFails, Redeliver, PayoutSettles,
           Retarget, Crash, Deliver, FreezeForSplit, Claim, TooSmall, BelowMinimum, InvoiceFails,
           Attempt, LeaveInvoice, PayOut, RecordPending, Look, Settle, vars, walletVars
<1>2. i \in frozen => i \in frozen' /\ manifest'[i] = manifest[i]
  <2>1. ASSUME NEW j \in Invoices, NEW seen \in SUBSET Recipients, Freeze(j, seen)
        PROVE  i \in frozen => i \in frozen' /\ manifest'[i] = manifest[i]
    BY <2>1, FreezeEffect DEF TypeOK
  <2>2. CASE FreezeForTransfer
    BY <2>1, <2>2 DEF FreezeForTransfer, TransferInv, CallOK, TypeOK, TasksOK
  <2>3. CASE FreezeForSplit
    BY <2>1, <2>3 DEF FreezeForSplit, PayoutInv, SplitOK, TypeOK, TasksOK
  <2>4. CASE UNCHANGED freezeVars
    BY <2>4 DEF freezeVars
  <2>. QED
    BY <2>2, <2>3, <2>4
       DEF Next, Transfer, Outside, Split, Worker, StartTransfer, Issue, SavePrepared, ReadTargets,
           FoundPayment, PayTransfer, Finish, TransferFails, FundingSettles, DepositArrives,
           Redeliver, PayoutSettles, Retarget, Crash, Deliver, Claim, TooSmall, BelowMinimum,
           InvoiceFails, Attempt, LeaveInvoice, PayOut, RecordPending, Look, Settle, vars,
           freezeVars
<1>. QED  BY <1>1, <1>2 DEF Covers

\* A record is written for a share that is covered, if it is not a plan.
LEMMA WritesAreCovered ==
  ASSUME DistributionInv, PromiseInv, [Next]_vars, NEW i \in Invoices, NEW r \in Recipients
  PROVE  record'[i][r] = record[i][r] \/ record'[i][r] = "planned" \/ Covers(i, r)
<1>. TypeOK /\ TransferInv /\ PayoutInv
  BY DEF DistributionInv
<1>. DEFINE Written == record'[i][r] = record[i][r] \/ record'[i][r] = "planned" \/ Covers(i, r)
<1>1. ASSUME NEW j \in Invoices, NEW seen \in SUBSET Recipients, Freeze(j, seen)
      PROVE  Written
  BY <1>1, FreezeEffect DEF TypeOK
<1>2. ASSUME NEW j \in Invoices, NEW q \in Recipients, NEW state \in RecordStates,
             Outcome(j, q, state), Covers(j, q)
      PROVE  Written
  BY <1>2, OutcomeEffect DEF TypeOK
<1>3. CASE FreezeForTransfer
  BY <1>1, <1>3 DEF FreezeForTransfer, TransferInv, CallOK, TypeOK, TasksOK
<1>4. CASE FreezeForSplit
  BY <1>1, <1>4 DEF FreezeForSplit, PayoutInv, SplitOK, TypeOK, TasksOK
<1>5. ASSUME NEW q \in Recipients, Claim(q)
      PROVE  Written
  <2>1. split.invoice \in Invoices /\ Covers(split.invoice, q)
    BY <1>5 DEF Claim, PromiseInv, ListenerOK, PayoutInv, SplitOK
  <2>2. CASE record[split.invoice][q] = "planned"
    BY <1>5, <2>1, <2>2 DEF Claim, TypeOK, RecordsOK
  <2>3. CASE record[split.invoice][q] # "planned"
    BY <1>5, <2>3 DEF Claim
  <2>. QED  BY <2>2, <2>3
<1>6. CASE TooSmall \/ BelowMinimum \/ InvoiceFails \/ Attempt
  <2>1. split.invoice \in Invoices /\ split.at \in Recipients /\ Covers(split.invoice, split.at)
    BY <1>6 DEF TooSmall, BelowMinimum, InvoiceFails, Attempt, PayoutInv, SplitOK, PromiseInv,
                ListenerOK
  <2>2. \E state \in RecordStates : Outcome(split.invoice, split.at, state)
    BY <1>6 DEF TooSmall, BelowMinimum, InvoiceFails, Attempt, RecordStates
  <2>. QED  BY <1>2, <2>1, <2>2
<1>7. ASSUME NEW j \in Invoices, NEW q \in Recipients, RecordPending(j, q)
      PROVE  Written
  <2>1. sent[j][q] = 1
    BY <1>7 DEF RecordPending, PayoutInv, SharesOK, ShareOK
  <2>2. record[j][q] \notin {"none", "planned"}
    <3>1. ~Unpaid(j, q)
      BY <2>1 DEF Unpaid
    <3>. QED  BY <3>1 DEF PayoutInv, SharesOK, ShareOK
  <2>3. Covers(j, q)
    BY <2>2 DEF PromiseInv, ClaimedOK
  <2>. QED  BY <1>2, <1>7, <2>3 DEF RecordPending, RecordStates
<1>8. CASE Settle
  <2>. PICK j \in Invoices, q \in Recipients : work.invoice = j /\ work.at = q
    BY <1>8 DEF Settle, PayoutInv, WorkOK
  <2>1. record[j][q] \notin {"none", "planned"}
    BY <1>8 DEF Settle, PayoutInv, WorkOK
  <2>2. Covers(j, q)
    BY <2>1 DEF PromiseInv, ClaimedOK
  <2>3. j # i \/ q # r => record'[i][r] = record[i][r]
    BY <1>8 DEF Settle, Announce, TypeOK, RecordsOK
  <2>. QED  BY <2>2, <2>3
<1>9. CASE UNCHANGED record
  BY <1>9
<1>. QED
  BY <1>3, <1>4, <1>5, <1>6, <1>7, <1>8, <1>9
     DEF Next, Transfer, Outside, Split, Worker, StartTransfer, Issue, SavePrepared, ReadTargets,
         FoundPayment, PayTransfer, Finish, TransferFails, FundingSettles, DepositArrives,
         Redeliver, PayoutSettles, Retarget, Crash, Deliver, LeaveInvoice, PayOut, Look, vars

\* The listener takes settled invoices only, and claims what their list covers.
LEMMA ListenerStep ==
  ASSUME DistributionInv, ListenerOK, [Next]_vars
  PROVE  ListenerOK'
<1>. TypeOK /\ TransferInv /\ PayoutInv
  BY DEF DistributionInv
<1>1. \A i \in Invoices : funding[i] = "success" => funding'[i] = "success"
  BY CoverStays
<1>2. \A i \in Invoices : \A r : Covers(i, r) => Covers(i, r)'
  BY CoverStays
<1>3. /\ inbox \subseteq Invoices /\ split.todo \subseteq Recipients
      /\ split.stage # "idle" => split.invoice \in Invoices
  BY DEF PayoutInv, SplitOK, TypeOK, TasksOK
<1>4. CASE UNCHANGED splitVars
  BY <1>1, <1>2, <1>3, <1>4 DEF ListenerOK, splitVars
<1>5. CASE Crash
  BY <1>5 DEF Crash, ListenerOK, NoSplit
<1>6. CASE LeaveInvoice
  BY <1>1, <1>3, <1>6 DEF LeaveInvoice, ListenerOK, NoSplit
<1>7. CASE split' = split /\ \A i \in inbox' : i \in inbox \/ funding'[i] = "success"
  BY <1>1, <1>2, <1>3, <1>7 DEF ListenerOK
<1>8. CASE PayTransfer \/ \E i \in Invoices : FundingSettles(i) \/ DepositArrives(i) \/ Redeliver(i)
  <2>1. CASE PayTransfer
    BY <1>7, <2>1 DEF PayTransfer, TransferInv, CallOK, TypeOK, WalletsOK
  <2>2. ASSUME NEW i \in Invoices, FundingSettles(i) \/ DepositArrives(i) \/ Redeliver(i)
        PROVE  ListenerOK'
    BY <1>7, <2>2 DEF FundingSettles, DepositArrives, Redeliver, TypeOK, WalletsOK, walletVars
  <2>. QED  BY <1>8, <2>1, <2>2
<1>9. ASSUME NEW i \in Invoices, Deliver(i)
      PROVE  ListenerOK'
  BY <1>9 DEF Deliver, ListenerOK, NoSplit, walletVars
<1>10. CASE FreezeForSplit
  <2>1. split.invoice \in Invoices /\ split.todo \in SUBSET Recipients
    BY <1>3, <1>10 DEF FreezeForSplit
  <2>2. split.invoice \in frozen'
    BY <1>10, <2>1, FreezeEffect DEF FreezeForSplit, TypeOK
  <2>3. /\ split'.stage = "claim" /\ split'.invoice = split.invoice
        /\ split'.todo = manifest'[split.invoice] /\ inbox' = inbox
    BY <1>10 DEF FreezeForSplit, TypeOK, TasksOK
  <2>4. funding'[split.invoice] = "success"
    BY <1>1, <1>10, <2>1 DEF FreezeForSplit, ListenerOK
  <2>5. \A i \in inbox : funding'[i] = "success"
    BY <1>1, <1>3 DEF ListenerOK
  <2>. QED  BY <2>2, <2>3, <2>4, <2>5 DEF ListenerOK, Covers
<1>11. CASE \/ \E r \in Recipients : Claim(r)
            \/ TooSmall \/ BelowMinimum \/ InvoiceFails \/ Attempt
  <2>1. /\ split'.invoice = split.invoice /\ split'.todo \subseteq split.todo
        /\ inbox' = inbox /\ split.stage \in {"claim", "invoice", "no_invoice"}
        /\ split'.stage \in {"invoice", "no_invoice"} =>
             split'.at \in split.todo \/ (split'.at = split.at /\ split.stage = "invoice")
    <3>1. ASSUME NEW r \in Recipients, Claim(r)
          PROVE  <2>1!:
      <4>1. split.stage = "claim" /\ r \in split.todo /\ inbox' = inbox
        BY <3>1 DEF Claim
      <4>2. CASE split' = [split EXCEPT !.stage = "invoice", !.at = r, !.todo = @ \ {r}]
        <5>1. /\ split'.invoice = split.invoice /\ split'.todo = split.todo \ {r}
              /\ split'.at = r
          BY <4>2 DEF TypeOK, TasksOK
        <5>. QED  BY <4>1, <5>1
      <4>3. CASE split' = [split EXCEPT !.todo = @ \ {r}]
        <5>1. /\ split'.invoice = split.invoice /\ split'.todo = split.todo \ {r}
              /\ split'.stage = split.stage
          BY <4>3 DEF TypeOK, TasksOK
        <5>. QED  BY <4>1, <5>1
      <4>. QED  BY <3>1, <4>2, <4>3 DEF Claim
    <3>2. CASE TooSmall \/ InvoiceFails \/ Attempt
      BY <3>2 DEF TooSmall, InvoiceFails, Attempt, NextRecipient, TypeOK, TasksOK
    <3>3. CASE BelowMinimum
      BY <3>3 DEF BelowMinimum, TypeOK, TasksOK
    <3>. QED  BY <1>11, <3>1, <3>2, <3>3
  <2>2. split.invoice \in Invoices
    BY <1>3, <2>1
  <2>. QED  BY <1>1, <1>2, <1>3, <2>1, <2>2 DEF ListenerOK
<1>. QED
  BY <1>4, <1>5, <1>6, <1>8, <1>9, <1>10, <1>11
     DEF Next, Transfer, Outside, Split, Worker, StartTransfer, Issue, SavePrepared, ReadTargets,
         FreezeForTransfer, FoundPayment, Finish, TransferFails, PayoutSettles, Retarget, PayOut,
         RecordPending, Look, Settle, vars, splitVars

\* Only covered shares get beyond their plan.
LEMMA ClaimedStep ==
  ASSUME DistributionInv, PromiseInv, [Next]_vars
  PROVE  ClaimedOK'
<1>1. ASSUME NEW i \in Invoices, NEW r \in Recipients, record'[i][r] \notin {"none", "planned"}
      PROVE  Covers(i, r)'
  <2>1. record'[i][r] = record[i][r] \/ record'[i][r] = "planned" \/ Covers(i, r)
    BY WritesAreCovered
  <2>2. Covers(i, r)
    BY <1>1, <2>1 DEF PromiseInv, ClaimedOK
  <2>. QED  BY <2>2, CoverStays
<1>. QED  BY <1>1 DEF ClaimedOK

LEMMA SkippedStep ==
  ASSUME SkippedOK, [Next]_vars
  PROVE  SkippedOK'
<1>1. ASSUME NEW i \in Invoices, NEW r \in Recipients, Look(i, r)
      PROVE  SkippedOK'
  BY <1>1 DEF Look, SkippedOK
<1>2. CASE Settle \/ Crash
  BY <1>2 DEF Settle, Crash, NoWork, SkippedOK
<1>3. CASE UNCHANGED work
  BY <1>3 DEF SkippedOK
<1>. QED
  BY <1>1, <1>2, <1>3
     DEF Next, Transfer, Outside, Split, Worker, StartTransfer, Issue, SavePrepared, ReadTargets,
         FreezeForTransfer, FoundPayment, PayTransfer, Finish, TransferFails, FundingSettles,
         DepositArrives, Redeliver, PayoutSettles, Retarget, Deliver, FreezeForSplit, Claim,
         TooSmall, BelowMinimum, InvoiceFails, Attempt, LeaveInvoice, PayOut, RecordPending, vars,
         workVars

LEMMA PromiseInvHolds == Spec => []PromiseInv
<1>1. Init => PromiseInv
  BY DEF Init, PromiseInv, ListenerOK, ClaimedOK, SkippedOK, NoSplit, NoWork
<1>2. DistributionInv /\ PromiseInv /\ [Next]_vars => PromiseInv'
  BY ListenerStep, ClaimedStep, SkippedStep DEF PromiseInv
<1>. QED  BY <1>1, <1>2, InvariantHolds, PTL DEF Spec

\* What the promise does not see.
LEMMA PromiseStutter ==
  ASSUME UNCHANGED <<frozen, manifest, FedInvoices, SettledInvoices, payout, notice>>
  PROVE  UNCHANGED Promise!promise
BY DEF Promise!promise

\* The first snapshot fixes the list of an invoice no feeding has paid; a later
\* one is not seen.
LEMMA FreezeIsList ==
  ASSUME DistributionInv, NEW i \in Invoices, NEW seen \in SUBSET Recipients, Freeze(i, seen),
         UNCHANGED <<walletVars, payout, notice>>
  PROVE  [Promise!Next]_(Promise!promise)
<1>1. UNCHANGED <<FedInvoices, SettledInvoices>>
  BY DEF walletVars, FedInvoices, SettledInvoices
<1>2. CASE i \in frozen
  BY <1>1, <1>2, PromiseStutter DEF Freeze, freezeVars
<1>3. CASE i \notin frozen
  <2>1. i \notin FedInvoices
    BY <1>3 DEF FedInvoices, DistributionInv, TransferInv, FundedOK, Moves
  <2>2. Promise!List(i, seen)
    BY <1>1, <1>3, <2>1 DEF Promise!List, Freeze
  <2>. QED  BY <2>2 DEF Promise!Next
<1>. QED  BY <1>2, <1>3

\* Money comes in: a feeding pays an invoice whose list is fixed, or somebody
\* else pays one.
LEMMA FundingIsFeedOrReceive ==
  ASSUME DistributionInv, UNCHANGED <<frozen, manifest, payout, notice>>,
         \/ PayTransfer
         \/ \E i \in Invoices : Issue(i) \/ FundingSettles(i) \/ DepositArrives(i)
  PROVE  [Promise!Next]_(Promise!promise)
<1>. TypeOK /\ TransferInv
  BY DEF DistributionInv
<1>. USE DEF FedInvoices, SettledInvoices
<1>1. ASSUME NEW i \in Invoices, i \in frozen, FedInvoices' = FedInvoices \cup {i},
             SettledInvoices' \in {SettledInvoices, SettledInvoices \cup {i}}
      PROVE  Promise!Next
  <2>1. Promise!Feed(i)
    BY <1>1 DEF Promise!Feed
  <2>. QED  BY <2>1 DEF Promise!Next
<1>2. ASSUME NEW i \in Invoices, i \notin FedInvoices, UNCHANGED FedInvoices,
             SettledInvoices' = SettledInvoices \cup {i}
      PROVE  Promise!Next
  <2>1. Promise!Receive(i)
    BY <1>2 DEF Promise!Receive
  <2>. QED  BY <2>1 DEF Promise!Next
<1>3. CASE PayTransfer
  <2>. DEFINE i == call.invoice
  <2>1. i \in Invoices /\ i \in frozen /\ purpose[i] \in Feedings
    BY <1>3 DEF PayTransfer, TransferInv, CallOK, RecordedOK
  <2>2. /\ funding[i] = "none" /\ purpose' = purpose
        /\ \E state \in {"success", "pending"} : funding' = [funding EXCEPT ![i] = state]
    BY <1>3 DEF PayTransfer
  <2>3. /\ FedInvoices' = FedInvoices \cup {i}
        /\ SettledInvoices' \in {SettledInvoices, SettledInvoices \cup {i}}
    BY <2>1, <2>2 DEF TypeOK, WalletsOK
  <2>. QED  BY <1>1, <2>1, <2>3
<1>4. ASSUME NEW i \in Invoices, Issue(i)
      PROVE  UNCHANGED Promise!promise
  <2>1. funding[i] = "none" /\ purpose' = [purpose EXCEPT ![i] = call.feeding] /\ funding' = funding
    BY <1>4 DEF Issue, TransferInv, UnusedOK
  <2>2. UNCHANGED <<FedInvoices, SettledInvoices>>
    BY <2>1 DEF TypeOK, WalletsOK
  <2>. QED  BY <2>2, PromiseStutter
<1>5. ASSUME NEW i \in Invoices, FundingSettles(i)
      PROVE  [Promise!Next]_(Promise!promise)
  <2>1. funding[i] = "pending" /\ purpose' = purpose
    BY <1>5 DEF FundingSettles
  <2>2. CASE funding' = [funding EXCEPT ![i] = "failed"]
    <3>1. UNCHANGED <<FedInvoices, SettledInvoices>>
      BY <2>1, <2>2 DEF TypeOK, WalletsOK
    <3>. QED  BY <3>1, PromiseStutter
  <2>3. CASE funding' = [funding EXCEPT ![i] = "success"]
    <3>1. UNCHANGED FedInvoices /\ SettledInvoices' = SettledInvoices \cup {i}
      BY <2>1, <2>3 DEF TypeOK, WalletsOK
    <3>2. CASE i \in FedInvoices
      <4>1. i \in frozen /\ FedInvoices' = FedInvoices \cup {i}
        BY <3>1, <3>2 DEF TransferInv, FundedOK, Moves
      <4>. QED  BY <1>1, <3>1, <4>1
    <3>3. CASE i \notin FedInvoices
      BY <1>2, <3>1, <3>3
    <3>. QED  BY <3>2, <3>3
  <2>. QED  BY <1>5, <2>2, <2>3 DEF FundingSettles
<1>6. ASSUME NEW i \in Invoices, DepositArrives(i)
      PROVE  Promise!Next
  <2>1. /\ purpose[i] = Nobody /\ purpose' = [purpose EXCEPT ![i] = Deposit]
        /\ funding' = [funding EXCEPT ![i] = "success"]
    BY <1>6 DEF DepositArrives
  <2>2. i \notin FedInvoices /\ UNCHANGED FedInvoices
    BY <2>1, FeedingsAssumption DEF TypeOK, WalletsOK
  <2>3. SettledInvoices' = SettledInvoices \cup {i}
    BY <2>1 DEF TypeOK, WalletsOK
  <2>. QED  BY <1>2, <2>2, <2>3
<1>. QED  BY <1>3, <1>4, <1>5, <1>6

\* A started payment was promised, and a member hears what the payment did.
LEMMA SharesArePaidAndTold ==
  ASSUME DistributionInv, PromiseInv, UNCHANGED <<frozen, manifest, walletVars>>,
         \/ Settle
         \/ \E i \in Invoices, r \in Recipients : PayoutSettles(i, r) \/ PayOut(i, r)
  PROVE  [Promise!Next]_(Promise!promise)
<1>. TypeOK /\ PayoutInv
  BY DEF DistributionInv
<1>1. UNCHANGED <<FedInvoices, SettledInvoices>>
  BY DEF walletVars, FedInvoices, SettledInvoices
<1>2. \A i \in Invoices, r \in Recipients : Covers(i, r) => i \in SettledInvoices /\ r \in manifest[i]
  BY DEF Covers, SettledInvoices
<1>3. ASSUME NEW i \in Invoices, NEW r \in Recipients, PayOut(i, r)
      PROVE  [Promise!Next]_(Promise!promise)
  <2>1. CASE payout' = payout
    BY <1>1, <1>3, <2>1, PromiseStutter DEF PayOut, workVars
  <2>2. CASE payout' = [payout EXCEPT ![i][r] = "inflight"]
    <3>1. ShareOK(i, r) /\ <<i, r, "start">> \in paying
      BY <1>3 DEF PayOut, PayoutInv, SharesOK
    <3>2. payout[i][r] = "none" /\ record[i][r] = "attempted"
      BY <3>1 DEF ShareOK
    <3>3. notice[i][r] = "none"
      BY <3>1, <3>2 DEF ShareOK, TypeOK, RecordsOK
    <3>4. i \in SettledInvoices /\ r \in manifest[i]
      BY <1>2, <3>2 DEF PromiseInv, ClaimedOK
    <3>5. Promise!Pay(i, r)
      BY <1>1, <1>3, <2>2, <3>2, <3>3, <3>4 DEF Promise!Pay, PayOut, workVars
    <3>. QED  BY <3>5 DEF Promise!Next
  <2>. QED  BY <1>3, <2>1, <2>2 DEF PayOut
<1>4. ASSUME NEW i \in Invoices, NEW r \in Recipients, PayoutSettles(i, r)
      PROVE  Promise!Next
  <2>1. Promise!Conclude(i, r)
    BY <1>1, <1>4 DEF Promise!Conclude, PayoutSettles, workVars
  <2>. QED  BY <2>1 DEF Promise!Next
<1>5. CASE Settle
  <2>. PICK i \in Invoices, r \in Recipients : work.invoice = i /\ work.at = r
    BY <1>5 DEF Settle, PayoutInv, WorkOK
  <2>1. payout' = payout
    BY <1>5 DEF Settle, payVars
  <2>2. CASE notice' = notice
    BY <1>1, <2>1, <2>2, PromiseStutter
  <2>3. CASE notice' # notice
    <3>1. /\ \/ work.verdict = "success" /\ r \in Members /\ Announce(i, r, "treats")
             \/ work.verdict = "too_small" /\ Announce(i, r, "skipped")
      BY <1>5, <2>3 DEF Settle
    <3>2. ShareOK(i, r)
      BY DEF PayoutInv, SharesOK
    <3>3. record[i][r] \notin {"none", "planned"}
      BY <3>1 DEF PayoutInv, WorkOK
    <3>4. i \in SettledInvoices /\ r \in manifest[i]
      BY <1>2, <3>3 DEF PromiseInv, ClaimedOK
    <3>5. notice[i][r] = "none"
      BY <2>3, <3>1 DEF Announce, TypeOK, RecordsOK
    <3>6. CASE work.verdict = "success" /\ r \in Members /\ Announce(i, r, "treats")
      <4>1. payout[i][r] = "success" /\ notice' = [notice EXCEPT ![i][r] = "treats"]
        BY <3>5, <3>6 DEF PayoutInv, WorkOK, Announce
      <4>. QED  BY <1>1, <2>1, <3>4, <3>5, <3>6, <4>1 DEF Promise!Tell, Promise!Next
    <3>7. CASE work.verdict = "too_small" /\ Announce(i, r, "skipped")
      <4>1. payout[i][r] = "none" /\ notice' = [notice EXCEPT ![i][r] = "skipped"]
        BY <3>2, <3>5, <3>7 DEF PayoutInv, WorkOK, ShareOK, Unpaid, Announce
      <4>2. r \in Members
        BY <3>7 DEF PromiseInv, SkippedOK
      <4>. QED  BY <1>1, <2>1, <3>4, <3>5, <4>1, <4>2 DEF Promise!Tell, Promise!Next
    <3>. QED  BY <3>1, <3>6, <3>7
  <2>. QED  BY <2>2, <2>3
<1>. QED  BY <1>3, <1>4, <1>5

\* Through crashes, repeated deliveries and transfers, lost replies and changed
\* targets, SplitPayments and the worker do only what PayoutPromise allows.
THEOREM DistributionKeepsPromise == Spec => PayoutsAsPromised
<1>1. Init => Promise!Init
  BY DEF Init, Promise!Init, FedInvoices, SettledInvoices
<1>2. ASSUME DistributionInv, PromiseInv, [Next]_vars
      PROVE  [Promise!Next]_(Promise!promise)
  <2>1. CASE FreezeForTransfer
    <3>1. call.invoice \in Invoices /\ call.seen \in SUBSET Recipients
      BY <1>2, <2>1 DEF FreezeForTransfer, DistributionInv, TransferInv, CallOK, TypeOK, TasksOK
    <3>. QED  BY <1>2, <2>1, <3>1, FreezeIsList DEF FreezeForTransfer, payVars, workVars
  <2>2. CASE FreezeForSplit
    <3>1. split.invoice \in Invoices /\ split.todo \in SUBSET Recipients
      BY <1>2, <2>2 DEF FreezeForSplit, DistributionInv, PayoutInv, SplitOK, TypeOK, TasksOK
    <3>. QED  BY <1>2, <2>2, <3>1, FreezeIsList DEF FreezeForSplit, payVars, workVars
  <2>3. CASE \/ PayTransfer
             \/ \E i \in Invoices : Issue(i) \/ FundingSettles(i) \/ DepositArrives(i)
    <3>1. UNCHANGED <<frozen, manifest, payout, notice>>
      BY <2>3 DEF PayTransfer, Issue, FundingSettles, DepositArrives, freezeVars, payVars, workVars
    <3>. QED  BY <1>2, <2>3, <3>1, FundingIsFeedOrReceive
  <2>4. CASE \/ Settle
             \/ \E i \in Invoices, r \in Recipients : PayoutSettles(i, r) \/ PayOut(i, r)
    <3>1. UNCHANGED <<frozen, manifest, walletVars>>
      BY <2>4 DEF Settle, PayoutSettles, PayOut, freezeVars
    <3>. QED  BY <1>2, <2>4, <3>1, SharesArePaidAndTold
  <2>5. CASE \/ \E f \in Feedings : StartTransfer(f)
             \/ SavePrepared \/ ReadTargets \/ FoundPayment \/ Finish \/ TransferFails
             \/ \E i \in Invoices : Redeliver(i) \/ Deliver(i)
             \/ \E new \in SUBSET Recipients : Retarget(new)
             \/ \E r \in Recipients : Claim(r)
             \/ TooSmall \/ BelowMinimum \/ InvoiceFails \/ Attempt \/ LeaveInvoice
             \/ \E i \in Invoices, r \in Recipients : RecordPending(i, r) \/ Look(i, r)
             \/ Crash \/ UNCHANGED vars
    <3>1. UNCHANGED <<frozen, manifest, purpose, funding, payout, notice>>
      BY <2>5 DEF StartTransfer, SavePrepared, ReadTargets, FoundPayment, Finish, TransferFails,
                  Redeliver, Retarget, Crash, Deliver, Claim, TooSmall, BelowMinimum, InvoiceFails,
                  Attempt, LeaveInvoice, RecordPending, Look, vars, freezeVars, walletVars, payVars,
                  workVars
    <3>2. UNCHANGED <<FedInvoices, SettledInvoices>>
      BY <3>1 DEF FedInvoices, SettledInvoices
    <3>. QED  BY <3>1, <3>2, PromiseStutter
  <2>. QED
    BY <1>2, <2>1, <2>2, <2>3, <2>4, <2>5 DEF Next, Transfer, Outside, Split, Worker
<1>. QED
  BY <1>1, <1>2, InvariantHolds, PromiseInvHolds, PTL DEF Spec, PayoutsAsPromised, Promise!Spec
=============================================================================
