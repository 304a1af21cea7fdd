---------------------------- MODULE Distribution ----------------------------
(***************************************************************************)
(* Money on its way from the herd wallet to the members, for one herd.     *)
(*                                                                         *)
(* A feeding moves one threshold from the herd wallet to the source wallet *)
(* by an internal invoice (the transfer).  SplitPayments is told of every  *)
(* settled invoice of the source wallet and divides it among the frozen    *)
(* recipients, each by a payment task of its own.  A worker compares the   *)
(* recorded attempts with the outgoing payments and queues one notice per  *)
(* member.  Records are durable; calls, tasks and deliveries die with the  *)
(* process.  LNbits (invoices, payments, deliveries) is external.          *)
(*                                                                         *)
(* Amounts are counted in thresholds; an invoice is its payment hash.      *)
(***************************************************************************)
EXTENDS Naturals, FiniteSets

CONSTANTS
  Feedings,     \* feeding identifiers
  Recipients,   \* target wallets and addresses
  Members,      \* ... that belong to exactly one active member
  Invoices,     \* payment hashes on the source wallet
  MaxFunds,     \* what the herd wallet holds at first, if anything
  MaxFaults     \* bound on crashes and repeated deliveries

Nobody == "nobody"
Deposit == "deposit"

ASSUME RecipientsAssumption == Members \subseteq Recipients
ASSUME FeedingsAssumption == Nobody \notin Feedings /\ Deposit \notin Feedings
ASSUME InvoicesAssumption == IsFiniteSet(Invoices) /\ Nobody \notin Invoices
ASSUME BoundsAssumption == MaxFunds \in Nat /\ MaxFaults \in Nat

VARIABLES
  transfer,  \* delivery_records of kind feeding-transfer: state and invoice
  frozen,    \* ... of kind distribution: the invoices with a manifest
  manifest,  \* ... and the recipients it lists
  record,    \* ... of kinds treat and split-recipient: the state
  notice,    \* ... of kind message: the treat notice queued
  targets,   \* SplitPayments' targets of the source wallet
  funds,     \* balance of the herd wallet
  purpose,   \* the feeding an invoice was made for, Deposit, or Nobody
  funding,   \* the payment of an invoice
  payout,    \* the outgoing payment to a recipient
  sent,      \* history: how often a payment to a recipient was started
  call,      \* the transfer that holds the transfer lock
  inbox,     \* settled invoices SplitPayments has not looked at
  split,     \* SplitPayments' listener
  paying,    \* payment tasks, and the finished ones yet to be recorded
  work,      \* the row the worker is settling
  faults     \* counts crashes and repeated deliveries

transferVars == <<transfer, call>>
freezeVars == <<frozen, manifest>>
walletVars == <<funds, purpose, funding>>
splitVars == <<inbox, split>>
payVars == <<payout, sent, paying>>
workVars == <<notice, work>>
vars == <<transfer, frozen, manifest, record, notice, targets, funds, purpose, funding,
          payout, sent, call, inbox, split, paying, work, faults>>

NoCall == [stage |-> "idle", feeding |-> Nobody, invoice |-> Nobody, seen |-> {}]
NoSplit == [stage |-> "idle", invoice |-> Nobody, at |-> Nobody, todo |-> {}]
NoWork == [verdict |-> "none", invoice |-> Nobody, at |-> Nobody]

Init ==
  /\ transfer = [f \in Feedings |-> [state |-> "none", invoice |-> Nobody]]
  /\ frozen = {} /\ manifest = [i \in Invoices |-> {}]
  /\ record = [i \in Invoices |-> [r \in Recipients |-> "none"]]
  /\ notice = [i \in Invoices |-> [r \in Recipients |-> "none"]]
  /\ targets \in SUBSET Recipients
  /\ funds \in {0, MaxFunds}
  /\ purpose = [i \in Invoices |-> Nobody]
  /\ funding = [i \in Invoices |-> "none"]
  /\ payout = [i \in Invoices |-> [r \in Recipients |-> "none"]]
  /\ sent = [i \in Invoices |-> [r \in Recipients |-> 0]]
  /\ call = NoCall /\ inbox = {} /\ split = NoSplit /\ paying = {} /\ work = NoWork
  /\ faults = 0

-----------------------------------------------------------------------------
(* The shared writes.                                                      *)

\* prepare_distribution: the first snapshot of an invoice's recipients stays.
Freeze(i, seen) ==
  IF i \in frozen THEN UNCHANGED <<freezeVars, record>>
  ELSE /\ frozen' = frozen \cup {i}
       /\ manifest' = [manifest EXCEPT ![i] = seen]
       /\ record' = [record EXCEPT ![i] =
                       [r \in Recipients |-> IF r \in seen THEN "planned" ELSE @[r]]]

\* Fault: a late outcome overwrites a final one.
OutcomeOverwrites(i, r, state) == record' = [record EXCEPT ![i][r] = state]

\* outcome: a final state is not overwritten.
Outcome(i, r, state) ==
  record' = IF record[i][r] \in {"announced", "paid", "too_small"} THEN record
            ELSE [record EXCEPT ![i][r] = state]

-----------------------------------------------------------------------------
(* The transfer of a feeding, under the transfer lock.                     *)

Advance(stage) == call' = [call EXCEPT !.stage = stage]
Return == call' = NoCall

\* Fault: the balance is not looked at.
CoveredAlways == TRUE

\* The herd wallet holds a threshold.
Covered == funds > 0

\* A call takes the lock.  A recorded transfer is resumed with its invoice, a
\* paid one is not touched, a new one needs a full threshold.
StartTransfer(f) ==
  /\ call = NoCall
  /\ \/ /\ transfer[f].state = "prepared"
        /\ call' = [NoCall EXCEPT !.stage = "targets", !.feeding = f,
                                  !.invoice = transfer[f].invoice]
     \/ /\ transfer[f].state = "none" /\ Covered
        /\ call' = [NoCall EXCEPT !.stage = "issue", !.feeding = f]
  /\ UNCHANGED <<transfer, freezeVars, record, targets, walletVars, splitVars, payVars,
                 workVars, faults>>

\* The invoice is created, and recorded in a later step.
Issue(i) ==
  /\ call.stage = "issue" /\ purpose[i] = Nobody
  /\ purpose' = [purpose EXCEPT ![i] = call.feeding]
  /\ call' = [call EXCEPT !.stage = "save", !.invoice = i]
  /\ UNCHANGED <<transfer, freezeVars, record, targets, funds, funding, splitVars,
                 payVars, workVars, faults>>

\* Fault: the record is left for the end.
SaveLater ==
  /\ call.stage = "save"
  /\ Advance("targets")
  /\ UNCHANGED <<transfer, freezeVars, record, targets, walletVars, splitVars, payVars,
                 workVars, faults>>

SavePrepared ==
  /\ call.stage = "save"
  /\ transfer' = [transfer EXCEPT ![call.feeding] =
                    [state |-> "prepared", invoice |-> call.invoice]]
  /\ Advance("targets")
  /\ UNCHANGED <<freezeVars, record, targets, walletVars, splitVars, payVars, workVars, faults>>

ReadTargets ==
  /\ call.stage = "targets"
  /\ call' = [call EXCEPT !.stage = "freeze", !.seen = targets]
  /\ UNCHANGED <<transfer, freezeVars, record, targets, walletVars, splitVars, payVars,
                 workVars, faults>>

\* Fault: the recipients are left to the listener.
FreezeSkipped ==
  /\ call.stage = "freeze"
  /\ Advance("pay")
  /\ UNCHANGED <<transfer, freezeVars, record, targets, walletVars, splitVars, payVars,
                 workVars, faults>>

FreezeForTransfer ==
  /\ call.stage = "freeze"
  /\ Freeze(call.invoice, call.seen)
  /\ Advance("pay")
  /\ UNCHANGED <<transfer, targets, walletVars, splitVars, payVars, workVars, faults>>

\* The invoice has a payment already: settled it counts, otherwise it has to be
\* reconciled first.
FoundPayment ==
  /\ call.stage = "pay" /\ funding[call.invoice] # "none"
  /\ IF funding[call.invoice] = "success" THEN Advance("finish") ELSE Return
  /\ UNCHANGED <<transfer, freezeVars, record, targets, walletVars, splitVars, payVars,
                 workVars, faults>>

\* LNbits pays the invoice, or leaves it pending.  The reply may be lost.
PayTransfer ==
  LET i == call.invoice IN
  /\ call.stage = "pay" /\ funding[i] = "none" /\ Covered
  /\ funds' = funds - 1
  /\ \/ /\ funding' = [funding EXCEPT ![i] = "success"]
        /\ inbox' = inbox \cup {i}
        /\ Advance("finish") \/ Return
     \/ /\ funding' = [funding EXCEPT ![i] = "pending"]
        /\ inbox' = inbox
        /\ Return
  /\ UNCHANGED <<transfer, freezeVars, record, targets, purpose, split, payVars, workVars,
                 faults>>

Finish ==
  /\ call.stage = "finish"
  /\ transfer' = [transfer EXCEPT ![call.feeding].state = "paid"]
  /\ Return
  /\ UNCHANGED <<freezeVars, record, targets, walletVars, splitVars, payVars, workVars, faults>>

\* Any step may raise; the call returns an error and can be repeated.
TransferFails ==
  /\ call # NoCall
  /\ Return
  /\ UNCHANGED <<transfer, freezeVars, record, targets, walletVars, splitVars, payVars,
                 workVars, faults>>

-----------------------------------------------------------------------------
(* LNbits and the rest of the world.                                       *)

FundingSettles(i) ==
  /\ funding[i] = "pending"
  /\ \/ /\ funding' = [funding EXCEPT ![i] = "success"]
        /\ inbox' = inbox \cup {i} /\ funds' = funds
     \/ /\ funding' = [funding EXCEPT ![i] = "failed"]
        /\ inbox' = inbox /\ funds' = funds + 1
  /\ UNCHANGED <<transferVars, freezeVars, record, targets, purpose, split, payVars,
                 workVars, faults>>

\* Somebody pays the source wallet directly.
DepositArrives(i) ==
  /\ purpose[i] = Nobody
  /\ purpose' = [purpose EXCEPT ![i] = Deposit]
  /\ funding' = [funding EXCEPT ![i] = "success"]
  /\ inbox' = inbox \cup {i}
  /\ UNCHANGED <<transferVars, freezeVars, record, targets, funds, split, payVars, workVars,
                 faults>>

\* Members and settings change, and SplitPayments' targets with them.
Retarget(new) ==
  /\ new # targets /\ targets' = new
  /\ UNCHANGED <<transferVars, freezeVars, record, walletVars, splitVars, payVars, workVars,
                 faults>>

PayoutSettles(i, r) ==
  /\ payout[i][r] = "inflight"
  /\ \E result \in {"success", "failed"} : payout' = [payout EXCEPT ![i][r] = result]
  /\ UNCHANGED <<transferVars, freezeVars, record, targets, walletVars, splitVars, sent,
                 paying, workVars, faults>>

\* A settled invoice is reported a second time.
Redeliver(i) ==
  /\ faults < MaxFaults /\ faults' = faults + 1
  /\ funding[i] = "success" /\ i \notin inbox
  /\ inbox' = inbox \cup {i}
  /\ UNCHANGED <<transferVars, freezeVars, record, targets, walletVars, split, payVars,
                 workVars>>

\* The process dies.  Payments that were started go on without it.
Crash ==
  /\ faults < MaxFaults /\ faults' = faults + 1
  /\ call' = NoCall /\ inbox' = {} /\ split' = NoSplit /\ paying' = {} /\ work' = NoWork
  /\ UNCHANGED <<transfer, freezeVars, record, notice, targets, walletVars, payout, sent>>

-----------------------------------------------------------------------------
(* SplitPayments with the patch: one settled invoice after the other.      *)

\* The listener takes an invoice and reads the targets.
Deliver(i) ==
  /\ split = NoSplit /\ i \in inbox
  /\ inbox' = inbox \ {i}
  /\ split' = [NoSplit EXCEPT !.stage = "freeze", !.invoice = i, !.todo = targets]
  /\ UNCHANGED <<transferVars, freezeVars, record, targets, walletVars, payVars, workVars,
                 faults>>

\* From here on it uses the frozen recipients.
FreezeForSplit ==
  /\ split.stage = "freeze"
  /\ Freeze(split.invoice, split.todo)
  /\ split' = [split EXCEPT !.stage = "claim", !.todo = manifest'[split.invoice]]
  /\ UNCHANGED <<transferVars, targets, walletVars, inbox, payVars, workVars, faults>>

\* Fault: the claim does not look at the state.
ClaimAnyState(r) ==
  /\ split.stage = "claim" /\ r \in split.todo
  /\ record' = [record EXCEPT ![split.invoice][r] = "preparing"]
  /\ split' = [split EXCEPT !.stage = "invoice", !.at = r, !.todo = @ \ {r}]
  /\ UNCHANGED <<transferVars, freezeVars, targets, walletVars, inbox, payVars, workVars, faults>>

\* claim_recipient: only a planned recipient is taken, the others are passed over.
Claim(r) ==
  /\ split.stage = "claim" /\ r \in split.todo
  /\ IF record[split.invoice][r] = "planned"
       THEN /\ record' = [record EXCEPT ![split.invoice][r] = "preparing"]
            /\ split' = [split EXCEPT !.stage = "invoice", !.at = r, !.todo = @ \ {r}]
       ELSE /\ record' = record
            /\ split' = [split EXCEPT !.todo = @ \ {r}]
  /\ UNCHANGED <<transferVars, freezeVars, targets, walletVars, inbox, payVars, workVars, faults>>

NextRecipient == split' = [split EXCEPT !.stage = "claim", !.at = Nobody]

\* The share does not cover the reserve and one sat: no invoice is asked for.
TooSmall ==
  /\ split.stage = "invoice"
  /\ Outcome(split.invoice, split.at, "too_small")
  /\ NextRecipient
  /\ UNCHANGED <<transferVars, freezeVars, targets, walletVars, inbox, payVars, workVars, faults>>

\* Fault: the share is recorded as too small and paid all the same.
BelowMinimumPaysOn ==
  /\ split.stage = "invoice"
  /\ Outcome(split.invoice, split.at, "too_small")
  /\ UNCHANGED <<transferVars, freezeVars, targets, walletVars, splitVars, payVars, workVars, faults>>

\* The share is below the receiver's minimum: recorded as too small, and then,
\* for want of an invoice, as failed.
BelowMinimum ==
  /\ split.stage = "invoice"
  /\ Outcome(split.invoice, split.at, "too_small")
  /\ split' = [split EXCEPT !.stage = "no_invoice"]
  /\ UNCHANGED <<transferVars, freezeVars, targets, walletVars, inbox, payVars, workVars, faults>>

InvoiceFails ==
  /\ split.stage \in {"invoice", "no_invoice"}
  /\ Outcome(split.invoice, split.at, "invoice_failed")
  /\ NextRecipient
  /\ UNCHANGED <<transferVars, freezeVars, targets, walletVars, inbox, payVars, workVars, faults>>

\* Its payment hash is recorded before the payment task starts.
Attempt ==
  /\ split.stage = "invoice"
  /\ Outcome(split.invoice, split.at, "attempted")
  /\ paying' = paying \cup {<<split.invoice, split.at, "start">>}
  /\ NextRecipient
  /\ UNCHANGED <<transferVars, freezeVars, targets, walletVars, inbox, payout, sent, workVars,
                 faults>>

\* The list is done, or something raised and the rest of it is dropped.
LeaveInvoice ==
  /\ split # NoSplit
  /\ split' = NoSplit
  /\ UNCHANGED <<transferVars, freezeVars, record, targets, walletVars, inbox, payVars, workVars,
                 faults>>

\* LNbits refuses, or starts the payment; it may settle or fail before the call
\* returns.  A result that is not an exception is recorded in a later step.
PayOut(i, r) ==
  /\ <<i, r, "start">> \in paying
  /\ \/ /\ payout' = payout /\ sent' = sent
        /\ paying' = paying \ {<<i, r, "start">>}
     \/ /\ sent' = [sent EXCEPT ![i][r] = @ + 1]
        /\ payout' = [payout EXCEPT ![i][r] = "inflight"]
        /\ paying' \in {paying \ {<<i, r, "start">>},
                        (paying \ {<<i, r, "start">>}) \cup {<<i, r, "done">>}}
  /\ UNCHANGED <<transferVars, freezeVars, record, targets, walletVars, splitVars, workVars,
                 faults>>

RecordPending(i, r) ==
  /\ <<i, r, "done">> \in paying
  /\ paying' = paying \ {<<i, r, "done">>}
  /\ Outcome(i, r, "pending")
  /\ UNCHANGED <<transferVars, freezeVars, targets, walletVars, splitVars, payout, sent,
                 workVars, faults>>

-----------------------------------------------------------------------------
(* The worker: reads a row and its payment, and writes in a later step.    *)

\* Fault: only rows whose task has reported are looked at.
LookPendingOnly(i, r) ==
  /\ work = NoWork
  /\ record[i][r] = "pending" /\ payout[i][r] \in {"success", "failed"}
  /\ work' = [verdict |-> payout[i][r], invoice |-> i, at |-> r]
  /\ UNCHANGED <<transferVars, freezeVars, record, notice, targets, walletVars, splitVars,
                 payVars, faults>>

\* Fault: a pending payment is taken for a settled one.
LookOptimistic(i, r) ==
  /\ work = NoWork
  /\ record[i][r] \in {"attempted", "pending"} /\ payout[i][r] # "none"
  /\ work' = [verdict |-> IF payout[i][r] = "failed" THEN "failed" ELSE "success",
              invoice |-> i, at |-> r]
  /\ UNCHANGED <<transferVars, freezeVars, record, notice, targets, walletVars, splitVars,
                 payVars, faults>>

Look(i, r) ==
  /\ work = NoWork
  /\ \/ /\ record[i][r] \in {"attempted", "pending"}
        /\ payout[i][r] \in {"success", "failed"}
        /\ work' = [verdict |-> payout[i][r], invoice |-> i, at |-> r]
     \/ /\ record[i][r] = "too_small" /\ r \in Members
        /\ work' = [verdict |-> "too_small", invoice |-> i, at |-> r]
  /\ UNCHANGED <<transferVars, freezeVars, record, notice, targets, walletVars, splitVars,
                 payVars, faults>>

\* A member's settled or skipped share gets its notice, the first one stays.
Announce(i, r, what) ==
  /\ record' = [record EXCEPT ![i][r] = "announced"]
  /\ notice' = [notice EXCEPT ![i][r] = IF @ = "none" THEN what ELSE @]

Settle ==
  LET i == work.invoice
      r == work.at
  IN
  /\ \/ /\ work.verdict = "failed"
        /\ record' = [record EXCEPT ![i][r] = "failed"] /\ notice' = notice
     \/ /\ work.verdict = "success" /\ r \notin Members
        /\ record' = [record EXCEPT ![i][r] = "paid"] /\ notice' = notice
     \/ /\ work.verdict = "success" /\ r \in Members
        /\ Announce(i, r, "treats")
     \/ /\ work.verdict = "too_small"
        /\ Announce(i, r, "skipped")
  /\ work' = NoWork
  /\ UNCHANGED <<transferVars, freezeVars, targets, walletVars, splitVars, payVars, faults>>

-----------------------------------------------------------------------------
Transfer == \/ \E f \in Feedings : StartTransfer(f)
            \/ \E i \in Invoices : Issue(i)
            \/ SavePrepared \/ ReadTargets \/ FreezeForTransfer
            \/ FoundPayment \/ PayTransfer \/ Finish \/ TransferFails

Outside == \/ \E i \in Invoices : FundingSettles(i) \/ DepositArrives(i) \/ Redeliver(i)
           \/ \E i \in Invoices, r \in Recipients : PayoutSettles(i, r)
           \/ \E new \in SUBSET Recipients : Retarget(new)
           \/ Crash

Split == \/ \E i \in Invoices : Deliver(i)
         \/ FreezeForSplit
         \/ \E r \in Recipients : Claim(r)
         \/ TooSmall \/ BelowMinimum \/ InvoiceFails \/ Attempt \/ LeaveInvoice
         \/ \E i \in Invoices, r \in Recipients : PayOut(i, r) \/ RecordPending(i, r)

Worker == Settle \/ \E i \in Invoices, r \in Recipients : Look(i, r)

Next == Transfer \/ Outside \/ Split \/ Worker

\* treats.run is a permanent task that visits every open row in each round.
Fairness == WF_vars(Settle) /\ \A i \in Invoices, r \in Recipients : WF_vars(Look(i, r))

Spec == Init /\ [][Next]_vars /\ Fairness

-----------------------------------------------------------------------------
(* What a distribution promises.                                           *)

RecordStates == {"none", "planned", "preparing", "too_small", "invoice_failed", "attempted",
                 "pending", "failed", "paid", "announced"}

RecordsOK ==
  /\ transfer \in [Feedings -> [state: {"none", "prepared", "paid"},
                                invoice: Invoices \cup {Nobody}]]
  /\ frozen \subseteq Invoices /\ manifest \in [Invoices -> SUBSET Recipients]
  /\ record \in [Invoices -> [Recipients -> RecordStates]]
  /\ notice \in [Invoices -> [Recipients -> {"none", "treats", "skipped"}]]

WalletsOK ==
  /\ targets \subseteq Recipients /\ funds \in Nat
  /\ purpose \in [Invoices -> Feedings \cup {Deposit, Nobody}]
  /\ funding \in [Invoices -> {"none", "pending", "success", "failed"}]
  /\ payout \in [Invoices -> [Recipients -> {"none", "inflight", "success", "failed"}]]
  /\ sent \in [Invoices -> [Recipients -> Nat]]

TasksOK ==
  /\ call \in [stage: {"idle", "issue", "save", "targets", "freeze", "pay", "finish"},
               feeding: Feedings \cup {Nobody}, invoice: Invoices \cup {Nobody},
               seen: SUBSET Recipients]
  /\ inbox \subseteq Invoices
  /\ split \in [stage: {"idle", "freeze", "claim", "invoice", "no_invoice"},
                invoice: Invoices \cup {Nobody}, at: Recipients \cup {Nobody},
                todo: SUBSET Recipients]
  /\ paying \subseteq Invoices \X Recipients \X {"start", "done"}
  /\ work \in [verdict: {"none", "success", "failed", "too_small"},
               invoice: Invoices \cup {Nobody}, at: Recipients \cup {Nobody}]
  /\ faults \in Nat

\* Every variable has its type.
TypeOK == RecordsOK /\ WalletsOK /\ TasksOK

\* Invoice i was made for feeding f and a payment of it exists.
Moves(i, f) == purpose[i] = f /\ funding[i] # "none"

\* A feeding moves its threshold at most once, through lost replies, crashes
\* between any two steps and repeated calls; one recorded as paid has moved it.
FeedingMovesOnce ==
  \A f \in Feedings :
    /\ \A i, j \in Invoices : Moves(i, f) /\ Moves(j, f) => i = j
    /\ transfer[f].state = "paid" =>
         \E i \in Invoices : transfer[f].invoice = i /\ funding[i] = "success"

\* No recipient is sent two payments out of one distribution, however often
\* the invoice is delivered.
RecipientPaidOnce ==
  \A i \in Invoices, r \in Recipients : sent[i][r] <= 1

\* "Freeze recipients at funding time": once a feeding's payment exists, the
\* recipients of its distribution are settled.
RecipientsFixedAtFunding ==
  [][\A i \in Invoices : purpose[i] \in Feedings /\ funding[i] # "none"
       => manifest'[i] = manifest[i]]_vars

\* "Pending and failed payments never produce a received-treat notice", and a
\* skipped share was never sent.
NoticesTellTheTruth ==
  \A i \in Invoices, r \in Recipients :
    /\ notice[i][r] = "treats" => payout[i][r] = "success"
    /\ notice[i][r] = "skipped" => sent[i][r] = 0

\* A final outcome is never taken back by a task that reports late.
OutcomeStands ==
  [][\A i \in Invoices, r \in Recipients :
       /\ record[i][r] \in {"paid", "announced"} => record'[i][r] = record[i][r]
       /\ record[i][r] = "too_small" => record'[i][r] \in {"too_small", "announced"}]_vars

\* The invoices whose payment by a feeding exists, and those that are paid.
FedInvoices == {i \in Invoices : purpose[i] \in Feedings /\ funding[i] # "none"}
SettledInvoices == {i \in Invoices : funding[i] = "success"}

Promise == INSTANCE PayoutPromise
             WITH listed <- frozen, list <- manifest, fed <- FedInvoices,
                  settled <- SettledInvoices, told <- notice

\* Whatever is interrupted, repeated or late: payments come only out of settled
\* money, go to the listed recipients alone, and a member who was told of a
\* skipped share is not paid afterwards.
PayoutsAsPromised == Promise!Spec

\* Every payment that settles is accounted for in the end, also when the
\* process died before its task reported.
SettledIsAccounted ==
  \A i \in Invoices, r \in Recipients :
    payout[i][r] = "success" ~> record[i][r] \in {"paid", "announced"}
=============================================================================
