------------------------------ MODULE ZapTotals ------------------------------
(***************************************************************************)
(* Lifetime zap totals of one owner: the zap_totals rows, the ledger of    *)
(* the payments they include (processed_zaps), and the three writers: a    *)
(* settled payment that is added when its admission commits, a rebuild     *)
(* from the wallet's payment history, which reads the history page by page *)
(* while payments go on settling, and a manual reset, which clears rows    *)
(* and ledger together and does not take the totals lock.                  *)
(*                                                                         *)
(* A total is kept as what it is the sum of: times[p] says how often       *)
(* payment p is included in the row of its zapper.                         *)
(***************************************************************************)
EXTENDS Naturals, FiniteSets

CONSTANTS
  Payments,   \* settled zaps to the herd wallet, numbered by invoice time
  Zappers,    \* the senders
  Zapper,     \* who sent each payment
  Recipient,  \* the p tag of each payment's zap request
  Noted,      \* the payments whose e tag names a note the herd tracks
  Targets,    \* the effective pubkeys the operator configures
  Requests,   \* the totals queries and backfills that occur
  BatchSize,  \* payments per page of the history
  MaxUpsets   \* bound on resets and changes of the effective pubkey

None == "none"
Everyone == "everyone"

\* A query for one zapper ("get", and "force" with force_refresh), or a
\* backfill over all zaps or over the tracked notes only.
Kinds == {"get", "force", "all", "tracked"}

ASSUME PaymentsAssumption == /\ Payments \subseteq Nat /\ IsFiniteSet(Payments)
                             /\ Zapper \in [Payments -> Zappers]
                             /\ Recipient \in [Payments -> Targets]
                             /\ Noted \subseteq Payments
ASSUME NamesAssumption == None \notin Targets /\ Everyone \notin Zappers
ASSUME RequestsAssumption ==
  /\ Requests \subseteq [kind : Kinds, zapper : Zappers \cup {Everyone}]
  /\ \A r \in Requests : r.kind \in {"get", "force"} => r.zapper \in Zappers
ASSUME BoundsAssumption == BatchSize \in Nat \ {0} /\ MaxUpsets \in Nat

VARIABLES
  settled,    \* LNbits: the payments that are settled
  watch,      \* settings: the effective pubkey
  tracked,    \* settings.tracked_event_ids, as the payments that name them
  members,    \* the zappers who have a cyber_herd row
  accounted,  \* processed_zaps
  times,      \* zap_totals: how often each payment is in its zapper's row
  rowTarget,  \* zap_totals.target_pubkey of each zapper, None without a row
  waiting,    \* the target each query read before it waits for the totals lock
  pending,    \* payments on their way to admission, with the target read
  scan,       \* the rebuild that holds the totals lock, or NoScan
  upsets      \* resets and pubkey changes so far

durableVars == <<accounted, times, rowTarget>>
settingVars == <<watch, tracked, upsets>>
vars == <<settled, watch, tracked, members, accounted, times, rowTarget,
          waiting, pending, scan, upsets>>

NoScan == [busy |-> FALSE]

-----------------------------------------------------------------------------
Init ==
  /\ settled = {} /\ watch \in Targets /\ tracked = {} /\ members = {}
  /\ accounted = {}
  /\ times = [p \in Payments |-> 0]
  /\ rowTarget = [z \in Zappers |-> None]
  /\ waiting = [r \in Requests |-> None]
  /\ pending = [p \in Payments |-> None] /\ scan = NoScan
  /\ upsets = 0

-----------------------------------------------------------------------------
(* The world.                                                              *)

\* An invoice settles; the history lists it by the time of the invoice.
Settle(p) ==
  /\ p \notin settled
  /\ settled' = settled \cup {p}
  /\ UNCHANGED <<durableVars, settingVars, members, waiting, pending, scan>>

\* The herd tracks its notes.
Track ==
  /\ tracked # Noted
  /\ tracked' = Noted
  /\ UNCHANGED <<durableVars, watch, upsets, settled, members, waiting, pending, scan>>

\* The operator configures another effective pubkey.
ChangeWatch(t) ==
  /\ upsets < MaxUpsets /\ t # watch
  /\ watch' = t
  /\ upsets' = upsets + 1
  /\ UNCHANGED <<durableVars, tracked, settled, members, waiting, pending, scan>>

\* manual_reset_membership, in one transaction and outside the totals lock.
Reset ==
  /\ upsets < MaxUpsets
  /\ upsets' = upsets + 1
  /\ accounted' = {}
  /\ times' = [p \in Payments |-> 0]
  /\ rowTarget' = [z \in Zappers |-> None]
  /\ tracked' = {}
  /\ UNCHANGED <<watch, settled, members, waiting, pending, scan>>

\* The process dies: what is in memory is gone.
Crash ==
  /\ \/ scan.busy
     \/ \E r \in Requests : waiting[r] # None
     \/ \E p \in Payments : pending[p] # None
  /\ waiting' = [r \in Requests |-> None]
  /\ pending' = [p \in Payments |-> None]
  /\ scan' = NoScan
  /\ UNCHANGED <<durableVars, settingVars, settled, members>>

-----------------------------------------------------------------------------
(* A payment is added when its admission commits.                          *)

\* The coordinator reads the settings; the target it read is used later.
Present(p) ==
  /\ p \in settled /\ pending[p] = None
  /\ pending' = [pending EXCEPT ![p] = watch]
  /\ UNCHANGED <<durableVars, settingVars, settled, members, waiting, scan>>

\* The attempt ends without a decision and stays unrecorded.
Withdraw(p) ==
  /\ pending[p] # None
  /\ pending' = [pending EXCEPT ![p] = None]
  /\ UNCHANGED <<durableVars, settingVars, settled, members, waiting, scan>>

\* A row for another target starts again from nothing.
Incremented(p, t) ==
  LET z == Zapper[p] IN
  [q \in Payments |-> IF q = p THEN (IF rowTarget[z] = t THEN times[q] + 1 ELSE 1)
                      ELSE IF Zapper[q] = z /\ rowTarget[z] # t THEN 0
                      ELSE times[q]]

\* Fault: the increment does not wait for a rebuild.
RecordUnlocked(p) ==
  LET z == Zapper[p]
      t == pending[p] IN
  /\ t # None
  /\ pending' = [pending EXCEPT ![p] = None]
  /\ members' = members \cup {z}
  /\ IF p \in accounted
       THEN UNCHANGED durableVars
       ELSE /\ accounted' = accounted \cup {p}
            /\ times' = Incremented(p, t)
            /\ rowTarget' = [rowTarget EXCEPT ![z] = t]
  /\ UNCHANGED <<settingVars, settled, waiting, scan>>

\* The admission transaction commits, under the totals lock.
Record(p) ==
  LET z == Zapper[p]
      t == pending[p] IN
  /\ t # None /\ ~scan.busy
  /\ pending' = [pending EXCEPT ![p] = None]
  /\ members' = members \cup {z}
  /\ IF p \in accounted
       THEN UNCHANGED durableVars
       ELSE /\ accounted' = accounted \cup {p}
            /\ times' = Incremented(p, t)
            /\ rowTarget' = [rowTarget EXCEPT ![z] = t]
  /\ UNCHANGED <<settingVars, settled, waiting, scan>>

-----------------------------------------------------------------------------
(* Queries and backfills.                                                  *)

\* A query needs a member and reads the effective pubkey; then it waits for
\* the lock.
Ask(r) ==
  /\ waiting[r] = None
  /\ r.kind \in {"get", "force"} => r.zapper \in members
  /\ waiting' = [waiting EXCEPT ![r] = watch]
  /\ UNCHANGED <<durableVars, settingVars, settled, members, pending, scan>>

\* A row about that pubkey answers it while it is younger than
\* CACHE_TTL_SECONDS; how old it is by then is left open.
AnswerCached(r) ==
  /\ waiting[r] # None /\ ~scan.busy
  /\ r.kind = "get" /\ rowTarget[r.zapper] = waiting[r]
  /\ waiting' = [waiting EXCEPT ![r] = None]
  /\ UNCHANGED <<durableVars, settingVars, settled, members, pending, scan>>

\* The notes a backfill is limited to; no limit while nothing is tracked.
Wanted(r) == IF r.kind = "tracked" /\ tracked # {} THEN tracked ELSE Payments

\* The rebuild reads the settings again; it enrols the zapper it is asked for.
StartScan(r) ==
  /\ waiting[r] # None /\ ~scan.busy
  /\ waiting' = [waiting EXCEPT ![r] = None]
  /\ scan' = [busy |-> TRUE, request |-> r, watch |-> watch, wanted |-> Wanted(r),
              offset |-> 0, seen |-> {}, found |-> [p \in Payments |-> 0]]
  /\ \/ UNCHANGED members
     \/ r.zapper \in Zappers \ members /\ members' = members \cup {r.zapper}
  /\ UNCHANGED <<durableVars, settingVars, settled, pending>>

\* The place of a payment in the history, which is sorted by invoice time.
Place(p) == Cardinality({q \in settled : q <= p})

\* The next page of the history as it is now.
Batch == {p \in settled : Place(p) \in scan.offset + 1..scan.offset + BatchSize}

\* Fault: a payment that a later page shows again is counted again.
NewOrShifted == {p \in Batch : Recipient[p] = scan.watch}

\* The payments of a page this rebuild meets for the first time.
New == {p \in Batch \ scan.seen : Recipient[p] = scan.watch}

\* One page.  A zapper without a row gets one; a limited backfill skips the
\* payments of those for whom that fails.
ReadPage(unmet) ==
  LET limited == scan.request.kind = "tracked"
      chosen == {p \in New \cap scan.wanted :
                   scan.request.zapper \in {Everyone, Zapper[p]}}
      counted == {p \in chosen : ~(limited /\ Zapper[p] \in unmet)} IN
  /\ scan.busy /\ Batch # {}
  /\ unmet \subseteq {Zapper[p] : p \in chosen} \ members
  /\ scan' = [scan EXCEPT !.offset = @ + Cardinality(Batch),
                          !.seen = @ \cup New,
                          !.found = [p \in Payments |->
                                       IF p \in counted THEN @[p] + 1 ELSE @[p]]]
  /\ members' = members \cup ({Zapper[p] : p \in chosen} \ unmet)
  /\ UNCHANGED <<durableVars, settingVars, settled, waiting, pending>>

Found == {p \in Payments : scan.found[p] > 0}

\* The zappers whose row a rebuild writes; a query also writes an empty row.
Written == {Zapper[p] : p \in Found} \cup
             (IF scan.request.kind \in {"get", "force"} THEN {scan.request.zapper} ELSE {})

\* The last page was read: one transaction adds every payment to the ledger
\* and overwrites the rows.  A backfill that found nothing writes nothing.
Finish ==
  /\ scan.busy /\ Batch = {}
  /\ scan' = NoScan
  /\ accounted' = accounted \cup Found
  /\ times' = [p \in Payments |-> IF Zapper[p] \in Written THEN scan.found[p] ELSE times[p]]
  /\ rowTarget' = [z \in Zappers |-> IF z \in Written THEN scan.watch ELSE rowTarget[z]]
  /\ UNCHANGED <<settingVars, settled, members, waiting, pending>>

\* The history or the database fails: the lock is released, nothing written.
Fail ==
  /\ scan.busy
  /\ scan' = NoScan
  /\ UNCHANGED <<durableVars, settingVars, settled, members, waiting, pending>>

-----------------------------------------------------------------------------
Next ==
  \/ Track \/ Reset \/ Crash \/ Finish \/ Fail
  \/ \E t \in Targets : ChangeWatch(t)
  \/ \E p \in Payments : Settle(p) \/ Present(p) \/ Withdraw(p) \/ Record(p)
  \/ \E r \in Requests : Ask(r) \/ AnswerCached(r) \/ StartScan(r)
  \/ \E unmet \in SUBSET Zappers : ReadPage(unmet)

Spec == Init /\ [][Next]_vars

-----------------------------------------------------------------------------
Scans == [busy : {TRUE}, request : Requests, watch : Targets,
          wanted : SUBSET Payments, offset : Nat, seen : SUBSET Payments,
          found : [Payments -> Nat]]

\* Every variable keeps its type.
TypeOK ==
  /\ settled \subseteq Payments /\ tracked \subseteq Payments
  /\ watch \in Targets /\ members \subseteq Zappers
  /\ accounted \subseteq Payments
  /\ times \in [Payments -> Nat]
  /\ rowTarget \in [Zappers -> Targets \cup {None}]
  /\ waiting \in [Requests -> Targets \cup {None}]
  /\ pending \in [Payments -> Targets \cup {None}]
  /\ scan \in Scans \cup {NoScan}
  /\ upsets \in Nat

\* A total includes a payment at most once, and only one the ledger has: a
\* payment that settles while a rebuild reads the history, that a shifted page
\* shows twice, or whose admission waits for the rebuild is not added again.
CountedOnce == \A p \in Payments : /\ times[p] <= 1
                                   /\ times[p] = 1 => p \in accounted

\* A full rebuild loses nothing: what it writes for a zapper includes every
\* payment to the watched pubkey that the ledger has for that zapper, also one
\* that was added by an increment, however the pages moved during the scan.
RefreshComplete ==
  [][Finish /\ scan.request.kind # "tracked" =>
       \A p \in accounted' :
         Zapper[p] \in Written /\ Recipient[p] = scan.watch => times'[p] = 1]_vars
=============================================================================
