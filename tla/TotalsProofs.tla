---------------------------- MODULE TotalsProofs ----------------------------
(* No payment is counted twice in a total, for any number of payments,       *)
(* pages, senders and rebuilds.  The invariant says what a rebuild holds: it *)
(* counted each payment at most once, and only one it has seen.              *)
EXTENDS ZapTotals, FiniteSetTheorems, WellFoundedInduction, TLAPS

ScanOK == scan.busy => \A p \in Payments : /\ scan.found[p] <= 1
                                           /\ scan.found[p] = 1 => p \in scan.seen

Inv == TypeOK /\ ScanOK /\ CountedOnce

USE PaymentsAssumption, BoundsAssumption

(* A page is finite, and a part of the settled payments. *)
LEMMA PageFinite ==
  ASSUME TypeOK
  PROVE  Batch \subseteq Payments /\ Cardinality(Batch) \in Nat
<1>1. Batch \subseteq settled /\ settled \subseteq Payments
  BY DEF Batch, TypeOK
<1>2. IsFiniteSet(Batch)
  BY <1>1, FS_Subset
<1> QED
  BY <1>1, <1>2, FS_CardinalityType

(* The invariant holds initially. *)
LEMMA InitInv == Init => Inv
  BY DEF Init, Inv, TypeOK, ScanOK, CountedOnce, NoScan

(* A step of the world, a query or a failure touches no total. *)
LEMMA QuietKeeps ==
  ASSUME Inv,
         \/ Track \/ Fail \/ Crash
         \/ \E t \in Targets : ChangeWatch(t)
         \/ \E p \in Payments : Settle(p) \/ Present(p) \/ Withdraw(p)
         \/ \E r \in Requests : Ask(r) \/ AnswerCached(r)
  PROVE  Inv'
<1> USE DEF Inv, durableVars, settingVars
<1>1. CASE Track
  BY <1>1 DEF Track, TypeOK, ScanOK, CountedOnce
<1>2. CASE Fail
  BY <1>2 DEF Fail, TypeOK, ScanOK, CountedOnce, NoScan
<1>3. CASE Crash
  <2>1. scan' = NoScan /\ times' = times /\ accounted' = accounted
    BY <1>3 DEF Crash
  <2>2. TypeOK'
    BY <1>3, <2>1 DEF Crash, TypeOK
  <2> QED
    BY <2>1, <2>2 DEF ScanOK, CountedOnce, NoScan
<1>4. CASE \E t \in Targets : ChangeWatch(t)
  BY <1>4 DEF ChangeWatch, TypeOK, ScanOK, CountedOnce
<1>5. ASSUME NEW p \in Payments, Settle(p) \/ Present(p) \/ Withdraw(p) PROVE Inv'
  BY <1>5 DEF Settle, Present, Withdraw, TypeOK, ScanOK, CountedOnce
<1>6. ASSUME NEW r \in Requests, Ask(r) \/ AnswerCached(r) PROVE Inv'
  <2>1. \E t \in Targets \cup {None} : waiting' = [waiting EXCEPT ![r] = t]
    BY <1>6 DEF Ask, AnswerCached, TypeOK
  <2>2. UNCHANGED <<durableVars, settingVars, settled, members, pending, scan>>
    BY <1>6 DEF Ask, AnswerCached
  <2> QED
    BY <2>1, <2>2 DEF TypeOK, ScanOK, CountedOnce
<1> QED
  BY <1>1, <1>2, <1>3, <1>4, <1>5, <1>6

(* A reset empties the rows with the ledger. *)
LEMMA ResetKeeps ==
  ASSUME Inv, Reset
  PROVE  Inv'
  BY DEF Inv, Reset, TypeOK, ScanOK, CountedOnce

(* An increment adds a payment the ledger does not have, so no row has it. *)
LEMMA RecordKeeps ==
  ASSUME Inv, NEW p \in Payments, Record(p)
  PROVE  Inv'
<1> DEFINE t == pending[p]
<1>1. Zapper[p] \in Zappers /\ t \in Targets
  BY DEF Inv, TypeOK, Record
<1>2. scan' = scan /\ settled' = settled /\ watch' = watch /\ tracked' = tracked
      /\ upsets' = upsets /\ waiting' = waiting
      /\ members' \subseteq Zappers /\ pending' \in [Payments -> Targets \cup {None}]
  BY <1>1 DEF Record, settingVars, Inv, TypeOK
<1>3. CASE p \in accounted
  BY <1>2, <1>3 DEF Record, durableVars, Inv, TypeOK, ScanOK, CountedOnce
<1>4. CASE p \notin accounted
  <2>1. times' = Incremented(p, t) /\ accounted' = accounted \cup {p}
        /\ rowTarget' = [rowTarget EXCEPT ![Zapper[p]] = t]
    BY <1>4 DEF Record
  <2>2. times[p] = 0
    BY <1>4 DEF Inv, TypeOK, CountedOnce
  <2>3. times' \in [Payments -> Nat] /\ times'[p] = 1
        /\ \A q \in Payments \ {p} : times'[q] \in {0, times[q]}
    BY <2>1, <2>2 DEF Incremented, Inv, TypeOK
  <2>4. TypeOK'
    BY <1>1, <1>2, <2>1, <2>3 DEF Inv, TypeOK
  <2>5. CountedOnce'
    BY <2>1, <2>3 DEF Inv, CountedOnce
  <2>6. ScanOK'
    BY <1>2 DEF Inv, ScanOK
  <2> QED
    BY <2>4, <2>5, <2>6 DEF Inv
<1> QED
  BY <1>3, <1>4

(* A rebuild starts with nothing counted. *)
LEMMA StartKeeps ==
  ASSUME Inv, NEW r \in Requests, StartScan(r)
  PROVE  Inv'
<1>1. Wanted(r) \subseteq Payments
  BY DEF Wanted, Inv, TypeOK
<1>2. scan' = [busy |-> TRUE, request |-> r, watch |-> watch, wanted |-> Wanted(r),
               offset |-> 0, seen |-> {}, found |-> [p \in Payments |-> 0]]
  BY DEF StartScan
<1>3. scan' \in Scans
  BY <1>1, <1>2 DEF Scans, Inv, TypeOK
<1>4. ScanOK'
  BY <1>2 DEF ScanOK
<1>5. TypeOK' /\ CountedOnce'
  BY <1>3 DEF StartScan, durableVars, settingVars, Inv, TypeOK, CountedOnce
<1> QED
  BY <1>4, <1>5 DEF Inv

(* A page counts only payments that no page of this rebuild showed before. *)
LEMMA ReadKeeps ==
  ASSUME Inv, NEW unmet \in SUBSET Zappers, ReadPage(unmet)
  PROVE  Inv'
<1>0. scan \in Scans
  BY DEF ReadPage, Inv, TypeOK, NoScan
<1>1. PICK counted \in SUBSET New :
        scan' = [scan EXCEPT !.offset = @ + Cardinality(Batch),
                             !.seen = @ \cup New,
                             !.found = [p \in Payments |->
                                          IF p \in counted THEN @[p] + 1 ELSE @[p]]]
  <2> DEFINE chosen == {p \in New \cap scan.wanted :
                          scan.request.zapper \in {Everyone, Zapper[p]}}
             kept == {p \in chosen :
                        ~(scan.request.kind = "tracked" /\ Zapper[p] \in unmet)}
  <2>1. scan' = [scan EXCEPT !.offset = @ + Cardinality(Batch),
                             !.seen = @ \cup New,
                             !.found = [p \in Payments |->
                                          IF p \in kept THEN @[p] + 1 ELSE @[p]]]
    BY Zenon DEF ReadPage
  <2>2. kept \in SUBSET New
    OBVIOUS
  <2> QED
    BY <2>1, <2>2, Zenon
<1>2. New \subseteq Payments \ scan.seen /\ Cardinality(Batch) \in Nat
  BY PageFinite DEF New, Inv
<1>3. /\ scan'.busy
      /\ scan'.found = [p \in Payments |-> IF p \in counted THEN scan.found[p] + 1
                                                            ELSE scan.found[p]]
      /\ scan'.seen = scan.seen \cup New
      /\ scan' \in Scans
  <2> DEFINE f == [p \in Payments |-> IF p \in counted THEN scan.found[p] + 1
                                                        ELSE scan.found[p]]
             o == scan.offset + Cardinality(Batch)
             n == scan.seen \cup New
  <2>1. scan.offset \in Nat /\ scan.seen \subseteq Payments
        /\ \A p \in Payments : scan.found[p] \in Nat
    BY <1>0 DEF Scans
  <2>2. scan' = [scan EXCEPT !.offset = o, !.seen = n, !.found = f]
    BY <1>1
  <2>3. o \in Nat
    BY <1>2, <2>1
  <2>4. n \in SUBSET Payments
    BY <1>2, <2>1
  <2>5. \A p \in Payments : (IF p \in counted THEN scan.found[p] + 1 ELSE scan.found[p]) \in Nat
    BY <2>1
  <2>6. f \in [Payments -> Nat]
    BY <2>5
  <2>7. PICK g, m, k : g = f /\ m = o /\ k = n
    OBVIOUS
  <2>8. scan' \in Scans /\ scan'.busy /\ scan'.seen = k /\ scan'.found = g
    <3>1. g \in [Payments -> Nat] /\ m \in Nat /\ k \in SUBSET Payments
          /\ scan' = [scan EXCEPT !.offset = m, !.seen = k, !.found = g]
      BY <2>2, <2>3, <2>4, <2>6, <2>7
    <3> HIDE DEF f, o, n
    <3> QED
      BY <1>0, <3>1 DEF Scans
  <2> QED
    BY <2>7, <2>8
<1>4. \A p \in Payments : scan.found[p] \in Nat /\ scan.found[p] <= 1
                          /\ (scan.found[p] = 1 => p \in scan.seen)
  BY <1>0 DEF Scans, Inv, ScanOK
<1>5. ScanOK'
  BY <1>1, <1>2, <1>3, <1>4 DEF ScanOK
<1>6. members' \subseteq Zappers
  <2>1. \A p \in Payments : Zapper[p] \in Zappers
    OBVIOUS
  <2> QED
    BY <1>2, <2>1 DEF ReadPage, Inv, TypeOK
<1>7. TypeOK' /\ CountedOnce'
  BY <1>3, <1>6 DEF ReadPage, durableVars, settingVars, Inv, TypeOK, CountedOnce
<1> QED
  BY <1>5, <1>7 DEF Inv

(* What a rebuild writes it also enters in the ledger. *)
LEMMA FinishKeeps ==
  ASSUME Inv, Finish
  PROVE  Inv'
<1>1. scan \in Scans /\ scan.busy
  BY DEF Finish, Inv, TypeOK, NoScan
<1>2. \A p \in Payments : scan.found[p] \in Nat /\ scan.found[p] <= 1
                          /\ (scan.found[p] = 1 => p \in Found)
  BY <1>1 DEF Scans, Inv, ScanOK, Found
<1>3. /\ accounted' = accounted \cup Found
      /\ \A p \in Payments : times'[p] \in {scan.found[p], times[p]}
      /\ times' \in [Payments -> Nat]
  BY <1>1, <1>2 DEF Finish, Inv, TypeOK
<1>4. Found \subseteq Payments
  BY DEF Found
<1>5. CountedOnce'
  BY <1>2, <1>3 DEF Inv, TypeOK, CountedOnce
<1>6. rowTarget' \in [Zappers -> Targets \cup {None}]
  BY <1>1 DEF Finish, Inv, TypeOK, Scans
<1>7. TypeOK' /\ ScanOK'
  BY <1>3, <1>4, <1>6 DEF Finish, settingVars, Inv, TypeOK, ScanOK, NoScan
<1> QED
  BY <1>5, <1>7 DEF Inv

LEMMA NextInv == Inv /\ [Next]_vars => Inv'
<1> SUFFICES ASSUME Inv, [Next]_vars PROVE Inv'
  OBVIOUS
<1>1. CASE UNCHANGED vars
  BY <1>1 DEF vars, Inv, TypeOK, ScanOK, CountedOnce
<1>2. CASE Next
  BY <1>2, QuietKeeps, ResetKeeps, RecordKeeps, StartKeeps, ReadKeeps, FinishKeeps DEF Next
<1> QED
  BY <1>1, <1>2

(* Every variable of the zap totals keeps its type. *)
THEOREM TotalsTypeCorrect == Spec => []TypeOK
<1>1. Inv => TypeOK
  BY DEF Inv
<1> QED
  BY InitInv, NextInv, <1>1, PTL DEF Spec

(* However increments, rebuilds, resets and crashes interleave, no payment is *)
(* counted twice in a total, nor without an entry in the ledger.              *)
THEOREM TotalsCountOnce == Spec => []CountedOnce
<1>1. Inv => CountedOnce
  BY DEF Inv
<1> QED
  BY InitInv, NextInv, <1>1, PTL DEF Spec
-----------------------------------------------------------------------------
(* Places in the history.  They count the settled payments up to one, so they *)
(* are distinct, ordered like the payments, and leave no gap.                 *)

UpTo(p) == {q \in settled : q <= p}

LEMMA PlaceType ==
  ASSUME TypeOK, NEW p \in settled
  PROVE  /\ IsFiniteSet(settled) /\ IsFiniteSet(UpTo(p)) /\ p \in Nat
         /\ Place(p) = Cardinality(UpTo(p)) /\ Place(p) \in Nat \ {0}
<1>1. IsFiniteSet(settled) /\ p \in Nat
  BY FS_Subset DEF TypeOK
<1>2. IsFiniteSet(UpTo(p)) /\ p \in UpTo(p)
  BY <1>1, FS_Subset DEF UpTo
<1>3. Cardinality(UpTo(p)) \in Nat /\ Cardinality(UpTo(p)) # 0
  BY <1>2, FS_CardinalityType, FS_EmptySet
<1> QED
  BY <1>1, <1>2, <1>3 DEF Place, UpTo

LEMMA PlaceOrder ==
  ASSUME TypeOK, NEW p \in settled, NEW q \in settled, p < q
  PROVE  Place(p) < Place(q)
<1>0. p \in Nat /\ q \in Nat /\ settled \subseteq Nat
  BY PlaceType
<1>1. UpTo(p) \in SUBSET UpTo(q) /\ q \in UpTo(q) /\ q \notin UpTo(p)
  <2>1. \A r \in settled : r <= p => r <= q
    BY <1>0
  <2>2. q <= q /\ ~(q <= p)
    BY <1>0
  <2> QED
    BY <2>1, <2>2 DEF UpTo
<1>2. /\ Cardinality(UpTo(p)) <= Cardinality(UpTo(q))
      /\ Cardinality(UpTo(q)) # Cardinality(UpTo(p))
  BY <1>1, PlaceType, FS_Subset
<1> QED
  BY <1>2, PlaceType

(* No more payments than places. *)
LEMMA PlacesSuffice ==
  ASSUME TypeOK, NEW T \in SUBSET settled, NEW first \in Nat, NEW n \in Nat,
         \A p \in T : Place(p) \in first + 1..first + n
  PROVE  Cardinality(T) \in Nat /\ Cardinality(T) <= n
<1> DEFINE f == [p \in T |-> Place(p)]
<1>1. \A p, q \in T : p # q => Place(p) # Place(q)
  <2> SUFFICES ASSUME NEW p \in T, NEW q \in T, p # q
               PROVE  Place(p) # Place(q)
    OBVIOUS
  <2>1. p \in Nat /\ q \in Nat /\ Place(p) \in Nat /\ Place(q) \in Nat
    BY PlaceType
  <2>2. p < q \/ q < p
    BY <2>1
  <2> QED
    BY <2>1, <2>2, PlaceOrder
<1>2. f \in Injection(T, first + 1..first + n)
  BY <1>1 DEF Injection, IsInjective
<1>3. IsFiniteSet(first + 1..first + n) /\ Cardinality(first + 1..first + n) = n
  BY FS_Interval
<1>4. IsFiniteSet(T) /\ Cardinality(T) <= n
  BY <1>2, <1>3, FS_Injection
<1> QED
  BY <1>4, FS_CardinalityType

(* Where there is a payment further on, there is one in the next place. *)
LEMMA NoGap ==
  ASSUME TypeOK, NEW offset \in Nat, NEW p \in settled, Place(p) > offset
  PROVE  \E q \in settled : Place(q) = offset + 1
<1> DEFINE Later == {q \in settled : Place(q) > offset}
<1>1. Later \subseteq Nat /\ p \in Later
  BY PlaceType
<1>2. PICK q \in Later : \A r \in Later : ~(<<r, q>> \in OpToRel(<, Nat))
  BY <1>1, NatLessThanWellFounded, WFMin
<1>3. /\ q \in settled /\ q \in Nat /\ Place(q) \in Nat /\ Place(q) > offset
      /\ IsFiniteSet(UpTo(q)) /\ q \in UpTo(q) /\ Place(q) = Cardinality(UpTo(q))
  BY PlaceType DEF UpTo
<1> DEFINE Below == UpTo(q) \ {q}
<1>4. ASSUME NEW r \in Below
      PROVE  Place(r) \in 0 + 1..0 + offset
  <2>1. r \in settled /\ r <= q /\ r # q
    BY <1>4 DEF UpTo
  <2>3. r \in Nat /\ r < q /\ Place(r) \in Nat \ {0}
    BY <1>3, <2>1, PlaceType
  <2>2. r \notin Later
    BY <1>2, <1>3, <2>1, <2>3 DEF OpToRel
  <2> QED
    BY <2>1, <2>2, <2>3
<1>5. Cardinality(Below) <= offset
  <2>1. Below \in SUBSET settled
    BY DEF UpTo
  <2> HIDE DEF Below
  <2> QED
    BY <1>4, <2>1, PlacesSuffice
<1>6. Cardinality(Below) = Cardinality(UpTo(q)) - 1
  BY <1>3, FS_RemoveElement
<1>7. Place(q) = offset + 1
  BY <1>3, <1>5, <1>6
<1> QED
  BY <1>3, <1>7

-----------------------------------------------------------------------------
(* What a full rebuild holds: of the payments to its pubkey that the ledger   *)
(* has, each was on a page that it has read, or is in a place further on.     *)

KnownInv == /\ accounted \subseteq settled
            /\ \A p \in Payments : pending[p] # None => p \in settled
            /\ scan.busy => scan.seen \subseteq settled

Asked(p) == scan.request.zapper \in {Everyone, Zapper[p]}

FullScanInv ==
  scan.busy /\ scan.request.kind # "tracked" =>
    /\ scan.wanted = Payments
    /\ \A p \in Payments : scan.found[p] = 1 <=> p \in scan.seen /\ Asked(p)
    /\ \A p \in accounted : Recipient[p] = scan.watch =>
         p \in scan.seen \/ Place(p) > scan.offset

CompleteInv == Inv /\ KnownInv /\ FullScanInv

LEMMA InitComplete == Init => CompleteInv
<1> SUFFICES ASSUME Init
             PROVE  KnownInv /\ FullScanInv
  BY InitInv DEF CompleteInv
<1> QED
  BY DEF Init, KnownInv, FullScanInv, NoScan

(* While more payments settle, a place can only grow. *)
LEMMA PlacesGrow ==
  ASSUME TypeOK, NEW p \in settled, settled \subseteq settled', settled' \subseteq Payments
  PROVE  Place(p)' \in Nat /\ Place(p)' >= Place(p)
<1>1. IsFiniteSet(settled')
  BY FS_Subset
<1>2. {q \in settled : q <= p} \subseteq {q \in settled' : q <= p}
      /\ IsFiniteSet({q \in settled' : q <= p})
  BY <1>1, FS_Subset
<1>3. /\ Cardinality({q \in settled' : q <= p}) \in Nat
      /\ Cardinality({q \in settled : q <= p}) <= Cardinality({q \in settled' : q <= p})
  BY <1>2, FS_Subset, FS_CardinalityType
<1> QED
  BY <1>3, PlaceType DEF Place, UpTo

(* Outside the pages of a rebuild the ledger grows only when none is busy. *)
LEMMA ApartFromPages ==
  ASSUME CompleteInv, TypeOK', settled \subseteq settled',
         scan' \in {scan, NoScan},
         scan'.busy => accounted' \subseteq accounted,
         accounted' \subseteq settled,
         \A p \in Payments : pending'[p] # None => p \in settled
  PROVE  KnownInv' /\ FullScanInv'
<1>1. KnownInv'
  BY DEF CompleteInv, KnownInv, NoScan
<1>2. FullScanInv'
  <2> SUFFICES ASSUME scan'.busy, scan.request.kind # "tracked", scan' = scan, scan.busy
               PROVE  FullScanInv'
    BY DEF FullScanInv, NoScan
  <2>1. /\ scan.wanted = Payments
        /\ \A p \in Payments : scan.found[p] = 1 <=> p \in scan.seen /\ Asked(p)
        /\ \A p \in accounted : Recipient[p] = scan.watch =>
             p \in scan.seen \/ Place(p) > scan.offset
    BY DEF CompleteInv, FullScanInv
  <2>2. scan.offset \in Nat
    <3>1. scan \in Scans
      BY DEF CompleteInv, Inv, TypeOK, NoScan
    <3> QED
      BY <3>1 DEF Scans
  <2>3. ASSUME NEW p \in accounted', Recipient[p] = scan.watch
        PROVE  p \in scan.seen \/ Place(p)' > scan.offset
    <3>1. p \in accounted /\ p \in settled
      BY <2>3
    <3>2. Place(p) \in Nat /\ Place(p)' \in Nat /\ Place(p)' >= Place(p)
      BY <3>1, PlacesGrow, PlaceType DEF CompleteInv, Inv, TypeOK
    <3> QED
      BY <2>1, <2>2, <2>3, <3>1, <3>2
  <2> QED
    BY <2>1, <2>3 DEF FullScanInv, Asked
<1> QED
  BY <1>1, <1>2

LEMMA OthersKeepComplete ==
  ASSUME CompleteInv,
         \/ Track \/ Reset \/ Crash \/ Fail \/ UNCHANGED vars
         \/ \E t \in Targets : ChangeWatch(t)
         \/ \E p \in Payments : Settle(p) \/ Present(p) \/ Withdraw(p) \/ Record(p)
         \/ \E r \in Requests : Ask(r) \/ AnswerCached(r)
  PROVE  KnownInv' /\ FullScanInv'
<1> USE DEF durableVars, settingVars
<1>1. TypeOK'
  BY NextInv DEF CompleteInv, Inv, Next
<1>2. /\ accounted \subseteq settled
      /\ \A p \in Payments : pending[p] # None => p \in settled
      /\ pending \in [Payments -> Targets \cup {None}] /\ Payments \in SUBSET Nat
  BY DEF CompleteInv, KnownInv, Inv, TypeOK
<1>3. CASE \/ Track \/ Fail \/ UNCHANGED vars
           \/ \E t \in Targets : ChangeWatch(t)
           \/ \E r \in Requests : Ask(r) \/ AnswerCached(r)
  <2>1. /\ UNCHANGED <<settled, accounted, pending>> /\ scan' \in {scan, NoScan}
    BY <1>3 DEF Track, Fail, ChangeWatch, Ask, AnswerCached, vars
  <2> QED
    BY <1>1, <1>2, <2>1, ApartFromPages
<1>4. CASE Reset
  <2>1. UNCHANGED <<settled, pending, scan>> /\ accounted' = {}
    BY <1>4 DEF Reset
  <2> QED
    BY <1>1, <1>2, <2>1, ApartFromPages
<1>5. CASE Crash
  <2>1. UNCHANGED <<settled, accounted>> /\ scan' = NoScan
        /\ \A p \in Payments : pending'[p] = None
    BY <1>5 DEF Crash
  <2> QED
    BY <1>1, <1>2, <2>1, ApartFromPages
<1>6. ASSUME NEW p \in Payments, Settle(p) \/ Present(p) \/ Withdraw(p) \/ Record(p)
      PROVE  KnownInv' /\ FullScanInv'
  <2>1. CASE Settle(p)
    <3>1. UNCHANGED <<accounted, pending, scan>> /\ settled \subseteq settled'
      BY <2>1 DEF Settle
    <3> QED
      BY <1>1, <1>2, <3>1, ApartFromPages
  <2>2. CASE Present(p) \/ Withdraw(p)
    <3>1. UNCHANGED <<settled, accounted, scan>>
          /\ \A q \in Payments : pending'[q] # None => q \in settled
      BY <1>2, <2>2 DEF Present, Withdraw
    <3> QED
      BY <1>1, <1>2, <3>1, ApartFromPages
  <2>3. CASE Record(p)
    <3>1. /\ UNCHANGED <<settled, scan>> /\ ~scan.busy
          /\ \A q \in Payments : pending'[q] # None => q \in settled
          /\ accounted' \subseteq accounted \cup {p} /\ p \in settled
      BY <1>2, <2>3 DEF Record
    <3> QED
      BY <1>1, <1>2, <3>1, ApartFromPages
  <2> QED
    BY <1>6, <2>1, <2>2, <2>3
<1> QED
  BY <1>3, <1>4, <1>5, <1>6

(* A rebuild begins before the first place. *)
LEMMA StartComplete ==
  ASSUME CompleteInv, NEW r \in Requests, StartScan(r)
  PROVE  KnownInv' /\ FullScanInv'
<1>1. UNCHANGED <<settled, accounted, pending>>
      /\ scan' = [busy |-> TRUE, request |-> r, watch |-> watch, wanted |-> Wanted(r),
                  offset |-> 0, seen |-> {}, found |-> [p \in Payments |-> 0]]
  BY DEF StartScan, durableVars, settingVars
<1>2. \A p \in settled : Place(p)' > 0
  <2>1. \A p \in settled : Place(p) > 0
    BY PlaceType DEF CompleteInv, Inv
  <2> QED
    BY <1>1, <2>1 DEF Place
<1>3. KnownInv'
  BY <1>1 DEF CompleteInv, KnownInv
<1> QED
  BY <1>1, <1>2, <1>3 DEF CompleteInv, KnownInv, FullScanInv, Wanted

(* A page shows whatever is in the places that it covers. *)
LEMMA PageComplete ==
  ASSUME CompleteInv, NEW unmet \in SUBSET Zappers, ReadPage(unmet)
  PROVE  KnownInv' /\ FullScanInv'
<1>0. /\ TypeOK /\ scan \in Scans /\ scan.busy /\ Batch \subseteq settled
      /\ settled \subseteq Payments
  BY DEF CompleteInv, Inv, TypeOK, ReadPage, NoScan, Batch
<1>1. UNCHANGED <<settled, accounted, pending>>
  BY DEF ReadPage, durableVars
<1>2. KnownInv'
  <2>1. scan'.seen = scan.seen \cup New
    BY <1>0, Zenon DEF ReadPage, Scans
  <2> QED
    BY <1>0, <1>1, <2>1 DEF CompleteInv, KnownInv, New
<1>3. ASSUME scan.request.kind # "tracked"
      PROVE  FullScanInv'
  <2>1. /\ scan.wanted = Payments
        /\ \A p \in Payments : scan.found[p] = 1 <=> p \in scan.seen /\ Asked(p)
        /\ \A p \in accounted : Recipient[p] = scan.watch =>
             p \in scan.seen \/ Place(p) > scan.offset
    BY <1>0, <1>3 DEF CompleteInv, FullScanInv
  <2>2. New \subseteq settled \ scan.seen
    BY <1>0 DEF New
  <2>3. PICK counted :
          /\ counted = {p \in New : Asked(p)}
          /\ scan' = [scan EXCEPT !.offset = @ + Cardinality(Batch),
                                  !.seen = @ \cup New,
                                  !.found = [p \in Payments |->
                                               IF p \in counted THEN @[p] + 1 ELSE @[p]]]
    <3> DEFINE chosen == {p \in New \cap scan.wanted :
                            scan.request.zapper \in {Everyone, Zapper[p]}}
               kept == {p \in chosen :
                          ~(scan.request.kind = "tracked" /\ Zapper[p] \in unmet)}
    <3>1. scan' = [scan EXCEPT !.offset = @ + Cardinality(Batch),
                               !.seen = @ \cup New,
                               !.found = [p \in Payments |->
                                            IF p \in kept THEN @[p] + 1 ELSE @[p]]]
      BY Zenon DEF ReadPage
    <3>2. kept = {p \in New : Asked(p)}
      BY <1>0, <1>3, <2>1, <2>2 DEF Asked
    <3> QED
      BY <3>1, <3>2, Zenon
  <2>4. /\ scan'.busy /\ scan'.request = scan.request /\ scan'.wanted = scan.wanted
        /\ scan'.watch = scan.watch
        /\ scan'.offset = scan.offset + Cardinality(Batch)
        /\ scan'.seen = scan.seen \cup New
        /\ \A p \in Payments : scan'.found[p] = IF p \in counted THEN scan.found[p] + 1
                                                ELSE scan.found[p]
    BY <1>0, <2>3 DEF Scans
  <2>5. ASSUME NEW p \in Payments
        PROVE  scan'.found[p] = 1 <=> p \in scan'.seen /\ Asked(p)'
    <3>1. Asked(p)' = Asked(p) /\ scan.found[p] \in Nat
          /\ scan.found[p] <= 1
      BY <1>0, <2>4 DEF Asked, Scans, CompleteInv, Inv, ScanOK
    <3> QED
      BY <2>1, <2>2, <2>3, <2>4, <3>1
  <2>6. Cardinality(Batch) \in Nat /\ Cardinality(Batch) <= BatchSize
    <3>1. \A p \in Batch : Place(p) \in scan.offset + 1..scan.offset + BatchSize
      BY DEF Batch
    <3>2. scan.offset \in Nat /\ BatchSize \in Nat /\ Batch \in SUBSET settled
      BY <1>0 DEF Scans
    <3> HIDE DEF Batch
    <3> QED
      BY <1>0, <3>1, <3>2, PlacesSuffice
  <2>7. ASSUME NEW p \in accounted, Recipient[p] = scan.watch
        PROVE  p \in scan'.seen \/ Place(p)' > scan'.offset
    <3>0. p \in settled /\ Place(p) \in Nat /\ scan.offset \in Nat /\ Place(p)' = Place(p)
      BY <1>0, <1>1, PlaceType DEF CompleteInv, KnownInv, Scans, Place
    <3>1. CASE p \in scan.seen
      BY <2>4, <3>1
    <3>2. CASE Place(p) > scan.offset + BatchSize
      BY <2>4, <2>6, <3>0, <3>2
    <3>3. CASE p \notin scan.seen /\ Place(p) <= scan.offset + BatchSize
      <4>1. Place(p) > scan.offset
        BY <2>1, <2>7, <3>3
      <4>2. p \in New
        BY <2>7, <3>0, <3>3, <4>1 DEF New, Batch
      <4> QED
        BY <2>4, <4>2
    <3> QED
      BY <3>0, <3>1, <3>2, <3>3
  <2> QED
    BY <1>1, <2>1, <2>2, <2>4, <2>5, <2>7 DEF FullScanInv
<1>4. ASSUME scan.request.kind = "tracked"
      PROVE  FullScanInv'
  <2>1. scan'.request = scan.request
    BY <1>0, Zenon DEF ReadPage, Scans
  <2> QED
    BY <1>4, <2>1 DEF FullScanInv
<1> QED
  BY <1>2, <1>3, <1>4

LEMMA FinishComplete ==
  ASSUME CompleteInv, Finish
  PROVE  KnownInv' /\ FullScanInv'
<1>1. scan' = NoScan /\ UNCHANGED <<settled, pending>>
      /\ accounted' = accounted \cup Found
  BY DEF Finish
<1>2. scan \in Scans /\ scan.busy
  BY DEF Finish, CompleteInv, Inv, TypeOK, NoScan
<1>3. Found \subseteq settled
  <2>1. \A p \in Payments : scan.found[p] \in Nat
    BY <1>2 DEF Scans
  <2>2. \A p \in Found : p \in scan.seen
    BY <1>2, <2>1 DEF Found, CompleteInv, Inv, ScanOK
  <2> QED
    BY <1>2, <2>2 DEF CompleteInv, KnownInv
<1>4. KnownInv'
  BY <1>1, <1>3 DEF CompleteInv, KnownInv, NoScan
<1> QED
  BY <1>1, <1>4 DEF FullScanInv, NoScan

LEMMA NextComplete == CompleteInv /\ [Next]_vars => CompleteInv'
<1> SUFFICES ASSUME CompleteInv, [Next]_vars
             PROVE  KnownInv' /\ FullScanInv'
  BY NextInv DEF CompleteInv
<1> QED
  BY OthersKeepComplete, StartComplete, PageComplete, FinishComplete DEF Next

(* A full rebuild writes, for each zapper it covers, every payment to the     *)
(* watched pubkey that processed_zaps has for that zapper: at the end of the  *)
(* history no place is left, and what came earlier was on a page, wherever    *)
(* payments that settled meanwhile have shifted it.                           *)
THEOREM TotalsRefreshComplete == Spec => RefreshComplete
<1>1. ASSUME CompleteInv, Finish, scan.request.kind # "tracked",
             NEW p \in accounted', Zapper[p] \in Written, Recipient[p] = scan.watch
      PROVE  times'[p] = 1
  <2>1. /\ scan.busy /\ Batch = {} /\ scan \in Scans
        /\ accounted' = accounted \cup Found
        /\ times' = [q \in Payments |-> IF Zapper[q] \in Written THEN scan.found[q]
                                        ELSE times[q]]
    BY <1>1 DEF Finish, CompleteInv, Inv, TypeOK, NoScan
  <2>2. p \in Payments /\ times'[p] = scan.found[p]
    BY <1>1, <2>1 DEF CompleteInv, Inv, TypeOK, Found
  <2>3. \A q \in Found : q \in Payments /\ scan.found[q] = 1 /\ Asked(q)
    BY <1>1, <2>1 DEF Found, Scans, CompleteInv, Inv, ScanOK, FullScanInv
  <2>4. CASE p \in Found
    BY <2>2, <2>3, <2>4
  <2>5. CASE p \in accounted
    <3>1. p \in settled /\ scan.offset \in Nat /\ BatchSize \in Nat \ {0}
      BY <1>1, <2>1, <2>5 DEF CompleteInv, KnownInv, Scans
    <3>2. ~(Place(p) > scan.offset)
      <4>1. SUFFICES ASSUME Place(p) > scan.offset
                     PROVE  FALSE
        OBVIOUS
      <4>2. PICK q \in settled : Place(q) = scan.offset + 1
        BY <1>1, <3>1, <4>1, NoGap DEF CompleteInv, Inv
      <4>3. q \in Batch
        BY <3>1, <4>2 DEF Batch
      <4> QED
        BY <2>1, <4>3
    <3>3. p \in scan.seen
      BY <1>1, <2>1, <2>5, <3>2 DEF CompleteInv, FullScanInv
    <3>4. Asked(p)
      <4>1. CASE \E q \in Found : Zapper[q] = Zapper[p]
        BY <2>3, <4>1 DEF Asked
      <4>2. CASE scan.request.zapper = Zapper[p]
        BY <4>2 DEF Asked
      <4> QED
        BY <1>1, <4>1, <4>2 DEF Written
    <3> QED
      BY <1>1, <2>1, <2>2, <3>3, <3>4 DEF CompleteInv, FullScanInv
  <2> QED
    BY <2>1, <2>4, <2>5
<1>2. CompleteInv /\ [Next]_vars =>
        [Finish /\ scan.request.kind # "tracked" =>
           \A p \in accounted' :
             Zapper[p] \in Written /\ Recipient[p] = scan.watch => times'[p] = 1]_vars
  BY <1>1
<1> QED
  BY <1>2, InitComplete, NextComplete, PTL DEF Spec, RefreshComplete
=============================================================================
