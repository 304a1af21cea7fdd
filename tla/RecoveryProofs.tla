--------------------------- MODULE RecoveryProofs ---------------------------
(***************************************************************************)
(* A recovery pass in which nothing fails leaves no payment behind, for    *)
(* any number of notes, payments and pages.                                *)
(***************************************************************************)
EXTENDS Recovery, FiniteSetTheorems, WellFoundedInduction, TLAPS

USE NotesAssumption, PaymentsAssumption, BoundsAssumption

Noted == Notes \cup {NoNote}

Jobs == [stage : {"judge", "credit"}, payment : Payments, view : Noted, stamp : Noted]

Opened == [stage : {"open"}, stamp : Noted]

Scans == [stage : {"scan"}, stamp : Noted, view : Noted, since : Nat, offset : Nat,
          page : SUBSET Payments, last : BOOLEAN, failed : BOOLEAN, owed : SUBSET Payments]

TypeOK ==
  /\ settled \subseteq Payments /\ queued \subseteq Payments /\ credited \subseteq Payments
  /\ active \subseteq Zappers /\ saved \subseteq Notes /\ tracked \in Noted
  /\ job \in [Actors -> {NoJob} \cup Jobs]
  /\ pass \in {NoPass} \cup Opened \cup Scans

\* What is tracked is the newest of the saved notes.
TrackedInv == tracked # NoNote => tracked \in saved /\ tracked = Max(saved)

\* A payment that the pass has decided, is about to, or will still come to.
Covered(p) ==
  \/ p \in credited \/ p \in pass.page
  \/ job["pass"] # NoJob /\ job["pass"].payment = p
  \/ ~pass.last /\ Place(p) > pass.offset

\* A pass owes payments that settled before it began, from members or with the
\* tracked note; unless something failed it will decide each of them.
PassInv ==
  /\ job["pass"] # NoJob => pass.stage = "scan"
  /\ pass.stage = "scan" =>
       /\ pass.owed \subseteq settled
       /\ \A p \in pass.owed : Zapper[p] \in active \/ Note[p] = tracked
       /\ ~pass.failed => \A p \in pass.owed : Time[p] >= pass.since => Covered(p)

IInv == TypeOK /\ TrackedInv /\ PassInv

-----------------------------------------------------------------------------
(* The newest of some notes is one of them.                                  *)

LEMMA MaxIsMember ==
  ASSUME NEW S \in SUBSET Notes, S # {}
  PROVE  Max(S) \in S /\ \A n \in S : Max(S) >= n
<1> DEFINE Newer(x) == {y \in S : y > x}
           count == [x \in S |-> Cardinality(Newer(x))]
           Counts == {count[x] : x \in S}
<1>1. IsFiniteSet(S) /\ S \subseteq Nat
  BY FS_Subset
<1>2. \A x \in S : IsFiniteSet(Newer(x)) /\ Cardinality(Newer(x)) \in Nat
  <2> SUFFICES ASSUME NEW x \in S
               PROVE  IsFiniteSet(Newer(x)) /\ Cardinality(Newer(x)) \in Nat
    OBVIOUS
  <2>1. Newer(x) \in SUBSET S
    OBVIOUS
  <2> HIDE DEF Newer
  <2> QED
    BY <1>1, <2>1, FS_Subset, FS_CardinalityType
<1>3. Counts \subseteq Nat /\ Counts # {}
  <2>1. count \in [S -> Nat]
    BY <1>2
  <2> HIDE DEF count
  <2>2. \A x \in S : count[x] \in Counts
    OBVIOUS
  <2>3. Counts \subseteq Nat
    BY <2>1
  <2> HIDE DEF Counts
  <2> QED
    BY <2>2, <2>3
<1>4. PICK c \in Counts : \A d \in Counts : ~(<<d, c>> \in OpToRel(<, Nat))
  <2> HIDE DEF Counts
  <2> QED
    BY <1>3, NatLessThanWellFounded, WFMin
<1>5. PICK x \in S : c = Cardinality(Newer(x))
  OBVIOUS
<1>6. ASSUME NEW y \in S, y > x
      PROVE  FALSE
  <2>1. y \in Nat /\ x \in Nat
    BY <1>1
  <2>2. Newer(y) \in SUBSET Newer(x) /\ y \in Newer(x) /\ y \notin Newer(y)
    <3>1. \A z \in S : z > y => z > x
      BY <1>1, <1>6, <2>1
    <3>2. ~(y > y)
      BY <2>1
    <3> QED
      BY <1>6, <3>1, <3>2
  <2>3. Cardinality(Newer(y)) \in Counts /\ Cardinality(Newer(x)) \in Counts
    OBVIOUS
  <2> HIDE DEF Newer, Counts
  <2>4. Cardinality(Newer(y)) <= Cardinality(Newer(x))
        /\ Cardinality(Newer(y)) # Cardinality(Newer(x))
    BY <1>2, <2>2, FS_Subset
  <2>5. Cardinality(Newer(y)) < Cardinality(Newer(x))
    BY <1>2, <2>4
  <2>6. <<Cardinality(Newer(y)), c>> \in OpToRel(<, Nat)
    BY <1>2, <1>5, <2>5 DEF OpToRel
  <2> QED
    BY <1>4, <2>3, <2>6
<1>7. \A y \in S : x >= y
  BY <1>1, <1>6
<1> QED
  BY <1>7 DEF Max
-----------------------------------------------------------------------------
(* Places in a list of payments by time: distinct, in the order of time, and  *)
(* without a gap.                                                             *)

UpTo(list, p) == {q \in list : Time[q] <= Time[p]}
Rank(list, p) == Cardinality(UpTo(list, p))

LEMMA RankType ==
  ASSUME NEW list \in SUBSET Payments, NEW p \in list
  PROVE  /\ IsFiniteSet(list) /\ IsFiniteSet(UpTo(list, p)) /\ Time[p] \in Nat
         /\ Rank(list, p) \in Nat \ {0}
<1>1. IsFiniteSet(list) /\ Time[p] \in Nat
  BY FS_Subset
<1>2. IsFiniteSet(UpTo(list, p)) /\ p \in UpTo(list, p)
  BY <1>1, FS_Subset DEF UpTo
<1>3. Cardinality(UpTo(list, p)) \in Nat /\ Cardinality(UpTo(list, p)) # 0
  BY <1>2, FS_CardinalityType, FS_EmptySet
<1> QED
  BY <1>1, <1>2, <1>3 DEF Rank

LEMMA RankOrder ==
  ASSUME NEW list \in SUBSET Payments, NEW p \in list, NEW q \in list, Time[p] < Time[q]
  PROVE  Rank(list, p) < Rank(list, q)
<1>0. Time[p] \in Nat /\ Time[q] \in Nat /\ \A r \in list : Time[r] \in Nat
  OBVIOUS
<1>1. UpTo(list, p) \in SUBSET UpTo(list, q) /\ q \in UpTo(list, q) /\ q \notin UpTo(list, p)
  <2>1. \A r \in list : Time[r] <= Time[p] => Time[r] <= Time[q]
    BY <1>0
  <2>2. Time[q] <= Time[q] /\ ~(Time[q] <= Time[p])
    BY <1>0
  <2> QED
    BY <2>1, <2>2 DEF UpTo
<1>2. /\ Cardinality(UpTo(list, p)) <= Cardinality(UpTo(list, q))
      /\ Cardinality(UpTo(list, q)) # Cardinality(UpTo(list, p))
  BY <1>1, RankType, FS_Subset
<1> QED
  BY <1>2, RankType DEF Rank

LEMMA RanksDistinct ==
  ASSUME NEW list \in SUBSET Payments, NEW p \in list, NEW q \in list, p # q
  PROVE  Rank(list, p) # Rank(list, q)
<1>1. Rank(list, p) \in Nat /\ Rank(list, q) \in Nat
  BY RankType
<1>2. Time[p] < Time[q] \/ Time[q] < Time[p]
  <2>1. Time[p] \in Nat /\ Time[q] \in Nat /\ Time[p] # Time[q]
    OBVIOUS
  <2> QED
    BY <2>1
<1> QED
  BY <1>1, <1>2, RankOrder

(* No more payments than places. *)
LEMMA PlacesSuffice ==
  ASSUME NEW list \in SUBSET Payments, NEW T \in SUBSET list, NEW first \in Nat, NEW n \in Nat,
         \A p \in T : Rank(list, p) \in first + 1..first + n
  PROVE  Cardinality(T) \in Nat /\ Cardinality(T) <= n
<1> DEFINE f == [p \in T |-> Rank(list, p)]
<1>1. f \in Injection(T, first + 1..first + n)
  BY RanksDistinct DEF Injection, IsInjective
<1>2. IsFiniteSet(first + 1..first + n) /\ Cardinality(first + 1..first + n) = n
  BY FS_Interval
<1>3. IsFiniteSet(T) /\ Cardinality(T) <= n
  BY <1>1, <1>2, FS_Injection
<1> QED
  BY <1>3, FS_CardinalityType

(* Where there is a payment further on, there is one in the next place. *)
LEMMA NoGap ==
  ASSUME NEW list \in SUBSET Payments, NEW offset \in Nat,
         NEW p \in list, Rank(list, p) > offset
  PROVE  \E q \in list : Rank(list, q) = offset + 1
<1> DEFINE Later == {q \in list : Rank(list, q) > offset}
           Times == {Time[q] : q \in Later}
<1>1. Times \subseteq Nat /\ Times # {}
  OBVIOUS
<1>2. PICK time \in Times : \A d \in Times : ~(<<d, time>> \in OpToRel(<, Nat))
  <2> HIDE DEF Times
  <2> QED
    BY <1>1, NatLessThanWellFounded, WFMin
<1>3. PICK q \in Later : time = Time[q]
  OBVIOUS
<1>4. /\ Rank(list, q) \in Nat /\ Rank(list, q) > offset /\ Time[q] \in Nat
      /\ IsFiniteSet(UpTo(list, q)) /\ q \in UpTo(list, q)
      /\ Rank(list, q) = Cardinality(UpTo(list, q))
  <2>1. q \in list /\ Time[q] \in Nat /\ Time[q] <= Time[q]
    OBVIOUS
  <2>2. IsFiniteSet(UpTo(list, q)) /\ Rank(list, q) \in Nat
    BY <2>1, RankType
  <2> QED
    BY <2>1, <2>2 DEF UpTo, Rank
<1> DEFINE Below == UpTo(list, q) \ {q}
<1>5. ASSUME NEW r \in Below
      PROVE  Rank(list, r) \in 0 + 1..0 + offset
  <2>1. r \in list /\ Time[r] <= Time[q] /\ r # q
    BY <1>5 DEF UpTo
  <2>2. Time[r] \in Nat /\ Time[r] < Time[q] /\ Rank(list, r) \in Nat \ {0}
    <3>1. Time[r] # Time[q] /\ Time[r] \in Nat
      BY <1>3, <2>1
    <3> QED
      BY <1>4, <2>1, <3>1, RankType
  <2>3. r \notin Later
    <3>1. <<Time[r], time>> \in OpToRel(<, Nat)
      BY <1>3, <1>4, <2>2 DEF OpToRel
    <3> QED
      BY <1>2, <3>1
  <2> QED
    BY <2>1, <2>2, <2>3
<1>6. Cardinality(Below) \in Nat /\ Cardinality(Below) <= offset
  <2>1. Below \in SUBSET list
    BY DEF UpTo
  <2> HIDE DEF Below
  <2> QED
    BY <1>5, <2>1, PlacesSuffice
<1>7. Cardinality(Below) = Cardinality(UpTo(list, q)) - 1
  BY <1>4, FS_RemoveElement
<1>8. Rank(list, q) = offset + 1
  BY <1>4, <1>6, <1>7
<1> QED
  BY <1>3, <1>8

(* A page is full when payments come after it. *)
LEMMA PageFull ==
  ASSUME NEW list \in SUBSET Payments, NEW offset \in Nat, NEW T,
         T = {q \in list : Rank(list, q) \in offset + 1..offset + PageSize}
  PROVE  /\ Cardinality(T) \in Nat /\ Cardinality(T) <= PageSize
         /\ \A p \in list : Rank(list, p) > offset + PageSize => Cardinality(T) = PageSize
<1>0. T \in SUBSET list /\ PageSize \in Nat
  OBVIOUS
<1>1. Cardinality(T) \in Nat /\ Cardinality(T) <= PageSize /\ IsFiniteSet(T)
  BY <1>0, PlacesSuffice, FS_Subset
<1>2. ASSUME NEW p \in list, Rank(list, p) > offset + PageSize
      PROVE  Cardinality(T) >= PageSize
  <2> DEFINE f == [q \in T |-> Rank(list, q)]
             places == offset + 1..offset + PageSize
  <2>1. ASSUME NEW k \in places
        PROVE  \E q \in T : Rank(list, q) = k
    <3>0. k \in Nat \ {0} /\ k <= offset + PageSize
      BY <1>0
    <3>3. Rank(list, p) \in Nat
      <4> HIDE DEF f, places
      <4> QED
        BY RankType
    <3>1. k - 1 \in Nat /\ Rank(list, p) > k - 1 /\ (k - 1) + 1 = k
      BY <1>0, <1>2, <3>0, <3>3
    <3>2. PICK q \in list : Rank(list, q) = (k - 1) + 1
      BY <3>1, NoGap
    <3> QED
      BY <2>1, <3>1, <3>2
  <2>2. f \in Surjection(T, places)
    <3>1. f \in [T -> places]
      OBVIOUS
    <3>2. \A k \in places : \E q \in T : f[q] = k
      BY <2>1
    <3> HIDE DEF f, places
    <3> QED
      BY <3>1, <3>2 DEF Surjection
  <2>3. Cardinality(places) = PageSize
    BY <1>0, FS_Interval
  <2> HIDE DEF f, places
  <2>4. Cardinality(places) <= Cardinality(T)
    BY <1>1, <2>2, FS_Surjection
  <2> QED
    BY <1>0, <1>1, <2>3, <2>4
<1> QED
  BY <1>0, <1>1, <1>2
-----------------------------------------------------------------------------
(* What every step may rely on.                                              *)

LEMMA JobType ==
  ASSUME TypeOK, NEW a \in Actors, job[a].stage \in {"judge", "credit"}
  PROVE  /\ job[a] \in Jobs /\ job[a] # NoJob /\ job[a].payment \in Payments
         /\ Note[job[a].payment] \in Notes /\ Zapper[job[a].payment] \in Zappers
<1>1. job[a] \in {NoJob} \cup Jobs
  BY DEF TypeOK
<1>2. job[a] \in Jobs /\ job[a] # NoJob
  BY <1>1 DEF NoJob
<1>3. job[a].payment \in Payments
  BY <1>2 DEF Jobs
<1> QED
  BY <1>2, <1>3 DEF Zappers

\* A scan goes on as it was, at most relieved of what it owes.
Lighter ==
  IF pass.stage = "scan"
    THEN /\ pass' \in Scans /\ pass'.owed \subseteq pass.owed
         /\ pass'.since = pass.since /\ pass'.offset = pass.offset
         /\ pass'.page = pass.page /\ pass'.last = pass.last /\ pass'.failed = pass.failed
    ELSE pass' = pass

LEMMA ExcuseLightens ==
  ASSUME TypeOK, NEW payments, Excuse(payments)
  PROVE  /\ Lighter
         /\ pass.stage = "scan" => pass'.owed = pass.owed \ payments
<1>1. CASE pass.stage = "scan"
  <2>1. pass \in Scans /\ pass' = [pass EXCEPT !.owed = @ \ payments]
    BY <1>1 DEF Excuse, TypeOK, NoPass, Opened
  <2> QED
    BY <1>1, <2>1 DEF Lighter, Scans
<1>2. CASE pass.stage # "scan"
  BY <1>2 DEF Excuse, Lighter
<1> QED
  BY <1>1, <1>2

LEMMA UnchangedLightens ==
  ASSUME TypeOK, pass' = pass
  PROVE  Lighter
  BY DEF Lighter, TypeOK, NoPass, Opened

LEMMA LighterType ==
  ASSUME TypeOK, Lighter
  PROVE  pass' \in {NoPass} \cup Opened \cup Scans /\ pass'.stage = pass.stage
  BY DEF Lighter, TypeOK, Scans

(* The place of a payment that has settled grows while more settle. *)
LEMMA PlaceGrows ==
  ASSUME TypeOK, pass.stage = "scan", NEW p \in settled, Time[p] >= pass.since,
         settled \subseteq settled', settled' \subseteq Payments, pass'.since = pass.since
  PROVE  /\ Place(p) \in Nat \ {0} /\ Place(p)' \in Nat /\ Place(p)' >= Place(p)
<1>1. Listing \in SUBSET Payments /\ p \in Listing
  BY DEF Listing, TypeOK
<1>2. Listing' \in SUBSET Payments /\ Listing \subseteq Listing' /\ p \in Listing'
  BY <1>1 DEF Listing
<1>3. Place(p) = Rank(Listing, p) /\ Place(p)' = Rank(Listing', p)
  BY DEF Place, Rank, UpTo
<1>4. UpTo(Listing, p) \in SUBSET UpTo(Listing', p)
  BY <1>2 DEF UpTo
<1>5. IsFiniteSet(UpTo(Listing', p)) /\ Rank(Listing', p) \in Nat /\ Rank(Listing, p) \in Nat \ {0}
  BY <1>1, <1>2, RankType
<1>6. Rank(Listing, p) <= Rank(Listing', p)
  BY <1>4, <1>5, FS_Subset DEF Rank
<1> QED
  BY <1>3, <1>5, <1>6

(* Steps that neither the pass nor its attempt takes. *)
LEMMA PassStands ==
  ASSUME IInv, Lighter, settled \subseteq settled', settled' \subseteq Payments,
         job'["pass"] = job["pass"],
         pass.stage = "scan" =>
           \A p \in pass'.owed : /\ p \in credited => p \in credited'
                                 /\ Zapper[p] \in active' \/ Note[p] = tracked'
  PROVE  PassInv'
<1>1. job'["pass"] # NoJob => pass'.stage = "scan"
  BY LighterType DEF IInv, PassInv
<1>2. ASSUME pass'.stage = "scan"
      PROVE  /\ pass'.owed \subseteq settled'
             /\ \A p \in pass'.owed : Zapper[p] \in active' \/ Note[p] = tracked'
             /\ ~pass'.failed => \A p \in pass'.owed : Time[p] >= pass'.since => Covered(p)'
  <2>1. /\ pass.stage = "scan" /\ pass'.owed \subseteq pass.owed
        /\ pass'.since = pass.since /\ pass'.offset = pass.offset
        /\ pass'.page = pass.page /\ pass'.last = pass.last /\ pass'.failed = pass.failed
        /\ pass.owed \subseteq settled
        /\ ~pass.failed => \A p \in pass.owed : Time[p] >= pass.since => Covered(p)
    BY <1>2, LighterType DEF Lighter, IInv, PassInv
  <2>2. ASSUME ~pass'.failed, NEW p \in pass'.owed, Time[p] >= pass'.since
        PROVE  Covered(p)'
    <3>1. Covered(p) /\ p \in settled /\ (p \in credited => p \in credited')
      BY <2>1, <2>2
    <3>2. Place(p) \in Nat /\ Place(p)' \in Nat /\ Place(p)' >= Place(p)
          /\ pass.offset \in Nat
      <4>1. Place(p) \in Nat /\ Place(p)' \in Nat /\ Place(p)' >= Place(p)
        BY <2>1, <2>2, <3>1, PlaceGrows DEF IInv
      <4>2. pass \in Scans
        BY <2>1 DEF IInv, TypeOK, NoPass, Opened
      <4> QED
        BY <4>1, <4>2 DEF Scans
    <3>3. Place(p) > pass.offset => Place(p)' > pass'.offset
      BY <2>1, <3>2
    <3> QED
      BY <2>1, <3>1, <3>3 DEF Covered
  <2> QED
    BY <1>2, <2>1, <2>2
<1> QED
  BY <1>1, <1>2 DEF PassInv

(* Steps of the pass and of its attempt. *)
LEMMA PassMoves ==
  ASSUME IInv, pass.stage = "scan", pass'.stage = "scan", pass'.owed \subseteq pass.owed,
         pass'.since = pass.since, pass.failed => pass'.failed, UNCHANGED settled,
         \A p \in pass'.owed : Zapper[p] \in active' \/ Note[p] = tracked',
         ~pass'.failed =>
           \A p \in pass'.owed : Time[p] >= pass.since /\ Covered(p) => Covered(p)'
  PROVE  PassInv'
  BY DEF IInv, PassInv

(* Tracking follows the newest saved note; naming the tracked one again       *)
(* changes nothing.                                                           *)
LEMMA TrackKeeps ==
  ASSUME IInv, NEW n \in Notes, Track(n)
  PROVE  /\ saved' \subseteq Notes /\ tracked' \in Notes /\ TrackedInv'
         /\ n = tracked => tracked' = tracked
<1>1. saved' = saved \cup {n} /\ tracked' = Max(saved') /\ saved' \in SUBSET Notes
  BY DEF Track, IInv, TypeOK
<1>2. tracked' \in saved'
  BY <1>1, MaxIsMember
<1>3. n = tracked => saved' = saved
  BY <1>1 DEF IInv, TrackedInv
<1> QED
  BY <1>1, <1>2, <1>3 DEF IInv, TrackedInv
-----------------------------------------------------------------------------
(* One lemma per group of steps.                                             *)

LEMMA InitIInv == Init => IInv
<1> SUFFICES ASSUME Init PROVE IInv
  OBVIOUS
<1>1. job["pass"] = NoJob /\ pass = NoPass
  BY DEF Init, Actors
<1> QED
  BY <1>1 DEF Init, IInv, TypeOK, TrackedInv, PassInv, Noted, NoPass

(* The rest of the herd. *)
LEMMA HerdKeeps ==
  ASSUME IInv,
         \/ Reset
         \/ \E p \in Payments : Settle(p)
         \/ \E n \in Notes : Announce(n)
         \/ \E z \in Zappers : Displace(z)
         \/ UNCHANGED vars
  PROVE  IInv'
<1>0. /\ TypeOK /\ TrackedInv
      /\ pass.stage = "scan" =>
           /\ pass \in Scans
           /\ \A p \in pass.owed : p \in Payments /\ (Zapper[p] \in active \/ Note[p] = tracked)
  BY DEF IInv, PassInv, TypeOK, NoPass, Opened, Scans
<1>1. CASE Reset
  <2>1. /\ active' = {} /\ credited' = {} /\ tracked' = NoNote /\ Excuse(Payments)
        /\ UNCHANGED <<settled, queued, saved, job>>
    BY <1>1 DEF Reset, intakeVars
  <2>2. Lighter /\ (pass.stage = "scan" => pass'.owed = pass.owed \ Payments)
    BY <1>0, <2>1, ExcuseLightens
  <2>3. PassInv'
    BY <1>0, <2>1, <2>2, PassStands DEF TypeOK
  <2> QED
    BY <1>0, <2>1, <2>2, <2>3, LighterType DEF IInv, TypeOK, TrackedInv, Noted
<1>2. ASSUME NEW p \in Payments, Settle(p)
      PROVE  IInv'
  <2>1. /\ settled' = settled \cup {p} /\ queued' = queued \cup {p}
        /\ UNCHANGED <<credited, active, saved, tracked, job, pass>>
    BY <1>2 DEF Settle, noteVars
  <2>2. Lighter
    BY <1>0, <2>1, UnchangedLightens
  <2>3. PassInv'
    BY <1>0, <2>1, <2>2, PassStands DEF TypeOK
  <2> QED
    BY <1>0, <2>1, <2>3 DEF IInv, TypeOK, TrackedInv
<1>3. ASSUME NEW n \in Notes, Announce(n)
      PROVE  IInv'
  <2>1. /\ Track(n) /\ Excuse(IF tracked' = tracked THEN {} ELSE Newcomers(active))
        /\ UNCHANGED <<settled, queued, credited, active, job>>
    BY <1>3 DEF Announce, intakeVars
  <2>2. saved' \subseteq Notes /\ tracked' \in Notes /\ TrackedInv'
    BY <2>1, TrackKeeps
  <2>3. /\ Lighter
        /\ pass.stage = "scan" =>
             pass'.owed = pass.owed \ (IF tracked' = tracked THEN {} ELSE Newcomers(active))
    BY <1>0, <2>1, ExcuseLightens
  <2>4. PassInv'
    BY <1>0, <2>1, <2>3, PassStands DEF TypeOK, Newcomers
  <2> QED
    BY <1>0, <2>1, <2>2, <2>3, <2>4, LighterType DEF IInv, TypeOK, Noted
<1>4. ASSUME NEW z \in Zappers, Displace(z)
      PROVE  IInv'
  <2>1. /\ active' = active \ {z} /\ Excuse({p \in Payments : Zapper[p] = z})
        /\ UNCHANGED <<settled, queued, credited, saved, tracked, job>>
    BY <1>4 DEF Displace, intakeVars, noteVars
  <2>2. /\ Lighter
        /\ pass.stage = "scan" =>
             pass'.owed = pass.owed \ {p \in Payments : Zapper[p] = z}
    BY <1>0, <2>1, ExcuseLightens
  <2>3. PassInv'
    BY <1>0, <2>1, <2>2, PassStands DEF TypeOK
  <2> QED
    BY <1>0, <2>1, <2>2, <2>3, LighterType DEF IInv, TypeOK, TrackedInv
<1>5. CASE UNCHANGED vars
  <2>1. UNCHANGED <<settled, queued, credited, active, saved, tracked, job, pass>>
    BY <1>5 DEF vars
  <2>2. PassInv'
    BY <1>0, <2>1, UnchangedLightens, PassStands DEF TypeOK
  <2> QED
    BY <1>0, <2>1, <2>2 DEF IInv, TypeOK, TrackedInv
<1> QED
  BY <1>1, <1>2, <1>3, <1>4, <1>5

(* A pass begins, reads its pages and ends; the listener takes its payments. *)
LEMMA ChoiceKeeps ==
  ASSUME IInv,
         \/ Crash \/ OpenPass \/ StartScan \/ ReadPage \/ EndPass
         \/ \E p \in Payments : Listen(p) \/ TakeNext(p)
  PROVE  IInv'
<1>0. /\ TypeOK /\ TrackedInv /\ "pass" \in Actors /\ "listener" \in Actors
      /\ pass.stage = "scan" =>
           /\ pass \in Scans /\ pass.owed \subseteq settled
           /\ \A p \in pass.owed : p \in Payments /\ (Zapper[p] \in active \/ Note[p] = tracked)
  BY DEF IInv, PassInv, TypeOK, NoPass, Opened, Scans, Actors
<1>1. CASE Crash
  <2>1. /\ queued' = {} /\ job' = [a \in Actors |-> NoJob] /\ pass' = NoPass
        /\ UNCHANGED <<settled, credited, active, saved, tracked>>
    BY <1>1 DEF Crash, noteVars
  <2>2. PassInv'
    BY <1>0, <2>1 DEF PassInv, NoPass
  <2> QED
    BY <1>0, <2>1, <2>2 DEF IInv, TypeOK, TrackedInv
<1>2. CASE OpenPass
  <2>1. /\ pass = NoPass /\ pass' = [stage |-> "open", stamp |-> tracked]
        /\ UNCHANGED <<settled, queued, credited, active, saved, tracked, job>>
    BY <1>2 DEF OpenPass, intakeVars, noteVars
  <2>2. PassInv'
    BY <2>1 DEF IInv, PassInv, NoPass
  <2> QED
    BY <1>0, <2>1, <2>2 DEF IInv, TypeOK, TrackedInv, Opened
<1>3. CASE StartScan
  <2>0. PICK since, owed :
          /\ since = Since(pass.stamp)
          /\ owed = {p \in settled : Zapper[p] \in active \/ Note[p] = tracked}
    OBVIOUS
  <2>1. /\ pass' = [stage |-> "scan", stamp |-> pass.stamp, view |-> tracked,
                    since |-> since, offset |-> 0, page |-> {}, last |-> FALSE,
                    failed |-> FALSE, owed |-> owed]
        /\ UNCHANGED <<settled, queued, credited, active, saved, tracked, job>>
    BY <1>3, <2>0 DEF StartScan, intakeVars, noteVars
  <2>2. since \in Nat /\ owed \subseteq Payments
    BY <1>0, <2>0 DEF Since, Midnight, TypeOK, Noted, NoNote
  <2>3. pass.stamp \in Noted
    BY <1>0, <1>3 DEF StartScan, TypeOK, NoPass, Opened, Scans
  <2>4. pass' \in Scans
    BY <1>0, <2>1, <2>2, <2>3 DEF Scans, TypeOK
  <2>5. ASSUME NEW p \in owed, Time[p] >= since
        PROVE  Covered(p)'
    <3>1. Listing' \in SUBSET Payments /\ p \in Listing'
      BY <1>0, <2>0, <2>1, <2>5 DEF Listing, TypeOK
    <3>2. Rank(Listing', p) \in Nat \ {0}
      BY <3>1, RankType
    <3>3. Place(p)' = Rank(Listing', p)
      BY DEF Place, Rank, UpTo
    <3>4. Place(p)' > 0
      BY <3>2, <3>3
    <3> QED
      BY <2>1, <3>4 DEF Covered
  <2>6. PassInv'
    BY <2>0, <2>1, <2>5 DEF PassInv
  <2> QED
    BY <1>0, <2>1, <2>4, <2>6 DEF IInv, TypeOK, TrackedInv
<1>4. CASE ReadPage
  <2>1. /\ pass.stage = "scan" /\ pass.page = {} /\ ~pass.last /\ job["pass"] = NoJob
        /\ pass' = [pass EXCEPT !.page = Page, !.offset = @ + Cardinality(Page),
                                !.last = Cardinality(Page) < PageSize]
        /\ UNCHANGED <<settled, queued, credited, active, saved, tracked, job>>
    BY <1>4 DEF ReadPage, intakeVars, noteVars
  <2>2. Listing \in SUBSET Payments /\ pass.offset \in Nat /\ Page \subseteq Payments
    BY <1>0, <2>1 DEF Listing, Page, TypeOK, Scans
  <2>3. \A q : Place(q) = Rank(Listing, q)
    BY DEF Place, Rank, UpTo
  <2>4. Page = {q \in Listing : Rank(Listing, q) \in pass.offset + 1..pass.offset + PageSize}
    BY <2>3 DEF Page
  <2>5. /\ Cardinality(Page) \in Nat /\ Cardinality(Page) <= PageSize
        /\ \A p \in Listing : Rank(Listing, p) > pass.offset + PageSize =>
             Cardinality(Page) = PageSize
    BY <2>2, <2>4, PageFull
  <2>6. PICK n, page : n = Cardinality(Page) /\ page = Page
    OBVIOUS
  <2>7. /\ pass' \in Scans /\ pass'.owed = pass.owed /\ pass'.since = pass.since
        /\ pass'.failed = pass.failed /\ pass'.page = page /\ pass'.offset = pass.offset + n
        /\ pass'.last = (n < PageSize)
    <3>1. /\ pass \in Scans /\ n \in Nat /\ page \in SUBSET Payments
          /\ (n < PageSize) \in BOOLEAN
          /\ pass' = [pass EXCEPT !.page = page, !.offset = @ + n, !.last = n < PageSize]
      BY <1>0, <2>1, <2>2, <2>5, <2>6
    <3>2. pass.offset + n \in Nat
      BY <2>2, <3>1
    <3> QED
      BY <3>1, <3>2 DEF Scans
  <2>8. ASSUME NEW p \in pass.owed, Time[p] >= pass.since, Covered(p)
        PROVE  Covered(p)'
    <3>1. p \in Listing
      BY <1>0, <2>1, <2>8 DEF Listing
    <3>2. Place(p)' = Place(p) /\ Place(p) = Rank(Listing, p) /\ Place(p) \in Nat
      <4>1. Place(p) = Rank(Listing, p)
        BY <2>3
      <4>2. Place(p)' = Place(p)
        BY <2>1, <2>7 DEF Place, Listing
      <4>3. Rank(Listing, p) \in Nat
        BY <2>2, <3>1, RankType
      <4> QED
        BY <4>1, <4>2, <4>3
    <3>3. CASE p \in credited
      BY <2>1, <3>3 DEF Covered
    <3>4. CASE Place(p) > pass.offset + PageSize
      <4>1. n = PageSize
        BY <2>5, <2>6, <3>1, <3>2, <3>4
      <4>2. Place(p)' > pass'.offset
        BY <2>2, <2>7, <3>2, <3>4, <4>1
      <4>3. ~(n < PageSize) /\ pass'.last = (n < PageSize)
        BY <2>7, <4>1
      <4>4. ~pass'.last
        BY <4>3, Zenon
      <4> QED
        BY <4>2, <4>4 DEF Covered
    <3>5. CASE p \notin credited /\ Place(p) <= pass.offset + PageSize
      <4>1. Place(p) > pass.offset
        BY <2>1, <2>8, <3>5 DEF Covered
      <4>2. p \in Page
        BY <2>2, <3>1, <3>2, <3>5, <4>1 DEF Page
      <4> QED
        BY <2>6, <2>7, <4>2 DEF Covered
    <3> QED
      BY <2>2, <3>2, <3>3, <3>4, <3>5
  <2>9. PassInv'
    BY <1>0, <2>1, <2>7, <2>8, PassMoves DEF Scans
  <2> QED
    BY <1>0, <2>1, <2>7, <2>9 DEF IInv, TypeOK, TrackedInv
<1>5. CASE EndPass
  <2>1. /\ pass' = NoPass /\ job["pass"] = NoJob
        /\ UNCHANGED <<settled, queued, credited, active, saved, tracked, job>>
    BY <1>5 DEF EndPass, intakeVars, noteVars
  <2>2. PassInv'
    BY <2>1 DEF PassInv, NoPass
  <2> QED
    BY <1>0, <2>1, <2>2 DEF IInv, TypeOK, TrackedInv
<1>6. ASSUME NEW p \in Payments, Listen(p)
      PROVE  IInv'
  <2>1. /\ queued' = queued \ {p}
        /\ job' = [job EXCEPT !["listener"] =
                     [stage |-> "judge", payment |-> p, view |-> tracked, stamp |-> tracked]]
        /\ UNCHANGED <<settled, credited, active, saved, tracked, pass>>
    BY <1>6 DEF Listen, noteVars
  <2>2. job'["pass"] = job["pass"] /\ job' \in [Actors -> {NoJob} \cup Jobs]
    BY <1>0, <2>1 DEF TypeOK, Jobs
  <2>3. PassInv'
    BY <1>0, <2>1, <2>2, UnchangedLightens, PassStands DEF TypeOK
  <2> QED
    BY <1>0, <2>1, <2>2, <2>3 DEF IInv, TypeOK, TrackedInv
<1>7. ASSUME NEW p \in Payments, TakeNext(p)
      PROVE  IInv'
  <2>1. /\ pass.stage = "scan" /\ job["pass"] = NoJob
        /\ pass' = [pass EXCEPT !.page = @ \ {p}]
        /\ UNCHANGED <<settled, queued, credited, active, saved, tracked>>
    BY <1>7 DEF TakeNext, intakeVars, noteVars
  <2>2. /\ pass' \in Scans /\ pass'.owed = pass.owed /\ pass'.since = pass.since
        /\ pass'.failed = pass.failed /\ pass'.page = pass.page \ {p}
        /\ pass'.offset = pass.offset /\ pass'.last = pass.last
    BY <1>0, <2>1 DEF Scans
  <2>3. /\ job' \in [Actors -> {NoJob} \cup Jobs]
        /\ p \in credited \/ (job'["pass"] # NoJob /\ job'["pass"].payment = p)
    <3>1. CASE p \in credited
      BY <1>0, <1>7, <3>1 DEF TakeNext, Unrecorded, TypeOK
    <3>2. CASE p \notin credited
      <4>1. PICK new : /\ new = [stage |-> "judge", payment |-> p,
                                 view |-> pass.view, stamp |-> pass.stamp]
                       /\ job' = [job EXCEPT !["pass"] = new]
        BY <1>7, <3>2 DEF TakeNext, Unrecorded
      <4>2. new \in Jobs /\ new # NoJob /\ new.payment = p
        BY <1>0, <2>1, <4>1 DEF Jobs, Scans, NoJob
      <4> QED
        BY <1>0, <4>1, <4>2 DEF TypeOK
    <3> QED
      BY <3>1, <3>2
  <2>4. ASSUME NEW q \in pass.owed, Covered(q)
        PROVE  Covered(q)'
    <3>1. Place(q)' = Place(q)
      BY <2>1, <2>2 DEF Place, Listing
    <3> QED
      BY <2>1, <2>2, <2>3, <2>4, <3>1 DEF Covered
  <2>5. PassInv'
    BY <1>0, <2>1, <2>2, <2>4, PassMoves DEF Scans
  <2> QED
    BY <1>0, <2>1, <2>2, <2>3, <2>5 DEF IInv, TypeOK, TrackedInv
<1> QED
  BY <1>1, <1>2, <1>3, <1>4, <1>5, <1>6, <1>7
(* An attempt: the listener's touches the pass only through what it tracks,   *)
(* the pass's own ends undecided only for a payment that is not owed, or in a *)
(* failure.                                                                   *)
LEMMA AttemptKeeps ==
  ASSUME IInv, NEW a \in Actors,
         \/ AlreadyRecorded(a) \/ JudgeMember(a) \/ JudgeTracked(a) \/ Fail(a) \/ Credit(a)
  PROVE  IInv'
<1> DEFINE p == job[a].payment
<1>0. /\ TypeOK /\ TrackedInv /\ "pass" \in Actors
      /\ pass.stage = "scan" =>
           /\ pass \in Scans
           /\ \A q \in pass.owed : q \in Payments /\ (Zapper[q] \in active \/ Note[q] = tracked)
  BY DEF IInv, PassInv, TypeOK, NoPass, Opened, Scans, Actors
<1>1. /\ UNCHANGED <<settled, queued, saved, tracked>> /\ active \subseteq active'
      /\ credited \subseteq credited'
  BY DEF AlreadyRecorded, JudgeMember, JudgeTracked, Fail, Credit, intakeVars, noteVars
<1>2. /\ a = "pass" => pass.stage = "scan"
      /\ job[a] # NoJob
  BY DEF AlreadyRecorded, JudgeMember, JudgeTracked, Judging, Fail, Credit, NoJob, IInv, PassInv
<1>3. TypeOK'
  <2>1. active' \subseteq Zappers /\ credited' \subseteq Payments
    <3>1. CASE Credit(a)
      <4>1. p \in Payments /\ Zapper[p] \in Zappers
        BY <1>0, <3>1, JobType DEF Credit
      <4> QED
        BY <1>0, <3>1, <4>1 DEF Credit, TypeOK
    <3>2. CASE ~Credit(a)
      BY <1>0, <3>2 DEF AlreadyRecorded, JudgeMember, JudgeTracked, Fail, TypeOK
    <3> QED
      BY <3>1, <3>2
  <2>2. job' \in [Actors -> {NoJob} \cup Jobs]
    <3>1. CASE Over(a)
      BY <1>0, <3>1 DEF Over, TypeOK
    <3>2. CASE Admit(a) /\ job[a].stage = "judge"
      <4>1. job[a] \in Jobs
        BY <1>0, <3>2, JobType
      <4>2. [job[a] EXCEPT !.stage = "credit"] \in Jobs
        BY <4>1 DEF Jobs
      <4> QED
        BY <1>0, <3>2, <4>2 DEF Admit, TypeOK
    <3> QED
      BY <3>1, <3>2 DEF AlreadyRecorded, JudgeMember, JudgeTracked, Judging, Fail, Credit
  <2>3. pass' \in {NoPass} \cup Opened \cup Scans
    BY <1>0, <1>2
    DEF AlreadyRecorded, JudgeMember, JudgeTracked, Fail, Credit, TypeOK, Scans
  <2> QED
    BY <1>0, <1>1, <2>1, <2>2, <2>3 DEF TypeOK
<1>4. TrackedInv'
  BY <1>0, <1>1 DEF TrackedInv
<1>5. PassInv'
  <2>1. CASE a # "pass"
    <3>1. job'["pass"] = job["pass"] /\ pass' = pass
      BY <1>0, <2>1 DEF AlreadyRecorded, JudgeMember, JudgeTracked, Fail, Credit, Over, Admit,
                        TypeOK
    <3>2. Lighter
      BY <1>0, <3>1, UnchangedLightens
    <3> QED
      BY <1>0, <1>1, <3>1, <3>2, PassStands DEF TypeOK
  <2>2. CASE a = "pass" /\ Fail(a)
    <3>1. /\ pass'.stage = "scan" /\ pass'.owed = pass.owed /\ pass'.since = pass.since
          /\ pass'.failed
      BY <1>0, <1>2, <2>2 DEF Fail, Scans
    <3> QED
      BY <1>0, <1>1, <1>2, <2>2, <3>1, PassMoves
  <2>3. CASE a = "pass" /\ ~Fail(a)
    <3>1. pass' = pass
      BY <2>3 DEF AlreadyRecorded, JudgeMember, JudgeTracked, Credit
    <3>2. p \in credited' \/ (job'["pass"] # NoJob /\ job'["pass"].payment = p)
      <4>1. CASE AlreadyRecorded(a) \/ Credit(a)
        BY <4>1 DEF AlreadyRecorded, Credit
      <4>2. CASE JudgeMember(a) \/ JudgeTracked(a)
        <5>1. job[a] \in Jobs /\ Admit(a)
          BY <1>0, <4>2, JobType DEF JudgeMember, JudgeTracked, Judging
        <5>2. job'["pass"].stage = "credit" /\ job'["pass"].payment = p
          BY <1>0, <2>3, <5>1 DEF Admit, Jobs, TypeOK
        <5> QED
          BY <5>2 DEF NoJob
      <4> QED
        BY <2>3, <4>1, <4>2
    <3>3. ASSUME NEW q \in pass.owed, Covered(q)
          PROVE  Covered(q)'
      <4>1. Place(q)' = Place(q)
        BY <1>1, <3>1 DEF Place, Listing
      <4> QED
        BY <1>1, <2>3, <3>1, <3>2, <3>3, <4>1 DEF Covered
    <3> QED
      BY <1>0, <1>1, <1>2, <2>3, <3>1, <3>3, PassMoves
  <2> QED
    BY <2>1, <2>2, <2>3
<1> QED
  BY <1>3, <1>4, <1>5 DEF IInv

(* An attempt that asks the relays.  A payment that the pass owes is from a   *)
(* member, or has the tracked note: naming it again leaves it tracked.        *)
LEMMA FetchedKeeps ==
  ASSUME IInv, NEW a \in Actors, JudgeFetched(a)
  PROVE  IInv'
<1> DEFINE p == job[a].payment
           kept == IF tracked' = tracked THEN {} ELSE Newcomers(active)
<1>0. /\ TypeOK /\ TrackedInv /\ "pass" \in Actors
      /\ pass.stage = "scan" =>
           /\ pass \in Scans
           /\ \A q \in pass.owed : q \in Payments /\ (Zapper[q] \in active \/ Note[q] = tracked)
  BY DEF IInv, PassInv, TypeOK, NoPass, Opened, Scans, Actors
<1>1. /\ UNCHANGED <<settled, queued, credited, active>> /\ Track(Note[p])
      /\ job[a].stage = "judge" /\ Zapper[p] \notin active
  BY DEF JudgeFetched, Judging, FromMember, Target, intakeVars
<1>2. job[a] \in Jobs /\ job[a] # NoJob /\ p \in Payments /\ Note[p] \in Notes
  BY <1>0, <1>1, JobType
<1>3. /\ saved' \subseteq Notes /\ tracked' \in Notes /\ TrackedInv'
      /\ Note[p] = tracked => tracked' = tracked
  BY <1>1, <1>2, TrackKeeps
<1>4. a = "pass" => pass.stage = "scan"
  BY <1>2 DEF IInv, PassInv
<1>5. /\ Over(a) \/ Admit(a)
      /\ Over(a) => tracked' # Note[p]
      /\ \/ /\ pass' = [pass EXCEPT !.view = tracked', !.stamp = tracked', !.owed = @ \ kept]
            /\ a = "pass"
         \/ Excuse(kept)
  <2>1. CASE tracked' = Note[p]
    <3>1. Admit(a)
      BY <2>1 DEF JudgeFetched, Target
    <3>2. ~Over(a)
      <4>1. [job[a] EXCEPT !.stage = "credit"] # NoJob
        BY <1>2 DEF Jobs, NoJob
      <4> QED
        BY <1>0, <3>1, <4>1 DEF Over, Admit, TypeOK
    <3> QED
      BY <2>1, <3>1, <3>2 DEF JudgeFetched, Target
  <2>2. CASE tracked' # Note[p]
    BY <2>2 DEF JudgeFetched, Target
  <2> QED
    BY <2>1, <2>2
<1>6. /\ Lighter
      /\ pass.stage = "scan" => pass'.owed = pass.owed \ kept
  <2>1. CASE Excuse(kept)
    BY <1>0, <2>1, ExcuseLightens
  <2>2. CASE /\ pass' = [pass EXCEPT !.view = tracked', !.stamp = tracked', !.owed = @ \ kept]
             /\ a = "pass"
    <3>1. PICK less : less = pass.owed \ kept
      OBVIOUS
    <3>2. /\ pass' = [pass EXCEPT !.view = tracked', !.stamp = tracked', !.owed = less]
          /\ pass \in Scans /\ tracked' \in Noted /\ less \subseteq pass.owed
          /\ pass.stage = "scan"
      BY <1>0, <1>3, <1>4, <2>2, <3>1 DEF Noted
    <3>3. /\ pass' \in Scans /\ pass'.owed = less
          /\ pass'.since = pass.since /\ pass'.offset = pass.offset
          /\ pass'.page = pass.page /\ pass'.last = pass.last /\ pass'.failed = pass.failed
      BY <3>2 DEF Scans
    <3> QED
      BY <3>1, <3>2, <3>3 DEF Lighter
  <2> QED
    BY <1>5, <2>1, <2>2
<1>7. TypeOK'
  <2>1. job' \in [Actors -> {NoJob} \cup Jobs]
    <3>1. [job[a] EXCEPT !.stage = "credit"] \in Jobs
      BY <1>2 DEF Jobs
    <3> QED
      BY <1>0, <1>5, <3>1 DEF Over, Admit, TypeOK
  <2> QED
    BY <1>0, <1>1, <1>3, <1>6, <2>1, LighterType DEF TypeOK, Noted
<1>8. \A q \in pass'.owed : pass.stage = "scan" =>
        q \in pass.owed /\ (Zapper[q] \in active' \/ Note[q] = tracked')
  BY <1>0, <1>1, <1>6 DEF Newcomers
<1>9. PassInv'
  <2>1. CASE a # "pass"
    <3>1. job'["pass"] = job["pass"]
      BY <1>0, <1>5, <2>1 DEF Over, Admit, TypeOK
    <3> QED
      BY <1>0, <1>1, <1>6, <1>8, <3>1, PassStands DEF TypeOK
  <2>2. CASE a = "pass"
    <3>1. /\ pass.stage = "scan" /\ pass'.stage = "scan" /\ pass'.owed \subseteq pass.owed
          /\ pass'.since = pass.since /\ pass'.offset = pass.offset
          /\ pass'.page = pass.page /\ pass'.last = pass.last /\ pass'.failed = pass.failed
      BY <1>4, <1>6, <2>2 DEF Lighter, Scans
    <3>2. ASSUME NEW q \in pass'.owed, Covered(q)
          PROVE  Covered(q)'
      <4>1. Place(q)' = Place(q)
        BY <1>1, <3>1 DEF Place, Listing
      <4>2. ASSUME q = p
            PROVE  job'["pass"] # NoJob /\ job'["pass"].payment = p
        <5>1. Note[p] = tracked
          BY <1>0, <1>1, <3>1, <3>2, <4>2
        <5>2. Admit(a)
          BY <1>3, <1>5, <5>1
        <5>3. job'["pass"].stage = "credit" /\ job'["pass"].payment = p
          BY <1>0, <1>2, <2>2, <5>2 DEF Admit, Jobs, TypeOK
        <5> QED
          BY <5>3 DEF NoJob
      <4> QED
        BY <1>1, <2>2, <3>1, <3>2, <4>1, <4>2 DEF Covered
    <3> QED
      BY <1>1, <1>8, <3>1, <3>2, PassMoves
  <2> QED
    BY <2>1, <2>2
<1> QED
  BY <1>3, <1>7, <1>9 DEF IInv

LEMMA NextIInv == IInv /\ [Next]_vars => IInv'
  BY HerdKeeps, ChoiceKeeps, AttemptKeeps, FetchedKeeps DEF Next

-----------------------------------------------------------------------------
(* Every variable keeps its type, what is tracked is the newest saved note,   *)
(* and what a pass owes is recorded, under way, or on a page to come.         *)
THEOREM RecoveryInvariant == Spec => []IInv
  BY InitIInv, NextIInv, PTL DEF Spec

(* A pass in which nothing failed has, at its end, a record of every payment  *)
(* that it owed: however payments that settled meanwhile shifted the pages,   *)
(* and whatever the listener did with the same payment at the same time.      *)
THEOREM RecoveryPassComplete == Spec => PassComplete
<1>1. IInv /\ [Next]_vars =>
        [EndPass /\ ~pass.failed =>
           \A p \in pass.owed : Time[p] >= pass.since => p \in credited]_vars
  <2> SUFFICES ASSUME IInv, EndPass, ~pass.failed, NEW p \in pass.owed, Time[p] >= pass.since
               PROVE  p \in credited
    OBVIOUS
  <2>1. Covered(p) /\ pass.last /\ pass.page = {} /\ job["pass"] = NoJob
    BY DEF EndPass, IInv, PassInv
  <2> QED
    BY <2>1 DEF Covered
<1> QED
  BY <1>1, RecoveryInvariant, PTL DEF Spec, PassComplete
=============================================================================
