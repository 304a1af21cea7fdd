----------------------------- MODULE HerdProofs -----------------------------
(* What Herd guarantees for every set of people, payments and social events, *)
(* every setting and every mix of operator requests: its inductive invariant, *)
(* what a decision may do to others, what holds across days and cycles, and   *)
(* that the herd implements PaymentLedger.                                    *)
EXTENDS Herd, FiniteSetTheorems, TLAPS

(* A day number is a natural number. *)
LEMMA DayIsNat == \A t \in Nat : Day(t) \in Nat
  BY TimeAssumption DEF Day

LEMMA DayStartIsNat == \A d \in Nat : DayStart(d) \in Nat
  BY TimeAssumption DEF DayStart

(* Points are natural numbers: the arithmetic of member_point_units. *)
LEMMA PointsOfMember ==
  \A a \in Nat, m \in Nat, ks \in SUBSET Social :
     10 * a + Larger(1, m) * SocialPoints(ks) \in Nat
<1> SUFFICES ASSUME NEW a \in Nat, NEW m \in Nat, NEW ks \in SUBSET Social
             PROVE  10 * a + Larger(1, m) * SocialPoints(ks) \in Nat
  OBVIOUS
<1>1. SocialPoints(ks) \in {0, 1, 3, 4}
  BY DEF SocialPoints
<1>2. Larger(1, m) \in Nat
  BY DEF Larger
<1> QED
  BY <1>1, <1>2

LEMMA PointsTypeNext ==
  ASSUME amount' \in [People -> Nat], minimum' \in Nat, awards' \in [People -> SUBSET Social]
  PROVE  Points' \in [People -> Nat]
<1>1. \A p \in People : Points'[p] \in Nat
  BY PointsOfMember DEF Points
<1> QED
  BY <1>1 DEF Points

-----------------------------------------------------------------------------
(* The inductive invariant.  KindsAwarded strengthens BannedInactive's types: *)
(* an activation merges the row's stored kinds into the awards.               *)
SeatsInv == RowsOK /\ CycleOK /\ BannedInactive /\ KindsAwarded

Inv == SeatsInv /\ IntakeOK /\ WorldOK

LEMMA InitInv == Init => Inv
  BY SettingsAssumption, TimeAssumption
  DEF Init, Inv, SeatsInv, RowsOK, CycleOK, IntakeOK, WorldOK, BannedInactive, KindsAwarded,
      Never

(* Losing every seat, on a new day or by hand. *)
LEMMA ClearedKeeps ==
  ASSUME Inv, HerdCleared, cycleStart' \in Nat
  PROVE  SeatsInv'
  BY DayIsNat
  DEF Inv, SeatsInv, RowsOK, CycleOK, WorldOK, BannedInactive, KindsAwarded, HerdCleared, Today

LEMMA NewDayKeeps ==
  ASSUME Inv, NewDay
  PROVE  SeatsInv'
<1>1. cycleStart' \in Nat
  BY DayIsNat, DayStartIsNat DEF Inv, WorldOK, NewDay, Today
<1> QED
  BY <1>1, ClearedKeeps DEF NewDay

(* add_new_active_member and the victims it displaces. *)
LEMMA SeatKeeps ==
  ASSUME Inv, NEW p \in People, p \notin banned, NEW sats \in Nat, NEW ks \in SUBSET Social,
         NEW victims \in SUBSET active, Seat(p, sats, ks, victims),
         hasAddress' \subseteq rows \cup {p}
  PROVE  SeatsInv' /\ UNCHANGED settingVars
<1>1. /\ rows' \subseteq People /\ active' \subseteq rows' /\ banned' \subseteq rows'
      /\ hasAddress' \subseteq rows' /\ UNCHANGED settingVars
  BY DEF Inv, SeatsInv, RowsOK, Seat, settingVars
<1>2. amount' \in [People -> Nat]
  BY DEF Inv, SeatsInv, RowsOK, Seat
<1>3. /\ kinds' \in [People -> SUBSET Social]
      /\ awards' \in [People -> SUBSET Social]
  BY DEF Inv, SeatsInv, RowsOK, CycleOK, Seat, Promoted
<1>4. \A q \in People \ rows' : amount'[q] = 0 /\ kinds'[q] = {}
  BY DEF Inv, SeatsInv, RowsOK, Seat
<1>5. CycleOK'
  BY <1>1, <1>2, <1>3, PointsTypeNext
  DEF Inv, SeatsInv, CycleOK, WorldOK, Seat, settingVars
<1>6. BannedInactive'
  BY DEF Inv, SeatsInv, BannedInactive, Seat
<1>7. KindsAwarded'
  BY DEF Inv, SeatsInv, RowsOK, CycleOK, KindsAwarded, Seat, Promoted
<1> QED
  BY <1>1, <1>2, <1>3, <1>4, <1>5, <1>6, <1>7 DEF SeatsInv, RowsOK

(* update_and_activate_member. *)
LEMMA UpdateKeeps ==
  ASSUME Inv, NEW p \in rows \ banned, NEW sats \in Nat, NEW ks \in SUBSET Social,
         Update(p, sats, ks)
  PROVE  SeatsInv' /\ UNCHANGED settingVars
<1>0. p \in People
  BY DEF Inv, SeatsInv, RowsOK
<1>1. /\ amount' \in [People -> Nat] /\ kinds' \in [People -> SUBSET Social]
      /\ awards' \in [People -> SUBSET Social] /\ UNCHANGED settingVars
  BY <1>0 DEF Inv, SeatsInv, RowsOK, CycleOK, Update, Promoted, settingVars
<1>2. RowsOK'
  BY <1>0, <1>1 DEF Inv, SeatsInv, RowsOK, Update
<1>3. CycleOK'
  BY <1>1, PointsTypeNext DEF Inv, SeatsInv, CycleOK, WorldOK, Update, settingVars
<1>4. BannedInactive' /\ KindsAwarded'
  BY <1>0 DEF Inv, SeatsInv, RowsOK, CycleOK, BannedInactive, KindsAwarded, Update, Promoted
<1> QED
  BY <1>1, <1>2, <1>3, <1>4 DEF SeatsInv

-----------------------------------------------------------------------------
(* One lemma per group of Next's disjuncts; under it one step per action.     *)

LEMMA WorldKeeps ==
  ASSUME Inv, World
  PROVE  Inv'
<1>1. CASE Tick
  BY <1>1 DEF Inv, SeatsInv, RowsOK, CycleOK, IntakeOK, WorldOK, BannedInactive, KindsAwarded,
              Tick, memberVars, cycleVars, settingVars, volatileVars
<1>2. CASE Track
  BY <1>2, DayIsNat
  DEF Inv, SeatsInv, RowsOK, CycleOK, IntakeOK, WorldOK, BannedInactive, KindsAwarded,
      Track, Today, memberVars, settingVars, worldVars, volatileVars
<1>3. CASE \E e \in Events : Happen(e)
  BY <1>3 DEF Inv, SeatsInv, RowsOK, CycleOK, IntakeOK, WorldOK, BannedInactive, KindsAwarded,
              Happen, memberVars, cycleVars, settingVars, volatileVars
<1> QED
  BY <1>1, <1>2, <1>3 DEF World

(* A decided payment. *)
LEMMA DecideZapKeeps ==
  ASSUME Inv, NEW z \in Payments, DecideZap(z)
  PROVE  Inv'
<1> DEFINE p == Author[z]
<1>0. p \in People /\ Sats[z] \in Nat /\ z \in Events
  BY EventsAssumption DEF Events
<1>1. WorldOK' /\ waiting' = waiting /\ desk' = Idle /\ told' = told
  BY DEF Inv, WorldOK, DecideZap, LeaveDesk, settingVars, worldVars
<1>2. CASE DuplicateZap(z)
  BY <1>1, <1>2 DEF Inv, SeatsInv, RowsOK, CycleOK, IntakeOK, BannedInactive, KindsAwarded,
                    DuplicateZap, memberVars, cycleVars
<1>3. ASSUME NEW answer \in SUBSET {z}, Refuse(z, answer)
      PROVE  Inv'
  BY <1>0, <1>1, <1>3
  DEF Inv, SeatsInv, RowsOK, CycleOK, IntakeOK, BannedInactive, KindsAwarded,
      Refuse, memberVars, cycleVars
<1>4. CASE BannedZap(z)
  BY <1>3, <1>4 DEF BannedZap
<1>5. CASE SmallZap(z) \/ OutbidZap(z)
  BY <1>3, <1>5 DEF SmallZap, OutbidZap
<1>6. ASSUME Claim(z), SeatsInv'
      PROVE  Inv'
  BY <1>0, <1>1, <1>6 DEF Inv, IntakeOK, Claim
<1>7. CASE MemberZap(z)
  <2>1. p \in rows \ banned /\ amount[p] + Sats[z] \in Nat
    BY <1>0, <1>7 DEF MemberZap, Inv, SeatsInv, RowsOK
  <2>2. SeatsInv'
    BY <1>7, <2>1, UpdateKeeps DEF MemberZap
  <2> QED
    BY <1>6, <1>7, <2>2 DEF MemberZap
<1>8. ASSUME NEW victims \in SUBSET active, NewcomerZap(z), Claim(z),
             hasAddress' \in {hasAddress, hasAddress \cup {Author[z]}},
             Seat(Author[z], Sats[z], {}, victims)
      PROVE  Inv'
  <2>1. hasAddress' \subseteq rows \cup {p} /\ p \notin banned
    BY <1>8 DEF Inv, SeatsInv, RowsOK, NewcomerZap
  <2>2. SeatsInv'
    BY <1>0, <1>8, <2>1, SeatKeeps
  <2> QED
    BY <1>6, <1>8, <2>2
<1>9. CASE FreeSeatZap(z)
  BY <1>8, <1>9 DEF FreeSeatZap
<1>10. CASE HeadbuttZap(z)
  <2>1. PICK v \in active : /\ Claim(z)
                            /\ hasAddress' \in {hasAddress, hasAddress \cup {Author[z]}}
                            /\ Seat(Author[z], Sats[z], {}, {v})
    BY <1>10 DEF HeadbuttZap
  <2>2. NewcomerZap(z)
    BY <1>10 DEF HeadbuttZap
  <2> QED
    BY <1>8, <2>1, <2>2
<1> QED
  BY <1>2, <1>4, <1>5, <1>7, <1>9, <1>10 DEF DecideZap

(* A decided social event. *)
LEMMA DecideSocialKeeps ==
  ASSUME Inv, NEW e \in Socials, DecideSocial(e)
  PROVE  Inv'
<1> DEFINE p == Author[e]
<1>0. p \in People /\ Kind[e] \in Social /\ e \in Events
  BY EventsAssumption DEF Events
<1>1. WorldOK' /\ waiting' = waiting /\ desk' = Idle /\ told' = told
  BY DEF Inv, WorldOK, DecideSocial, LeaveDesk, settingVars, worldVars
<1>2. CASE EarnedSocial(e)
  BY <1>0, <1>1, <1>2
  DEF Inv, SeatsInv, RowsOK, CycleOK, IntakeOK, BannedInactive, KindsAwarded,
      EarnedSocial, memberVars, cycleVars
<1>3. CASE FailedSocial(e)
  BY <1>0, <1>1, <1>3
  DEF Inv, SeatsInv, RowsOK, CycleOK, IntakeOK, BannedInactive, KindsAwarded,
      FailedSocial, memberVars, cycleVars
<1>4. ASSUME Record(e), SeatsInv'
      PROVE  Inv'
  BY <1>0, <1>1, <1>4 DEF Inv, IntakeOK, Record
<1>5. CASE MemberSocial(e)
  <2>1. p \in rows \ banned /\ amount[p] \in Nat /\ {Kind[e]} \in SUBSET Social
    BY <1>0, <1>5 DEF MemberSocial, FreshSocial, Inv, SeatsInv, RowsOK
  <2>2. SeatsInv'
    BY <1>5, <2>1, UpdateKeeps DEF MemberSocial
  <2> QED
    BY <1>4, <1>5, <2>2 DEF MemberSocial
<1>6. ASSUME NEW victims \in SUBSET active, NewcomerSocial(e), SeatSocial(e, victims)
      PROVE  Inv'
  <2>1. hasAddress' \subseteq rows \cup {p} /\ p \notin banned
    BY <1>6 DEF Inv, SeatsInv, RowsOK, SeatSocial, NewcomerSocial, FreshSocial
  <2>2. {Kind[e]} \in SUBSET Social /\ 0 \in Nat
    BY <1>0
  <2>3. SeatsInv'
    BY <1>0, <1>6, <2>1, <2>2, SeatKeeps DEF SeatSocial
  <2> QED
    BY <1>4, <1>6, <2>3 DEF SeatSocial
<1>7. CASE FreeSeatSocial(e)
  BY <1>6, <1>7 DEF FreeSeatSocial
<1>8. CASE HeadbuttSocial(e)
  BY <1>6, <1>8 DEF HeadbuttSocial
<1> QED
  BY <1>2, <1>3, <1>5, <1>7, <1>8 DEF DecideSocial

(* The rest of the intake: the way to the lock and the notices. *)
LEMMA IntakeKeeps ==
  ASSUME Inv, Intake
  PROVE  Inv'
<1> USE DEF Inv
<1>1. ASSUME NEW z \in Payments, Present(z)
      PROVE  Inv'
  BY <1>1
  DEF SeatsInv, RowsOK, CycleOK, IntakeOK, WorldOK, BannedInactive, KindsAwarded, Events,
      Present, memberVars, cycleVars, settingVars, worldVars
<1>2. ASSUME NEW e \in Socials, Observe(e)
      PROVE  Inv'
  <2> DEFINE p == Author[e]
  <2>0. p \in People /\ Kind[e] \in Social /\ e \in Events
    BY EventsAssumption DEF Events
  <2>1. IntakeOK' /\ WorldOK'
    BY <1>2, <2>0 DEF IntakeOK, WorldOK, Observe, settingVars, worldVars
  <2>2. /\ observed' \in [People -> SUBSET Social]
        /\ UNCHANGED <<rows, active, banned, hasAddress, amount, minimum, tracked,
                       markedDay, cycleStart>>
    BY <1>2, <2>0 DEF SeatsInv, CycleOK, Observe, settingVars
  <2>3. CASE UNCHANGED <<awards, kinds, payouts>>
    BY <2>1, <2>2, <2>3 DEF SeatsInv, RowsOK, CycleOK, BannedInactive, KindsAwarded
  <2>4. CASE p \in active /\ PromoteMember(p, observed'[p])
    <3>1. kinds' \in [People -> SUBSET Social] /\ awards' \in [People -> SUBSET Social]
      BY <2>0, <2>2, <2>4 DEF SeatsInv, RowsOK, CycleOK, PromoteMember
    <3>2. RowsOK' /\ BannedInactive'
      BY <2>0, <2>2, <2>4, <3>1 DEF SeatsInv, RowsOK, BannedInactive, PromoteMember
    <3>3. CycleOK'
      BY <2>2, <2>4, <3>1, PointsTypeNext
      DEF SeatsInv, RowsOK, CycleOK, WorldOK, PromoteMember
    <3>4. KindsAwarded'
      BY <2>0, <2>2, <2>4 DEF SeatsInv, RowsOK, CycleOK, KindsAwarded, PromoteMember
    <3> QED
      BY <2>1, <3>2, <3>3, <3>4 DEF SeatsInv
  <2> QED
    BY <1>2, <2>3, <2>4 DEF Observe
<1>3. ASSUME NEW e \in Events, Enter(e)
      PROVE  Inv'
  <2>1. IntakeOK' /\ WorldOK'
    BY <1>3 DEF IntakeOK, WorldOK, Enter, settingVars, worldVars
  <2>2. CASE NewDay
    BY <2>1, <2>2, NewDayKeeps
  <2>3. CASE UNCHANGED <<memberVars, cycleVars>>
    BY <2>1, <2>3
    DEF SeatsInv, RowsOK, CycleOK, BannedInactive, KindsAwarded, memberVars, cycleVars
  <2> QED
    BY <1>3, <2>2, <2>3 DEF Enter, DayEnsured
<1>4. ASSUME NEW e \in Events, AnswerFailure(e) \/ NoticeFails(e)
      PROVE  Inv'
  BY <1>4, EventsAssumption
  DEF SeatsInv, RowsOK, CycleOK, IntakeOK, WorldOK, BannedInactive, KindsAwarded, Events,
      AnswerFailure, NoticeFails, memberVars, cycleVars, settingVars, worldVars
<1>5. CASE GiveUp
  BY <1>5
  DEF SeatsInv, RowsOK, CycleOK, IntakeOK, WorldOK, BannedInactive, KindsAwarded,
      GiveUp, LeaveDesk, memberVars, cycleVars, settingVars, worldVars
<1> QED
  BY <1>1, <1>2, <1>3, <1>4, <1>5, DecideZapKeeps, DecideSocialKeeps DEF Intake

LEMMA ResetsKeep ==
  ASSUME Inv, Resets
  PROVE  Inv'
<1> USE DEF Inv
<1>1. CASE MidnightJob
  <2>1. IntakeOK' /\ WorldOK'
    BY <1>1 DEF IntakeOK, WorldOK, MidnightJob, settingVars, worldVars, volatileVars
  <2> QED
    BY <1>1, <2>1, NewDayKeeps DEF MidnightJob
<1>2. CASE ManualReset
  <2>1. IntakeOK' /\ WorldOK'
    BY <1>2 DEF IntakeOK, WorldOK, ManualReset, settingVars, worldVars, volatileVars
  <2>2. cycleStart' \in Nat
    BY <1>2 DEF WorldOK, ManualReset
  <2> QED
    BY <1>2, <2>1, <2>2, ClearedKeeps DEF ManualReset
<1>3. CASE Restart
  <2>1. IntakeOK' /\ WorldOK'
    BY <1>3 DEF IntakeOK, WorldOK, Restart, settingVars, worldVars
  <2>2. CASE NewDay
    BY <2>1, <2>2, NewDayKeeps
  <2>3. CASE UNCHANGED <<rows, active, banned, hasAddress, amount, kinds, cycleVars>>
    <3>1. payouts' \in [People -> Nat]
      BY <1>3, <2>3, PointsTypeNext
      DEF Restart, SeatsInv, RowsOK, CycleOK, WorldOK, cycleVars, settingVars
    <3> QED
      BY <2>1, <2>3, <3>1
      DEF SeatsInv, RowsOK, CycleOK, BannedInactive, KindsAwarded, cycleVars
  <2> QED
    BY <1>3, <2>2, <2>3 DEF Restart
<1> QED
  BY <1>1, <1>2, <1>3 DEF Resets

LEMMA OperatorKeeps ==
  ASSUME Inv, Operator
  PROVE  Inv'
<1> USE DEF Inv
<1>1. ASSUME OperatorWrites, UNCHANGED settingVars
      PROVE  IntakeOK' /\ WorldOK'
  BY <1>1 DEF IntakeOK, WorldOK, OperatorWrites, settingVars, worldVars, volatileVars
<1>2. ASSUME UNCHANGED <<cycleVars, settingVars>>, RowsOK', payouts' = Points'
      PROVE  CycleOK'
  BY <1>2, PointsTypeNext DEF SeatsInv, RowsOK, CycleOK, WorldOK, cycleVars, settingVars
<1>3. ASSUME NEW p \in People, Ban(p) \/ Unban(p)
      PROVE  Inv'
  <2>1. RowsOK' /\ BannedInactive' /\ KindsAwarded'
    BY <1>3 DEF SeatsInv, RowsOK, BannedInactive, KindsAwarded, Ban, Unban, cycleVars
  <2> QED
    BY <1>1, <1>2, <1>3, <2>1 DEF SeatsInv, Ban, Unban
<1>4. ASSUME NEW p \in People, Deactivate(p)
      PROVE  Inv'
  <2>1. RowsOK' /\ BannedInactive' /\ KindsAwarded'
    BY <1>4 DEF SeatsInv, RowsOK, CycleOK, BannedInactive, KindsAwarded, Deactivate, cycleVars
  <2> QED
    BY <1>1, <1>2, <1>4, <2>1 DEF SeatsInv, Deactivate
<1>5. ASSUME NEW p \in People, NEW sats \in OperatorAmounts, PutAmount(p, sats)
      PROVE  Inv'
  <2>1. sats \in Nat /\ {} \in SUBSET Social
    BY SettingsAssumption
  <2>2. SeatsInv' /\ UNCHANGED settingVars
    BY <1>5, <2>1, UpdateKeeps DEF PutAmount
  <2> QED
    BY <1>1, <1>5, <2>2 DEF PutAmount
<1>6. ASSUME NEW p \in People, NEW sats \in OperatorAmounts, PostMember(p, sats)
      PROVE  Inv'
  <2>1. sats \in Nat /\ {} \in SUBSET Social /\ {} \in SUBSET active
    BY SettingsAssumption
  <2>2. hasAddress' \subseteq rows \cup {p}
    BY <1>6 DEF PostMember, SeatsInv, RowsOK
  <2>3. SeatsInv' /\ UNCHANGED settingVars
    BY <1>6, <2>1, <2>2, SeatKeeps DEF PostMember
  <2> QED
    BY <1>1, <1>6, <2>3 DEF PostMember
<1>7. ASSUME NEW S \in SUBSET rows, DeleteRows(S)
      PROVE  Inv'
  <2>1. amount' \in [People -> Nat] /\ kinds' \in [People -> SUBSET Social]
    BY <1>7 DEF SeatsInv, RowsOK, DeleteRows
  <2>2. RowsOK' /\ BannedInactive' /\ KindsAwarded'
    BY <1>7, <2>1 DEF SeatsInv, RowsOK, BannedInactive, KindsAwarded, DeleteRows, cycleVars
  <2> QED
    BY <1>1, <1>2, <1>7, <2>2 DEF SeatsInv, DeleteRows
<1>8. ASSUME NEW p \in People, Delete(p)
      PROVE  Inv'
  BY <1>7, <1>8 DEF Delete
<1>9. CASE PruneWithoutAddress
  BY <1>7, <1>9 DEF PruneWithoutAddress
<1>10. ASSUME NEW m \in Minimums, NEW c \in Capacities, ChangeSettings(m, c)
       PROVE  Inv'
  <2>1. IntakeOK' /\ WorldOK'
    BY <1>10, SettingsAssumption
    DEF IntakeOK, WorldOK, ChangeSettings, OperatorWrites, worldVars, volatileVars
  <2>2. RowsOK' /\ BannedInactive' /\ KindsAwarded'
    BY <1>10 DEF SeatsInv, RowsOK, BannedInactive, KindsAwarded, ChangeSettings, cycleVars
  <2>3. CycleOK'
    BY <1>10, <2>1, <2>2, PointsTypeNext
    DEF SeatsInv, RowsOK, CycleOK, WorldOK, ChangeSettings, cycleVars
  <2> QED
    BY <2>1, <2>2, <2>3 DEF SeatsInv
<1>11. ASSUME NEW p \in People, RefreshProfile(p)
       PROVE  Inv'
  <2>1. RowsOK' /\ CycleOK' /\ BannedInactive' /\ KindsAwarded'
    BY <1>11
    DEF SeatsInv, RowsOK, CycleOK, BannedInactive, KindsAwarded, RefreshProfile, cycleVars
  <2> QED
    BY <1>1, <1>11, <2>1 DEF SeatsInv, RefreshProfile
<1>12. ASSUME NEW p \in People, Activate(p)
       PROVE  Inv'
  <2>1. amount[p] \in Nat /\ {} \in SUBSET Social
    BY DEF SeatsInv, RowsOK
  <2>2. SeatsInv' /\ UNCHANGED settingVars
    BY <1>12, <2>1, UpdateKeeps DEF Activate
  <2> QED
    BY <1>1, <1>12, <2>2 DEF Activate
<1> QED
  BY <1>3, <1>4, <1>5, <1>6, <1>8, <1>9, <1>10, <1>11, <1>12 DEF Operator

LEMMA NextKeeps == Inv /\ [Next]_vars => Inv'
<1> SUFFICES ASSUME Inv, [Next]_vars
             PROVE  Inv'
  OBVIOUS
<1>1. CASE Next
  BY <1>1, WorldKeeps, IntakeKeeps, ResetsKeep, OperatorKeeps DEF Next
<1>2. CASE UNCHANGED vars
  BY <1>2 DEF Inv, SeatsInv, RowsOK, CycleOK, IntakeOK, WorldOK, BannedInactive, KindsAwarded,
              vars
<1> QED
  BY <1>1, <1>2

(* The invariant holds throughout, whatever the constants. *)
THEOREM Invariant == Spec => []Inv
  BY InitInv, NextKeeps, PTL DEF Spec

(* Every variable keeps its type, and only a row holds anything: no action    *)
(* activates, credits or bans a person the cyber_herd table does not hold.    *)
THEOREM TypeCorrect == Spec => []TypeOK
<1>1. Inv => TypeOK
  BY DEF Inv, SeatsInv, TypeOK
<1> QED
  BY <1>1, Invariant, PTL

(* No interleaving of bans, pending admissions and operator activations seats *)
(* a banned member.                                                           *)
THEOREM BannedNeverSeated == Spec => []BannedInactive
<1>1. Inv => BannedInactive
  BY DEF Inv, SeatsInv
<1> QED
  BY <1>1, Invariant, PTL

(* What a row shows as earned is always in the cycle's awards, so the award   *)
(* check of an admission subsumes the check on the row.                       *)
THEOREM KindsAlwaysAwarded == Spec => []KindsAwarded
<1>1. Inv => KindsAwarded
  BY DEF Inv, SeatsInv
<1> QED
  BY <1>1, Invariant, PTL

-----------------------------------------------------------------------------
(* What a decision at the desk may do to the others: whom it displaces, and  *)
(* how large the herd is after it.                                           *)

(* Leaving the desk is a decision, giving up or a crash: nothing else frees  *)
(* it, and neither of the last two displaces anyone within a day.            *)
LEMMA WaysOffTheDesk ==
  ASSUME Inv, Next, NEW e \in Events, Decided(e)
  PROVE  \/ e \in Payments /\ DecideZap(e)
         \/ e \in Socials /\ DecideSocial(e)
         \/ active' = active
         \/ active' = {} /\ markedDay' # markedDay
<1>0. desk = e /\ desk' = Idle /\ desk # Idle /\ desk' # desk
  BY EventsAssumption DEF Decided
<1>1. ~World
  BY <1>0 DEF World, Tick, Happen, Track, volatileVars
<1>2. ~Operator
  BY <1>0
  DEF Operator, Ban, Unban, Deactivate, Activate, Delete, RefreshProfile, PutAmount, PostMember,
      PruneWithoutAddress, DeleteRows, ChangeSettings, OperatorWrites, volatileVars
<1>3. CASE Intake
  <2>1. CASE GiveUp
    BY <2>1 DEF GiveUp, memberVars
  <2>2. ASSUME NEW z \in Payments, Present(z) \/ DecideZap(z)
        PROVE  z = e /\ e \in Payments /\ DecideZap(e)
    BY <1>0, <2>2 DEF Present, DecideZap
  <2>3. ASSUME NEW s \in Socials, Observe(s) \/ DecideSocial(s)
        PROVE  s = e /\ e \in Socials /\ DecideSocial(e)
    BY <1>0, <2>3 DEF Observe, DecideSocial
  <2>4. ASSUME NEW s \in Events, Enter(s) \/ AnswerFailure(s) \/ NoticeFails(s)
        PROVE  FALSE
    BY <1>0, <2>4 DEF Enter, AnswerFailure, NoticeFails
  <2> QED
    BY <1>3, <2>1, <2>2, <2>3, <2>4 DEF Intake
<1>4. CASE Resets
  <2>1. Restart
    BY <1>0, <1>4 DEF Resets, MidnightJob, ManualReset
  <2>2. CASE DayDue
    <3>1. active' = {} /\ markedDay' = Today
      BY <2>1, <2>2 DEF Restart, NewDay, HerdCleared
    <3>2. markedDay \in Nat /\ Today \in Nat /\ markedDay < Today
      BY <2>2, DayIsNat DEF DayDue, Today, Inv, SeatsInv, CycleOK, WorldOK
    <3> QED
      BY <3>1, <3>2
  <2>3. CASE ~DayDue
    BY <2>1, <2>3 DEF Restart
  <2> QED
    BY <2>2, <2>3
<1> QED
  BY <1>1, <1>2, <1>3, <1>4 DEF Next

(* The seats after a decided payment: nobody moves, the payer takes a free    *)
(* seat, or the payer takes the seat of the lowest, whom the zap outbids.     *)
LEMMA SeatsAfterZap ==
  ASSUME Inv, NEW z \in Payments, DecideZap(z)
  PROVE  \/ active' = active
         \/ ~Full /\ active' = active \cup {Author[z]}
         \/ \E v \in active :
              /\ Author[z] \notin active /\ active' = (active \cup {Author[z]}) \ {v}
              /\ IsLowest(v) /\ Sats[z] > amount[v] /\ Sats[z] >= minimum
<1>0. /\ active \subseteq People /\ amount \in [People -> Nat] /\ minimum \in Nat
      /\ Sats[z] \in Nat \ {0} /\ Author[z] \in People
  BY EventsAssumption DEF Events, Inv, SeatsInv, RowsOK, WorldOK
<1>1. CASE DuplicateZap(z) \/ BannedZap(z) \/ SmallZap(z) \/ OutbidZap(z)
  BY <1>1 DEF DuplicateZap, BannedZap, SmallZap, OutbidZap, Refuse, memberVars
<1>2. CASE MemberZap(z)
  BY <1>2 DEF MemberZap, Update
<1>3. CASE FreeSeatZap(z)
  BY <1>3 DEF FreeSeatZap, Seat
<1>4. CASE HeadbuttZap(z)
  <2>1. PICK v \in active : /\ IsLowest(v)
                            /\ amount[v] # 0 => Sats[z] >= Required(v)
                            /\ Seat(Author[z], Sats[z], {}, {v})
    BY <1>4 DEF HeadbuttZap
  <2>2. /\ Author[z] \notin active /\ Sats[z] >= minimum
        /\ active' = (active \cup {Author[z]}) \ {v}
    BY <1>4, <2>1 DEF HeadbuttZap, NewcomerZap, Seat
  <2>3. Sats[z] > amount[v]
    BY <1>0, <2>1 DEF Required, Larger
  <2> QED
    BY <2>1, <2>2, <2>3
<1> QED
  BY <1>1, <1>2, <1>3, <1>4 DEF DecideZap

(* The same for a social event: only a repost displaces, and only a member    *)
(* who never zapped.                                                          *)
LEMMA SeatsAfterSocial ==
  ASSUME Inv, NEW e \in Socials, DecideSocial(e)
  PROVE  \/ active' = active
         \/ ~Full /\ active' = active \cup {Author[e]}
         \/ \E v \in active :
              /\ Author[e] \notin active /\ active' = (active \cup {Author[e]}) \ {v}
              /\ IsLowest(v) /\ amount[v] = 0 /\ Kind[e] = 6
<1>1. CASE EarnedSocial(e) \/ FailedSocial(e)
  BY <1>1 DEF EarnedSocial, FailedSocial, memberVars
<1>2. CASE MemberSocial(e)
  BY <1>2 DEF MemberSocial, Update
<1>3. CASE FreeSeatSocial(e)
  BY <1>3 DEF FreeSeatSocial, SeatSocial, Seat
<1>4. CASE HeadbuttSocial(e)
  BY <1>4 DEF HeadbuttSocial, NewcomerSocial, SeatSocial, Seat
<1> QED
  BY <1>1, <1>2, <1>3, <1>4 DEF DecideSocial

(* Every decision, of either kind of event, displaces only the lowest member  *)
(* of the herd and only one the event outbids.                                *)
THEOREM DisplacementIsFair == Spec => NoUnfairDisplacement
<1> DEFINE Fair == \A e \in Events : \A v \in active \ active' :
       Decided(e) /\ cycleStart' = cycleStart /\ markedDay' = markedDay =>
         /\ IsLowest(v) /\ Author[e] \in active'
         /\ IF e \in Payments THEN Sats[e] > amount[v] /\ Sats[e] >= minimum
            ELSE amount[v] = 0 /\ Kind[e] = 6
<1>1. Inv /\ [Next]_vars => [Fair]_vars
  <2> SUFFICES ASSUME Inv, Next, NEW e \in Events, NEW v \in active \ active', Decided(e),
                      markedDay' = markedDay
               PROVE  /\ IsLowest(v) /\ Author[e] \in active'
                      /\ IF e \in Payments THEN Sats[e] > amount[v] /\ Sats[e] >= minimum
                         ELSE amount[v] = 0 /\ Kind[e] = 6
    OBVIOUS
  <2>1. CASE e \in Payments /\ DecideZap(e)
    BY <2>1, SeatsAfterZap
  <2>2. CASE e \in Socials /\ DecideSocial(e)
    <3>1. e \notin Payments
      BY <2>2, EventsAssumption
    <3> QED
      BY <2>2, <3>1, SeatsAfterSocial
  <2> QED
    BY <2>1, <2>2, WaysOffTheDesk
<1> QED
  BY <1>1, Invariant, PTL DEF Spec, NoUnfairDisplacement

(* A seat taken from another member keeps the size of the herd. *)
LEMMA ExchangeKeepsSize ==
  ASSUME NEW S, IsFiniteSet(S), NEW p, p \notin S, NEW v \in S
  PROVE  Cardinality((S \cup {p}) \ {v}) = Cardinality(S)
<1>1. IsFiniteSet(S \cup {p}) /\ Cardinality(S \cup {p}) = Cardinality(S) + 1
  BY FS_AddElement
<1>2. Cardinality((S \cup {p}) \ {v}) = Cardinality(S \cup {p}) - 1
  BY <1>1, FS_RemoveElement
<1>3. Cardinality(S) \in Nat
  BY FS_CardinalityType
<1> QED
  BY <1>1, <1>2, <1>3

(* However the herd got its size, a decision leaves at most the capacity, or  *)
(* as many members as it found.                                               *)
THEOREM CapacityRespected == Spec => AdmissionRespectsCapacity
<1> DEFINE Within == \A e \in Events : Decided(e) =>
                       Cardinality(active') <= Larger(capacity, Cardinality(active))
<1>1. Inv /\ [Next]_vars => [Within]_vars
  <2> SUFFICES ASSUME Inv, Next, NEW e \in Events, Decided(e)
               PROVE  Cardinality(active') <= Larger(capacity, Cardinality(active))
    OBVIOUS
  <2>0. active \subseteq People /\ rows \subseteq People /\ capacity \in Nat
    BY DEF Inv, SeatsInv, RowsOK, WorldOK
  <2>1. IsFiniteSet(active) /\ Cardinality(active) \in Nat
    BY <2>0, PeopleAssumption, FS_Subset, FS_CardinalityType
  <2>2. CASE active' = active
    BY <2>0, <2>1, <2>2 DEF Larger
  <2>3. CASE active' = {}
    BY <2>0, <2>1, <2>3, FS_EmptySet DEF Larger
  <2>4. CASE ~Full /\ active' = active \cup {Author[e]}
    <3>1. Cardinality(active') \in {Cardinality(active), Cardinality(active) + 1}
      BY <2>1, <2>4, FS_AddElement
    <3>2. Cardinality(active) < capacity
      BY <2>0, <2>1, <2>4 DEF Full
    <3> QED
      BY <2>0, <2>1, <3>1, <3>2 DEF Larger
  <2>5. ASSUME NEW v \in active, Author[e] \notin active,
               active' = (active \cup {Author[e]}) \ {v}
        PROVE  Cardinality(active') <= Larger(capacity, Cardinality(active))
    <3>1. Cardinality(active') = Cardinality(active)
      BY <2>1, <2>5, ExchangeKeepsSize
    <3> QED
      BY <2>0, <2>1, <3>1 DEF Larger
  <2> QED
    BY <2>2, <2>3, <2>4, <2>5, WaysOffTheDesk, SeatsAfterZap, SeatsAfterSocial
<1> QED
  BY <1>1, Invariant, PTL DEF Spec, AdmissionRespectsCapacity

-----------------------------------------------------------------------------
(* The awards.                                                               *)

\* Nobody loses an award.
AwardsKept == \A p \in People : awards[p] \subseteq awards'[p]

LEMMA SeatKeepsAwards ==
  ASSUME Inv, NEW p \in People, NEW sats, NEW ks, NEW victims, Seat(p, sats, ks, victims)
  PROVE  AwardsKept
  BY DEF Inv, SeatsInv, CycleOK, AwardsKept, Seat

LEMMA UpdateKeepsAwards ==
  ASSUME Inv, NEW p \in People, NEW sats, NEW ks, Update(p, sats, ks)
  PROVE  AwardsKept
  BY DEF Inv, SeatsInv, CycleOK, AwardsKept, Update

LEMMA DecisionKeepsAwards ==
  ASSUME Inv,
         \/ \E z \in Payments : DecideZap(z)
         \/ \E e \in Socials : DecideSocial(e)
  PROVE  AwardsKept
<1>1. ASSUME NEW z \in Payments, DecideZap(z)
      PROVE  AwardsKept
  <2>0. Author[z] \in People
    BY EventsAssumption DEF Events
  <2>1. CASE DuplicateZap(z) \/ BannedZap(z) \/ SmallZap(z) \/ OutbidZap(z)
    BY <2>1 DEF DuplicateZap, BannedZap, SmallZap, OutbidZap, Refuse, cycleVars, AwardsKept
  <2>2. CASE MemberZap(z)
    BY <2>0, <2>2, UpdateKeepsAwards DEF MemberZap
  <2>3. CASE FreeSeatZap(z)
    BY <2>0, <2>3, SeatKeepsAwards DEF FreeSeatZap
  <2>4. CASE HeadbuttZap(z)
    BY <2>0, <2>4, SeatKeepsAwards DEF HeadbuttZap
  <2> QED
    BY <1>1, <2>1, <2>2, <2>3, <2>4 DEF DecideZap
<1>2. ASSUME NEW e \in Socials, DecideSocial(e)
      PROVE  AwardsKept
  <2>0. Author[e] \in People
    BY EventsAssumption DEF Events
  <2>1. CASE EarnedSocial(e) \/ FailedSocial(e)
    BY <2>1 DEF EarnedSocial, FailedSocial, cycleVars, AwardsKept
  <2>2. CASE MemberSocial(e)
    BY <2>0, <2>2, UpdateKeepsAwards DEF MemberSocial
  <2>3. CASE FreeSeatSocial(e)
    BY <2>0, <2>3, SeatKeepsAwards DEF FreeSeatSocial, SeatSocial
  <2>4. CASE HeadbuttSocial(e)
    BY <2>0, <2>4, SeatKeepsAwards DEF HeadbuttSocial, SeatSocial
  <2> QED
    BY <1>2, <2>1, <2>2, <2>3, <2>4 DEF DecideSocial
<1> QED
  BY <1>1, <1>2

LEMMA IntakeAwards ==
  ASSUME Inv, Intake
  PROVE  AwardsKept \/ HerdCleared
<1>1. ASSUME NEW e \in Events, Enter(e)
      PROVE  AwardsKept \/ HerdCleared
  BY <1>1 DEF Enter, DayEnsured, NewDay, cycleVars, AwardsKept
<1>2. ASSUME NEW e \in Socials, Observe(e)
      PROVE  AwardsKept
  BY <1>2, EventsAssumption
  DEF Observe, PromoteMember, Events, AwardsKept, Inv, SeatsInv, CycleOK
<1>3. ASSUME NEW e \in Events, AnswerFailure(e) \/ NoticeFails(e)
      PROVE  AwardsKept
  BY <1>3 DEF AnswerFailure, NoticeFails, cycleVars, AwardsKept
<1>4. ASSUME NEW z \in Payments, Present(z)
      PROVE  AwardsKept
  BY <1>4 DEF Present, cycleVars, AwardsKept
<1>5. CASE GiveUp
  BY <1>5 DEF GiveUp, cycleVars, AwardsKept
<1> QED
  BY <1>1, <1>2, <1>3, <1>4, <1>5, DecisionKeepsAwards DEF Intake

LEMMA OperatorAwards ==
  ASSUME Inv, Operator
  PROVE  AwardsKept
<1>1. ASSUME NEW p \in People,
             Ban(p) \/ Unban(p) \/ Deactivate(p) \/ Delete(p) \/ RefreshProfile(p)
      PROVE  AwardsKept
  BY <1>1
  DEF Ban, Unban, Deactivate, Delete, RefreshProfile, DeleteRows, cycleVars, AwardsKept
<1>2. ASSUME NEW p \in People, Activate(p)
      PROVE  AwardsKept
  BY <1>2, UpdateKeepsAwards DEF Activate
<1>3. ASSUME NEW p \in People, NEW sats \in OperatorAmounts, PutAmount(p, sats)
      PROVE  AwardsKept
  BY <1>3, UpdateKeepsAwards DEF PutAmount
<1>4. ASSUME NEW p \in People, NEW sats \in OperatorAmounts, PostMember(p, sats)
      PROVE  AwardsKept
  BY <1>4, SeatKeepsAwards DEF PostMember
<1>5. CASE PruneWithoutAddress
  BY <1>5 DEF PruneWithoutAddress, DeleteRows, cycleVars, AwardsKept
<1>6. ASSUME NEW m \in Minimums, NEW c \in Capacities, ChangeSettings(m, c)
      PROVE  AwardsKept
  BY <1>6 DEF ChangeSettings, cycleVars, AwardsKept
<1> QED
  BY <1>1, <1>2, <1>3, <1>4, <1>5, <1>6 DEF Operator

(* No eviction, ban, deletion or restart gives a kind back to be earned again *)
(* in the same cycle: awards go only when the whole herd starts over.         *)
THEOREM AwardsErasedTogether == Spec => AwardsSurvive
<1> DEFINE Survive == (\E p \in People : ~(awards[p] \subseteq awards'[p])) =>
        active' = {} /\ \A p \in People : awards'[p] = {} /\ amount'[p] = 0
<1>1. AwardsKept \/ HerdCleared => Survive
  BY DEF AwardsKept, HerdCleared
<1>2. Inv /\ [Next]_vars => [Survive]_vars
  <2> SUFFICES ASSUME Inv, Next
               PROVE  AwardsKept \/ HerdCleared
    BY <1>1
  <2>1. CASE World
    BY <2>1 DEF World, Tick, Track, Happen, cycleVars, AwardsKept
  <2>2. CASE Resets
    BY <2>2 DEF Resets, MidnightJob, ManualReset, Restart, NewDay, cycleVars, AwardsKept
  <2> QED
    BY <2>1, <2>2, IntakeAwards, OperatorAwards DEF Next
<1> QED
  BY <1>2, Invariant, PTL DEF Spec, AwardsSurvive

-----------------------------------------------------------------------------
(* The payouts.  RefreshProfile, which stores an address and leaves the      *)
(* payouts alone, is why the theorem is about herds without it.              *)

\* Nothing a payout is computed from changes, nor the payouts.
ScoresUnchanged == UNCHANGED <<active, banned, hasAddress, amount, awards, minimum, payouts>>

LEMMA FreshWhenUnchanged ==
  ASSUME PayoutsFresh, ScoresUnchanged
  PROVE  PayoutsFresh'
  BY DEF PayoutsFresh, ScoresUnchanged, Points, Payable

LEMMA FreshWhenCleared ==
  ASSUME HerdCleared
  PROVE  PayoutsFresh'
<1>1. Payable' = {}
  BY DEF HerdCleared, Payable
<1> QED
  BY <1>1 DEF HerdCleared, PayoutsFresh, Points

LEMMA FreshWhenRecomputed ==
  ASSUME payouts' = Points'
  PROVE  PayoutsFresh'
  BY DEF PayoutsFresh

LEMMA DecisionRecomputes ==
  ASSUME \/ \E z \in Payments : DecideZap(z)
         \/ \E e \in Socials : DecideSocial(e)
  PROVE  ScoresUnchanged \/ payouts' = Points'
<1>1. ASSUME NEW z \in Payments, DecideZap(z)
      PROVE  ScoresUnchanged \/ payouts' = Points'
  <2>1. CASE DuplicateZap(z) \/ BannedZap(z) \/ SmallZap(z) \/ OutbidZap(z)
    BY <1>1, <2>1
    DEF DecideZap, LeaveDesk, DuplicateZap, BannedZap, SmallZap, OutbidZap, Refuse,
        memberVars, cycleVars, settingVars, ScoresUnchanged
  <2>2. CASE MemberZap(z) \/ FreeSeatZap(z) \/ HeadbuttZap(z)
    BY <2>2 DEF MemberZap, FreeSeatZap, HeadbuttZap, Update, Seat
  <2> QED
    BY <1>1, <2>1, <2>2 DEF DecideZap
<1>2. ASSUME NEW e \in Socials, DecideSocial(e)
      PROVE  ScoresUnchanged \/ payouts' = Points'
  <2>1. CASE EarnedSocial(e) \/ FailedSocial(e)
    BY <1>2, <2>1
    DEF DecideSocial, LeaveDesk, EarnedSocial, FailedSocial, memberVars, cycleVars,
        settingVars, ScoresUnchanged
  <2>2. CASE MemberSocial(e) \/ FreeSeatSocial(e) \/ HeadbuttSocial(e)
    BY <2>2 DEF MemberSocial, FreeSeatSocial, HeadbuttSocial, SeatSocial, Update, Seat
  <2> QED
    BY <1>2, <2>1, <2>2 DEF DecideSocial
<1> QED
  BY <1>1, <1>2

LEMMA IntakeFresh ==
  ASSUME PayoutsFresh, Intake
  PROVE  PayoutsFresh'
<1>1. ASSUME NEW e \in Events, Enter(e)
      PROVE  ScoresUnchanged \/ HerdCleared
  BY <1>1
  DEF Enter, DayEnsured, NewDay, memberVars, cycleVars, settingVars, ScoresUnchanged
<1>2. ASSUME NEW e \in Socials, Observe(e)
      PROVE  ScoresUnchanged \/ payouts' = Points'
  BY <1>2 DEF Observe, PromoteMember, settingVars, ScoresUnchanged
<1>3. ASSUME NEW e \in Events, AnswerFailure(e) \/ NoticeFails(e)
      PROVE  ScoresUnchanged
  BY <1>3 DEF AnswerFailure, NoticeFails, memberVars, cycleVars, settingVars, ScoresUnchanged
<1>4. ASSUME NEW z \in Payments, Present(z)
      PROVE  ScoresUnchanged
  BY <1>4 DEF Present, memberVars, cycleVars, settingVars, ScoresUnchanged
<1>5. CASE GiveUp
  BY <1>5, FreshWhenUnchanged
  DEF GiveUp, LeaveDesk, memberVars, cycleVars, settingVars, ScoresUnchanged
<1> QED
  BY <1>1, <1>2, <1>3, <1>4, <1>5, DecisionRecomputes,
     FreshWhenUnchanged, FreshWhenCleared, FreshWhenRecomputed DEF Intake

LEMMA ResetsFresh ==
  ASSUME Resets
  PROVE  PayoutsFresh'
<1>1. CASE MidnightJob \/ ManualReset
  BY <1>1, FreshWhenCleared DEF MidnightJob, ManualReset, NewDay
<1>2. CASE Restart
  BY <1>2, FreshWhenRecomputed DEF Restart
<1> QED
  BY <1>1, <1>2 DEF Resets

LEMMA OperatorFresh ==
  ASSUME PayoutsFresh, Operator, "refresh" \notin Operations
  PROVE  PayoutsFresh'
<1>1. ASSUME NEW m \in Minimums, NEW c \in Capacities, ChangeSettings(m, c)
      PROVE  PayoutsFresh'
  BY <1>1, FreshWhenUnchanged, FreshWhenRecomputed
  DEF ChangeSettings, cycleVars, ScoresUnchanged
<1>2. ASSUME NEW p \in People,
             Ban(p) \/ Unban(p) \/ Deactivate(p) \/ Activate(p) \/ Delete(p)
      PROVE  payouts' = Points'
  BY <1>2 DEF Ban, Unban, Deactivate, Activate, Update, Delete, DeleteRows
<1>3. ASSUME NEW p \in People, NEW sats \in OperatorAmounts,
             PutAmount(p, sats) \/ PostMember(p, sats)
      PROVE  payouts' = Points'
  BY <1>3 DEF PutAmount, PostMember, Update, Seat
<1>4. CASE PruneWithoutAddress
  BY <1>4, FreshWhenRecomputed DEF PruneWithoutAddress, DeleteRows
<1>5. \A p \in People : ~RefreshProfile(p)
  BY DEF RefreshProfile
<1> QED
  BY <1>1, <1>2, <1>3, <1>4, <1>5, FreshWhenRecomputed DEF Operator

(* As long as nothing stores an address behind the members' backs, the stored *)
(* payouts are those of the current herd after every single step.             *)
THEOREM PayoutsNeverStale ==
  ASSUME "refresh" \notin Operations
  PROVE  Spec => []PayoutsFresh
<1>1. Init => PayoutsFresh
  BY DEF Init, PayoutsFresh, Points, Payable
<1>2. PayoutsFresh /\ [Next]_vars => PayoutsFresh'
  <2> SUFFICES ASSUME PayoutsFresh, [Next]_vars
               PROVE  PayoutsFresh'
    OBVIOUS
  <2>1. CASE World
    BY <2>1, FreshWhenUnchanged
    DEF World, Tick, Track, Happen, memberVars, cycleVars, settingVars, ScoresUnchanged
  <2>2. CASE UNCHANGED vars
    BY <2>2, FreshWhenUnchanged DEF vars, ScoresUnchanged
  <2> QED
    BY <2>1, <2>2, IntakeFresh, ResetsFresh, OperatorFresh DEF Next
<1> QED
  BY <1>1, <1>2, PTL DEF Spec

-----------------------------------------------------------------------------
(* The rollover.                                                             *)

(* Later moments are on later days. *)
LEMMA DayMonotone ==
  ASSUME NEW s \in Nat, NEW t \in Nat, s <= t
  PROVE  Day(s) <= Day(t)
<1> DEFINE D == DayLength
<1>0. D \in Nat \ {0} /\ Day(s) \in Nat /\ Day(t) \in Nat
  BY TimeAssumption, DayIsNat
<1>1. D * Day(s) <= s /\ t < D * (Day(t) + 1)
  BY <1>0 DEF Day
<1>2. SUFFICES ASSUME Day(t) + 1 <= Day(s)
               PROVE  FALSE
  BY <1>0
<1>3. \A i, j \in Nat : i <= j => D * i <= D * j
  BY <1>0
<1>4. D * (Day(t) + 1) <= D * Day(s)
  BY <1>0, <1>2, <1>3
<1> HIDE DEF D
<1> QED
  BY <1>0, <1>1, <1>4

\* An event at the lock has happened, and a payment that is at the desk or was
\* credited was paid no later than the day the herd is caught up to.
DaysInv ==
  /\ markedDay <= Today
  /\ \A e \in Events : Happened(e) => created[e] <= now
  /\ \A e \in Events : e \in waiting \/ desk = e => Happened(e)
  /\ \A z \in Payments : ledger[z] = "credited" => Happened(z)
  /\ \A z \in Payments : ResetEnabled /\ (desk = z \/ ledger[z] = "credited")
                            => Day(created[z]) <= markedDay

(* Steps within a day that send nobody new to the desk. *)
LEMMA DaysWithin ==
  ASSUME DaysInv, UNCHANGED <<now, created, markedDay>>, desk' \in {desk, Idle},
         \A e \in waiting' : e \in waiting \/ Happened(e),
         \A z \in Payments : ledger'[z] = "credited" => ledger[z] = "credited" \/ desk = z
  PROVE  DaysInv'
  BY EventsAssumption DEF DaysInv, Today, Happened, Events

LEMMA DecisionDays ==
  ASSUME Inv, DaysInv,
         \/ \E z \in Payments : DecideZap(z)
         \/ \E e \in Socials : DecideSocial(e)
  PROVE  DaysInv'
<1>1. ASSUME NEW z \in Payments, DecideZap(z)
      PROVE  DaysInv'
  <2>1. UNCHANGED <<now, created, waiting>> /\ desk = z /\ desk' = Idle
    BY <1>1 DEF DecideZap, LeaveDesk, worldVars
  <2>2. markedDay' = markedDay
    BY <1>1
    DEF DecideZap, DuplicateZap, BannedZap, MemberZap, SmallZap, OutbidZap, FreeSeatZap,
        HeadbuttZap, Refuse, Update, Seat, cycleVars
  <2>3. \A y \in Payments : ledger'[y] = "credited" => ledger[y] = "credited" \/ y = z
    BY <1>1
    DEF DecideZap, DuplicateZap, BannedZap, MemberZap, SmallZap, OutbidZap, FreeSeatZap,
        HeadbuttZap, Refuse, Claim, Inv, IntakeOK
  <2> QED
    BY <2>1, <2>2, <2>3, DaysWithin
<1>2. ASSUME NEW e \in Socials, DecideSocial(e)
      PROVE  DaysInv'
  <2>1. UNCHANGED <<now, created, waiting, ledger>> /\ desk' = Idle
    BY <1>2
    DEF DecideSocial, LeaveDesk, worldVars, EarnedSocial, MemberSocial, FreeSeatSocial,
        HeadbuttSocial, FailedSocial, SeatSocial, Record
  <2>2. markedDay' = markedDay
    BY <1>2
    DEF DecideSocial, EarnedSocial, MemberSocial, FreeSeatSocial, HeadbuttSocial,
        FailedSocial, SeatSocial, Update, Seat, cycleVars
  <2> QED
    BY <2>1, <2>2, DaysWithin
<1> QED
  BY <1>1, <1>2

LEMMA IntakeDays ==
  ASSUME Inv, DaysInv, Intake
  PROVE  DaysInv'
<1>1. ASSUME NEW e \in Events, Enter(e)
      PROVE  DaysInv'
  <2>0. now \in Nat /\ created \in [Events -> Nat] /\ markedDay \in Nat /\ Today \in Nat
    BY DayIsNat DEF Inv, SeatsInv, CycleOK, WorldOK, Today
  <2>1. /\ UNCHANGED <<now, created, ledger>> /\ desk' = e /\ waiting' = waiting \ {e}
        /\ e \in waiting
    BY <1>1 DEF Enter, worldVars
  <2>2. /\ markedDay' \in Nat /\ markedDay <= markedDay' /\ markedDay' <= Today
        /\ ResetEnabled => Today <= markedDay'
    BY <1>1, <2>0 DEF DaysInv, Enter, DayEnsured, DayDue, NewDay, HerdCleared, cycleVars
  <2>3. Happened(e) /\ created[e] <= now
    BY <1>1, <2>1 DEF DaysInv
  <2>4. Day(created[e]) <= Today
    BY <1>1, <2>0, <2>3, DayMonotone DEF Today
  <2>5. /\ \A z \in Payments : Day(created[z]) \in Nat
    BY <2>0, DayIsNat DEF Events
  <2>6. ASSUME NEW z \in Payments, ResetEnabled, z = e \/ ledger[z] = "credited"
        PROVE  Day(created[z]) <= markedDay'
    BY <2>0, <2>2, <2>4, <2>5, <2>6 DEF DaysInv
  <2>7. (markedDay <= Today)'
    BY <2>1, <2>2 DEF Today
  <2> QED
    BY <2>1, <2>3, <2>6, <2>7 DEF DaysInv, Happened
<1>2. ASSUME NEW z \in Payments, Present(z)
      PROVE  DaysInv'
  BY <1>2, DaysWithin DEF Present, cycleVars, worldVars
<1>3. ASSUME NEW e \in Socials, Observe(e)
      PROVE  DaysInv'
  BY <1>3, DaysWithin DEF Observe, worldVars
<1>4. ASSUME NEW e \in Events, AnswerFailure(e) \/ NoticeFails(e)
      PROVE  DaysInv'
  <2>1. \A z \in Payments : ledger'[z] = "credited" => ledger[z] = "credited"
    BY <1>4 DEF AnswerFailure, NoticeFails, Inv, IntakeOK
  <2> QED
    BY <1>4, <2>1, DaysWithin DEF AnswerFailure, NoticeFails, cycleVars, worldVars
<1>5. CASE GiveUp
  BY <1>5, DaysWithin DEF GiveUp, LeaveDesk, cycleVars, worldVars
<1> QED
  BY <1>1, <1>2, <1>3, <1>4, <1>5, DecisionDays DEF Intake

LEMMA ResetsDays ==
  ASSUME Inv, DaysInv, Resets
  PROVE  DaysInv'
<1>0. now \in Nat /\ created \in [Events -> Nat] /\ markedDay \in Nat /\ Today \in Nat
  BY DayIsNat DEF Inv, SeatsInv, CycleOK, WorldOK, Today
<1>1. /\ UNCHANGED <<now, created>> /\ desk' = Idle /\ waiting' \subseteq waiting
      /\ \A z \in Payments : ledger'[z] = "credited" => ledger[z] = "credited"
  BY <1>0 DEF Resets, MidnightJob, ManualReset, Restart, worldVars, volatileVars
<1>2. markedDay' \in {markedDay, Today}
  BY DEF Resets, MidnightJob, ManualReset, Restart, NewDay, HerdCleared, cycleVars
<1>3. /\ markedDay' \in Nat /\ markedDay <= markedDay' /\ markedDay' <= Today
  BY <1>0, <1>2 DEF DaysInv
<1>4. ASSUME NEW z \in Payments, ResetEnabled, ledger'[z] = "credited"
      PROVE  Day(created[z]) <= markedDay'
  <2>1. Day(created[z]) \in Nat /\ Day(created[z]) <= markedDay
    BY <1>0, <1>1, <1>4, DayIsNat DEF DaysInv, Events
  <2> QED
    BY <1>0, <1>3, <2>1
<1>5. (markedDay <= Today)'
  BY <1>1, <1>3 DEF Today
<1> QED
  BY <1>1, <1>4, <1>5, EventsAssumption DEF DaysInv, Happened, Events

LEMMA WorldDays ==
  ASSUME Inv, DaysInv, World
  PROVE  DaysInv'
<1>0. now \in Nat /\ created \in [Events -> Nat] /\ markedDay \in Nat
  BY DEF Inv, SeatsInv, CycleOK, WorldOK
<1>1. CASE Tick
  <2>1. UNCHANGED <<markedDay, created, waiting, desk, ledger>> /\ now' = now + 1
    BY <1>1 DEF Tick, cycleVars, volatileVars
  <2>2. Today \in Nat /\ Today' \in Nat /\ Today <= Today'
    BY <1>0, <2>1, DayIsNat, DayMonotone DEF Today
  <2>3. (markedDay <= Today)'
    BY <1>0, <2>1, <2>2 DEF DaysInv
  <2>4. \A e \in Events : Happened(e) => created[e] <= now + 1
    BY <1>0 DEF DaysInv
  <2> QED
    BY <2>1, <2>3, <2>4 DEF DaysInv, Happened
<1>2. ASSUME NEW e \in Events, Happen(e)
      PROVE  DaysInv'
  <2>1. /\ UNCHANGED <<markedDay, now, waiting, desk, ledger>>
        /\ created' = [created EXCEPT ![e] = now]
        /\ ~Happened(e)
    BY <1>2 DEF Happen, cycleVars, volatileVars
  <2>2. \A y \in Events : y # e => created'[y] = created[y]
    BY <1>0, <2>1
  <2>3. created'[e] = now
    BY <1>0, <1>2, <2>1
  <2>4. /\ e \notin waiting /\ desk # e /\ (e \in Payments => ledger[e] # "credited")
    BY <1>2, <2>1 DEF DaysInv
  <2>5. (markedDay <= Today)'
    BY <2>1 DEF DaysInv, Today
  <2>6. \A y \in Events : Happened(y)' => created'[y] <= now
    BY <1>0, <2>2, <2>3 DEF DaysInv, Happened
  <2>7. \A y \in Events : y \in waiting \/ desk = y => Happened(y)'
    BY <2>2, <2>4 DEF DaysInv, Happened
  <2>8. ASSUME NEW z \in Payments, ledger[z] = "credited" \/ desk = z
        PROVE  created'[z] = created[z]
    BY <2>2, <2>4, <2>8 DEF Events
  <2>9. \A z \in Payments : ledger[z] = "credited" => Happened(z)'
    BY <2>8 DEF DaysInv, Happened
  <2>10. \A z \in Payments : ResetEnabled /\ (desk = z \/ ledger[z] = "credited")
                            => Day(created'[z]) <= markedDay
    BY <2>8 DEF DaysInv
  <2> QED
    BY <2>1, <2>5, <2>6, <2>7, <2>9, <2>10 DEF DaysInv
<1>3. CASE Track
  BY <1>3, DaysWithin DEF Track, worldVars, volatileVars
<1> QED
  BY <1>1, <1>2, <1>3 DEF World

LEMMA OperatorDays ==
  ASSUME DaysInv, Operator
  PROVE  DaysInv'
<1>1. OperatorWrites
  BY DEF Operator, Ban, Unban, Deactivate, Activate, Delete, RefreshProfile, PutAmount,
         PostMember, PruneWithoutAddress, DeleteRows, ChangeSettings
<1>2. markedDay' = markedDay
  BY DEF Operator, Ban, Unban, Deactivate, Activate, Delete, RefreshProfile, PutAmount,
         PostMember, PruneWithoutAddress, DeleteRows, ChangeSettings, Update, Seat, cycleVars
<1> QED
  BY <1>1, <1>2, DaysWithin DEF OperatorWrites, worldVars, volatileVars

LEMMA DaysAlways == Spec => []DaysInv
<1>1. Init => DaysInv
  BY TimeAssumption, EventsAssumption, DayIsNat
  DEF Init, DaysInv, Happened, Today, Events, Never
<1>2. Inv /\ DaysInv /\ [Next]_vars => DaysInv'
  <2> SUFFICES ASSUME Inv, DaysInv, [Next]_vars
               PROVE  DaysInv'
    OBVIOUS
  <2>1. CASE UNCHANGED vars
    BY <2>1, DaysWithin DEF vars
  <2> QED
    BY <2>1, WorldDays, IntakeDays, ResetsDays, OperatorDays DEF Next
<1> QED
  BY <1>1, <1>2, Invariant, PTL DEF Spec

(* Only a new day and the operator's reset move the day marker, and of the    *)
(* two only the reset comes without the day being due.                        *)
LEMMA MarkerMoves ==
  ASSUME Next, markedDay' # markedDay
  PROVE  \/ DayDue /\ markedDay' = Today
         \/ \A z \in Payments : ledger'[z] = "open"
<1>1. CASE World
  BY <1>1 DEF World, Tick, Track, Happen, cycleVars
<1>2. CASE Operator
  BY <1>2
  DEF Operator, Ban, Unban, Deactivate, Activate, Delete, RefreshProfile, PutAmount,
      PostMember, PruneWithoutAddress, DeleteRows, ChangeSettings, Update, Seat, cycleVars
<1>3. CASE Resets
  BY <1>3 DEF Resets, MidnightJob, ManualReset, Restart, NewDay, HerdCleared, cycleVars
<1>4. CASE Intake
  <2>1. ASSUME NEW e \in Events, Enter(e)
        PROVE  DayDue /\ markedDay' = Today
    BY <2>1 DEF Enter, DayEnsured, NewDay, HerdCleared, cycleVars
  <2>2. ASSUME NEW z \in Payments, DecideZap(z)
        PROVE  FALSE
    BY <2>2
    DEF DecideZap, DuplicateZap, BannedZap, MemberZap, SmallZap, OutbidZap, FreeSeatZap,
        HeadbuttZap, Refuse, Update, Seat, cycleVars
  <2>3. ASSUME NEW e \in Socials, DecideSocial(e)
        PROVE  FALSE
    BY <2>3
    DEF DecideSocial, EarnedSocial, MemberSocial, FreeSeatSocial, HeadbuttSocial,
        FailedSocial, SeatSocial, Update, Seat, cycleVars
  <2>4. \A z \in Payments : ~Present(z)
    BY DEF Present, cycleVars
  <2>5. \A e \in Socials : ~Observe(e)
    BY DEF Observe
  <2>6. \A e \in Events : ~AnswerFailure(e) /\ ~NoticeFails(e)
    BY DEF AnswerFailure, NoticeFails, cycleVars
  <2>7. ~GiveUp
    BY DEF GiveUp, cycleVars
  <2> QED
    BY <1>4, <2>1, <2>2, <2>3, <2>4, <2>5, <2>6, <2>7 DEF Intake
<1> QED
  BY <1>1, <1>2, <1>3, <1>4 DEF Next

(* A zap that is credited was paid no later than the marked day, so the new   *)
(* day that wipes it is a later one: a payment of the new day always finds    *)
(* the herd already caught up.                                                *)
THEOREM TodaysZapsSurvive == Spec => RolloverKeepsTodaysZaps
<1> DEFINE Keeps == \A z \in Payments :
       markedDay' # markedDay /\ ledger[z] = "credited" /\ ledger'[z] = "credited"
         => Day(created[z]) < markedDay'
<1>1. Inv /\ DaysInv /\ [Next]_vars => [Keeps]_vars
  <2> SUFFICES ASSUME Inv, DaysInv, Next, NEW z \in Payments, markedDay' # markedDay,
                      ledger[z] = "credited", ledger'[z] = "credited"
               PROVE  Day(created[z]) < markedDay'
    OBVIOUS
  <2>1. DayDue /\ markedDay' = Today
    BY MarkerMoves
  <2>2. Day(created[z]) <= markedDay
    BY <2>1 DEF DayDue, DaysInv
  <2>3. Day(created[z]) \in Nat /\ markedDay \in Nat /\ Today \in Nat
    BY DayIsNat DEF Inv, SeatsInv, CycleOK, WorldOK, Today, Events
  <2> QED
    BY <2>1, <2>2, <2>3 DEF DayDue
<1> QED
  BY <1>1, DaysAlways, Invariant, PTL DEF Spec, RolloverKeepsTodaysZaps

-----------------------------------------------------------------------------
(* The herd implements PaymentLedger: each step of Herd is a step of the     *)
(* ledger or leaves outcomes and balances alone.  The invariant is what      *)
(* makes the mapping work: the amounts are a function on People, and a       *)
(* victim's seat is not the payer's.                                         *)

(* What the ledger does not see. *)
LEMMA LedgerStutter ==
  ASSUME ledger' = ledger, amount' = amount
  PROVE  [Ledger!Next]_(Ledger!vars)
  BY DEF Ledger!vars

(* A new day, or the operator's reset without its forgetting, drops them all. *)
LEMMA ClearedDrops ==
  ASSUME HerdCleared, ledger' = ledger
  PROVE  Ledger!Next
<1>1. Ledger!Drop(People)
  BY DEF Ledger!Drop, HerdCleared
<1> QED
  BY <1>1 DEF Ledger!Next

LEMMA DecideZapLedger ==
  ASSUME Inv, NEW z \in Payments, DecideZap(z)
  PROVE  [Ledger!Next]_(Ledger!vars)
<1> DEFINE p == Author[z]
<1>0. p \in People /\ Sats[z] \in Nat /\ amount \in [People -> Nat] /\ active \subseteq People
  BY EventsAssumption DEF Events, Inv, SeatsInv, RowsOK
<1>1. CASE DuplicateZap(z)
  BY <1>1, LedgerStutter DEF DuplicateZap, memberVars
<1>2. CASE BannedZap(z) \/ SmallZap(z) \/ OutbidZap(z)
  <2>1. Ledger!Refuse(z)
    BY <1>2 DEF Ledger!Refuse, BannedZap, SmallZap, OutbidZap, NewcomerZap, Refuse, memberVars
  <2> QED
    BY <2>1 DEF Ledger!Next
<1>3. ASSUME NEW displaced \in SUBSET (People \ {p}), NEW before \in {0, amount[p]},
             \A q, r \in displaced : q = r,
             ledger[z] = "open", Claim(z),
             amount' = [q \in People |-> IF q \in displaced THEN 0
                                         ELSE IF q = p THEN before + Sats[z] ELSE amount[q]]
      PROVE  Ledger!Next
  <2>1. Ledger!Credit(z)
    BY <1>3 DEF Ledger!Credit, Claim
  <2> QED
    BY <2>1 DEF Ledger!Next
<1>4. CASE MemberZap(z)
  <2>1. amount' = [q \in People |-> IF q \in {} THEN 0
                                    ELSE IF q = p THEN amount[p] + Sats[z] ELSE amount[q]]
    BY <1>0, <1>4 DEF MemberZap, Update
  <2>2. ledger[z] = "open" /\ Claim(z)
    BY <1>4 DEF MemberZap
  <2>3. {} \in SUBSET (People \ {p}) /\ amount[p] \in {0, amount[p]} /\ \A q, r \in {} : q = r
    OBVIOUS
  <2> QED
    BY <1>3, <2>1, <2>2, <2>3
<1>5. ASSUME NEW victims \in SUBSET active, \A q, r \in victims : q = r,
             NewcomerZap(z), Claim(z), Seat(p, Sats[z], {}, victims)
      PROVE  Ledger!Next
  <2>1. victims \in SUBSET (People \ {p}) /\ ledger[z] = "open"
    BY <1>0, <1>5 DEF NewcomerZap
  <2>2. amount' = [q \in People |-> IF q \in victims THEN 0
                                    ELSE IF q = p THEN 0 + Sats[z] ELSE amount[q]]
    BY <1>0, <1>5 DEF Seat
  <2>3. 0 \in {0, amount[p]}
    OBVIOUS
  <2> QED
    BY <1>3, <1>5, <2>1, <2>2, <2>3
<1>6. CASE FreeSeatZap(z)
  BY <1>5, <1>6 DEF FreeSeatZap
<1>7. CASE HeadbuttZap(z)
  <2>1. PICK v \in active : Claim(z) /\ Seat(p, Sats[z], {}, {v})
    BY <1>7 DEF HeadbuttZap
  <2>2. NewcomerZap(z) /\ {v} \in SUBSET active /\ \A q, r \in {v} : q = r
    BY <1>7 DEF HeadbuttZap
  <2> QED
    BY <1>5, <2>1, <2>2
<1> QED
  BY <1>1, <1>2, <1>4, <1>6, <1>7 DEF DecideZap

(* A social event moves no sats: seating a newcomer writes a zero. *)
LEMMA DecideSocialLedger ==
  ASSUME Inv, NEW e \in Socials, DecideSocial(e)
  PROVE  [Ledger!Next]_(Ledger!vars)
<1> DEFINE p == Author[e]
<1>0. p \in People /\ amount \in [People -> Nat] /\ active \subseteq People
  BY EventsAssumption DEF Events, Inv, SeatsInv, RowsOK
<1>1. CASE EarnedSocial(e) \/ FailedSocial(e)
  BY <1>1, LedgerStutter DEF EarnedSocial, FailedSocial, memberVars
<1>2. CASE MemberSocial(e)
  <2>1. amount' = amount /\ ledger' = ledger
    BY <1>0, <1>2 DEF MemberSocial, Update, Record
  <2> QED
    BY <2>1, LedgerStutter
<1>3. ASSUME NEW victims \in SUBSET active, SeatSocial(e, victims)
      PROVE  Ledger!Next
  <2>1. Ledger!Drop({p} \cup victims)
    BY <1>3 DEF SeatSocial, Seat, Record, Ledger!Drop
  <2> QED
    BY <1>0, <2>1 DEF Ledger!Next
<1>4. CASE FreeSeatSocial(e)
  BY <1>3, <1>4 DEF FreeSeatSocial
<1>5. CASE HeadbuttSocial(e)
  BY <1>3, <1>5 DEF HeadbuttSocial
<1> QED
  BY <1>1, <1>2, <1>4, <1>5 DEF DecideSocial

LEMMA IntakeLedger ==
  ASSUME Inv, Intake
  PROVE  [Ledger!Next]_(Ledger!vars)
<1>1. ASSUME NEW e \in Events, Enter(e)
      PROVE  [Ledger!Next]_(Ledger!vars)
  <2>1. ledger' = ledger /\ (HerdCleared \/ amount' = amount)
    BY <1>1 DEF Enter, DayEnsured, NewDay, memberVars
  <2> QED
    BY <2>1, ClearedDrops, LedgerStutter
<1>2. ASSUME NEW e \in Events, AnswerFailure(e)
      PROVE  [Ledger!Next]_(Ledger!vars)
  <2>1. CASE e \in Payments /\ ~Registered(e)
    <3>1. Ledger!Refuse(e)
      BY <1>2, <2>1 DEF AnswerFailure, Registered, memberVars, Ledger!Refuse
    <3> QED
      BY <2>1, <3>1 DEF Ledger!Next
  <2>2. CASE ~(e \in Payments /\ ~Registered(e))
    BY <1>2, <2>2, LedgerStutter DEF AnswerFailure, memberVars
  <2> QED
    BY <2>1, <2>2
<1>3. ASSUME NEW e \in Events, NoticeFails(e)
      PROVE  [Ledger!Next]_(Ledger!vars)
  BY <1>3, LedgerStutter DEF NoticeFails, memberVars
<1>4. ASSUME NEW z \in Payments, Present(z)
      PROVE  [Ledger!Next]_(Ledger!vars)
  BY <1>4, LedgerStutter DEF Present, memberVars
<1>5. ASSUME NEW e \in Socials, Observe(e)
      PROVE  [Ledger!Next]_(Ledger!vars)
  BY <1>5, LedgerStutter DEF Observe
<1>6. CASE GiveUp
  BY <1>6, LedgerStutter DEF GiveUp, memberVars
<1> QED
  BY <1>1, <1>2, <1>3, <1>4, <1>5, <1>6, DecideZapLedger, DecideSocialLedger DEF Intake

LEMMA WorldLedger ==
  ASSUME World
  PROVE  [Ledger!Next]_(Ledger!vars)
  BY LedgerStutter DEF World, Tick, Happen, Track, memberVars

LEMMA ResetsLedger ==
  ASSUME Resets
  PROVE  [Ledger!Next]_(Ledger!vars)
<1>1. CASE MidnightJob
  BY <1>1, ClearedDrops DEF MidnightJob, NewDay
<1>2. CASE ManualReset
  <2>1. Ledger!Forget
    BY <1>2 DEF ManualReset, HerdCleared, Ledger!Forget
  <2> QED
    BY <2>1 DEF Ledger!Next
<1>3. CASE Restart
  <2>1. ledger' = ledger /\ (HerdCleared \/ amount' = amount)
    BY <1>3 DEF Restart, NewDay
  <2> QED
    BY <2>1, ClearedDrops, LedgerStutter
<1> QED
  BY <1>1, <1>2, <1>3 DEF Resets

LEMMA OperatorLedger ==
  ASSUME Inv, Operator
  PROVE  [Ledger!Next]_(Ledger!vars)
<1>0. amount \in [People -> Nat] /\ rows \subseteq People
  BY DEF Inv, SeatsInv, RowsOK
<1>1. ASSUME NEW p \in People, Ban(p) \/ Unban(p) \/ RefreshProfile(p)
      PROVE  [Ledger!Next]_(Ledger!vars)
  BY <1>1, LedgerStutter DEF Ban, Unban, RefreshProfile, OperatorWrites
<1>2. ASSUME NEW p \in People, Activate(p)
      PROVE  [Ledger!Next]_(Ledger!vars)
  BY <1>0, <1>2, LedgerStutter DEF Activate, Update, OperatorWrites
<1>3. ASSUME NEW m \in Minimums, NEW c \in Capacities, ChangeSettings(m, c)
      PROVE  [Ledger!Next]_(Ledger!vars)
  BY <1>3, LedgerStutter DEF ChangeSettings, OperatorWrites
<1>4. ASSUME NEW p \in People, Deactivate(p)
      PROVE  [Ledger!Next]_(Ledger!vars)
  <2>1. Ledger!Drop({p})
    BY <1>0, <1>4 DEF Deactivate, OperatorWrites, Ledger!Drop
  <2> QED
    BY <2>1 DEF Ledger!Next
<1>5. ASSUME NEW S \in SUBSET rows, DeleteRows(S)
      PROVE  [Ledger!Next]_(Ledger!vars)
  <2>1. Ledger!Drop(S)
    BY <1>5 DEF DeleteRows, OperatorWrites, Ledger!Drop
  <2> QED
    BY <1>0, <2>1 DEF Ledger!Next
<1>6. ASSUME NEW p \in People, Delete(p)
      PROVE  [Ledger!Next]_(Ledger!vars)
  BY <1>5, <1>6 DEF Delete
<1>7. CASE PruneWithoutAddress
  BY <1>5, <1>7 DEF PruneWithoutAddress
<1>8. ASSUME NEW p \in People, NEW sats \in OperatorAmounts,
             PutAmount(p, sats) \/ PostMember(p, sats)
      PROVE  [Ledger!Next]_(Ledger!vars)
  <2>1. amount' = [amount EXCEPT ![p] = sats]
    BY <1>0, <1>8 DEF PutAmount, PostMember, Update, Seat
  <2>2. Ledger!Write(p, sats)
    BY <1>8, <2>1 DEF Ledger!Write, PutAmount, PostMember, OperatorWrites
  <2> QED
    BY <2>2 DEF Ledger!Next
<1> QED
  BY <1>1, <1>2, <1>3, <1>4, <1>6, <1>7, <1>8 DEF Operator

(* Whatever is delivered twice, interleaved with operator requests or cut     *)
(* short by a crash, every payment has its effect at most once between two    *)
(* manual resets, and nothing else but an operator's total raises an amount.  *)
THEOREM HerdImplementsLedger == Spec => PaymentsCountOnce
<1>1. Init => Ledger!Init
  BY DEF Init, Ledger!Init
<1>2. Inv /\ [Next]_vars => [Ledger!Next]_(Ledger!vars)
  <2> SUFFICES ASSUME Inv, [Next]_vars
               PROVE  [Ledger!Next]_(Ledger!vars)
    OBVIOUS
  <2>1. CASE UNCHANGED vars
    BY <2>1, LedgerStutter DEF vars
  <2> QED
    BY <2>1, WorldLedger, IntakeLedger, ResetsLedger, OperatorLedger DEF Next
<1> QED
  BY <1>1, <1>2, Invariant, PTL DEF Spec, PaymentsCountOnce, Ledger!Spec
=============================================================================
