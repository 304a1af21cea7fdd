---------------------------- MODULE SplitsProofs ----------------------------
(* What Splits guarantees for every set of members, every points, settings   *)
(* and faults: the target lock orders the writers, and no stale recompute    *)
(* survives a reset.                                                         *)
EXTENDS Splits, TLAPS

-----------------------------------------------------------------------------
(* Snapshots, plans and signatures have their types.                         *)

LEMMA PlanType ==
  ASSUME NEW s \in States
  PROVE  /\ PlanOf(s) \in [pays: [People -> Nat], zap: BOOLEAN, percent: Nat]
         /\ Paid(PlanOf(s)) \subseteq Seated(s.points)
<1>1. s.points \in [People -> Nat] /\ s.policy \in [zap: BOOLEAN, percent: Nat]
  BY PolicyAssumption DEF States
<1> QED
  BY <1>1 DEF PlanOf, Paid, Seated

LEMMA SignatureType ==
  ASSUME NEW s \in States
  PROVE  Signature(s) \in States
  BY DEF States, Signature

LEMMA EmptiedType ==
  ASSUME NEW pol \in Policies
  PROVE  Emptied(pol) \in States /\ Seated(Emptied(pol).points) = {}
  BY DEF States, Emptied, Seated

LEMMA BlankType ==
  ASSUME policy \in Policies
  PROVE  Blank \in [version: Nat, state: States]
<1>1. (CHOOSE pol \in Policies : TRUE) \in Policies
  OBVIOUS
<1> QED
  BY <1>1, EmptiedType DEF Blank

LEMMA SnapshotType ==
  ASSUME HerdOK
  PROVE  Snapshot \in States
  BY DEF HerdOK, Snapshot, States

-----------------------------------------------------------------------------
(* Who may write, and what a writer has read.                                *)

\* Whoever has read something to write holds the target lock, and no write
\* has come since the reading.
LockInv ==
  /\ \A w \in Workers : pc[w] \in {"reading", "writing"} => lock = w
  /\ \A w \in Workers : lock = w => written <= read[w].version
  /\ \A w \in Workers : read[w].version <= changes
  /\ written <= changes

\* The gate is held exactly by a reset, which is pending until it is over.
GateInv ==
  /\ gate = Free <=> pc["reset"] = "none"
  /\ pc["reset"] # "none" => pending

\* Seats of a former cycle survive only in the targets of a pending reset and
\* in the snapshot of a recompute that this reset waits for.
CycleInv ==
  /\ Seated(points) \subseteq joined
  /\ \A w \in Recomputes : pc[w] = "writing"
       => Seated(read[w].state.points) \subseteq joined \/ pc["reset"] = "queued"
  /\ Paid(targets) \subseteq joined \/ (pending /\ pc["reset"] # "marking")

Inv == TypeOK /\ LockInv /\ GateInv /\ CycleInv

LEMMA InitInv == Init => Inv
<1> SUFFICES ASSUME Init
             PROVE  Inv
  OBVIOUS
<1>0. policy \in Policies
  BY DEF Init
<1>1. Blank \in [version: Nat, state: States] /\ Blank.version = 0
  BY <1>0, BlankType DEF Blank
<1>2. /\ ZapOnly(policy) \in [pays: [People -> Nat], zap: BOOLEAN, percent: Nat]
      /\ Paid(ZapOnly(policy)) = {}
  BY <1>0, EmptiedType, PlanType DEF ZapOnly
<1>3. TypeOK
  BY <1>0, <1>1, <1>2 DEF Init, TypeOK, HerdOK, TargetsOK, WorkOK, DayOK, Workers, Recomputes
<1>4. LockInv /\ GateInv
  BY <1>1 DEF Init, LockInv, GateInv, Workers, Recomputes, Free
<1>5. CycleInv
  BY <1>2 DEF Init, CycleInv, Seated, Workers, Recomputes
<1> QED
  BY <1>3, <1>4, <1>5 DEF Inv

-----------------------------------------------------------------------------
(* One lemma per group of steps.                                             *)

(* Changes of the herd. *)
LEMMA ChangeKeeps ==
  ASSUME Inv, NEW owes \in SUBSET Recomputes, Change(owes),
         points' \in [People -> Nat], addressed' \subseteq People, policy' \in Policies
  PROVE  Inv'
<1>0. /\ UNCHANGED <<targets, written, cache, pc, read, lock, gate, today, markedDay,
                     pending, awake, up, faults>>
      /\ changes' = changes + 1 /\ joined' = joined \cup Seated(points')
      /\ owed' = owed \cup owes
  BY DEF Change, targetVars, dayVars
<1>1. Seated(points') \subseteq People
  BY DEF Seated
<1>2. TypeOK'
  BY <1>0, <1>1 DEF Inv, TypeOK, HerdOK, TargetsOK, WorkOK, DayOK, States
<1>3. \A w \in Workers : read[w].version \in Nat
  BY DEF Inv, TypeOK, WorkOK
<1>4. LockInv'
  BY <1>0, <1>3 DEF Inv, TypeOK, HerdOK, TargetsOK, LockInv
<1>5. GateInv'
  BY <1>0 DEF Inv, GateInv
<1>6. Seated(points)' \subseteq joined'
  BY <1>0 DEF Seated
<1>7. CycleInv'
  BY <1>0, <1>6 DEF Inv, CycleInv, Seated, Paid
<1> QED
  BY <1>2, <1>4, <1>5, <1>7 DEF Inv

LEMMA HerdKeeps ==
  ASSUME Inv, Herd
  PROVE  Inv'
<1>0. /\ points \in [People -> Nat] /\ addressed \subseteq People /\ policy \in Policies
      /\ Points \subseteq Nat
  BY PointsAssumption DEF Inv, TypeOK, HerdOK
<1>1. {"debounced", "direct"} \in SUBSET Recomputes /\ {"debounced"} \in SUBSET Recomputes
      /\ {} \in SUBSET Recomputes
  BY DEF Recomputes
<1>2. ASSUME NEW p \in People, NEW n \in Points, NEW victims \in SUBSET People,
             Admit(p, n, victims)
      PROVE  Inv'
  <2>1. points' \in [People -> Nat] /\ addressed' \subseteq People /\ policy' \in Policies
    BY <1>0, <1>2 DEF Admit
  <2> QED
    BY <1>1, <1>2, <2>1, ChangeKeeps DEF Admit
<1>3. ASSUME NEW p \in People, NEW n \in Points \cup {0}, Manage(p, n)
      PROVE  Inv'
  <2>1. points' \in [People -> Nat] /\ addressed' \subseteq People /\ policy' \in Policies
    BY <1>0, <1>3 DEF Manage
  <2> QED
    BY <1>1, <1>3, <2>1, ChangeKeeps DEF Manage
<1>4. ASSUME NEW p \in People, NEW n \in Points, Post(p, n)
      PROVE  Inv'
  <2>1. points' \in [People -> Nat] /\ addressed' \subseteq People /\ policy' \in Policies
    BY <1>0, <1>4 DEF Post
  <2> QED
    BY <1>1, <1>4, <2>1, ChangeKeeps DEF Post
<1>5. ASSUME NEW pol \in Policies, SaveSettings(pol)
      PROVE  Inv'
  <2>1. points' \in [People -> Nat] /\ addressed' \subseteq People /\ policy' \in Policies
    BY <1>0, <1>5 DEF SaveSettings
  <2> QED
    BY <1>1, <1>5, <2>1, ChangeKeeps DEF SaveSettings
<1>6. \A p : SUBSET (Seated(points) \ {p}) \subseteq SUBSET People
  BY DEF Seated
<1> QED
  BY <1>2, <1>3, <1>4, <1>5, <1>6 DEF Herd

(* Starting a recompute touches neither herd nor targets nor snapshots. *)
LEMMA StartKeeps ==
  ASSUME Inv, Schedule \/ Wake \/ StartDirect \/ Startup
  PROVE  Inv'
<1>1. /\ UNCHANGED <<herdVars, targetVars, read, lock, gate, today, markedDay, pending,
                     up, faults>>
      /\ owed' \subseteq owed /\ awake' \in BOOLEAN
  BY DEF Schedule, Wake, StartDirect, Startup, dayVars, Inv, TypeOK, DayOK
<1>2. PICK w \in Recomputes, step \in {"sleeping", "queued"} :
        pc' = pc \/ pc' = [pc EXCEPT ![w] = step]
  BY DEF Schedule, Wake, StartDirect, Startup, Recomputes
<1>3. TypeOK'
  BY <1>1, <1>2
  DEF Inv, TypeOK, HerdOK, TargetsOK, WorkOK, DayOK, States, Workers, herdVars, targetVars
<1>4. /\ \A x \in Workers : pc'[x] \in {"reading", "writing"} => pc[x] = pc'[x]
      /\ pc'["reset"] = pc["reset"]
  BY <1>2 DEF Inv, TypeOK, WorkOK, Workers, Recomputes
<1>5. LockInv'
  BY <1>1, <1>4 DEF Inv, LockInv, herdVars, targetVars
<1>6. GateInv'
  BY <1>1, <1>4 DEF Inv, GateInv
<1>7. CycleInv'
  BY <1>1, <1>4 DEF Inv, CycleInv, Seated, Paid, Workers, herdVars, targetVars
<1> QED
  BY <1>3, <1>5, <1>6, <1>7 DEF Inv

(* A recompute, from the target lock to its write. *)
LEMMA RecomputeKeeps ==
  ASSUME Inv, NEW w \in Recomputes, Recompute(w) \/ WriteFails(w)
  PROVE  Inv'
<1>0. /\ w \in Workers /\ w # "reset" /\ Free \notin Workers
      /\ pc["reset"] \in {"none", "sleeping", "queued", "reading", "writing", "marking"}
      /\ pc \in [Workers -> {"none", "sleeping", "queued", "reading", "writing", "marking"}]
      /\ read \in [Workers -> [version: Nat, state: States]]
      /\ Blank \in [version: Nat, state: States] /\ Blank.version = 0
  BY BlankType DEF Inv, TypeOK, HerdOK, WorkOK, Workers, Recomputes, Free, Blank
<1>1. UNCHANGED <<herdVars, owed, dayVars>> /\ faults' \in Nat
  BY DEF Recompute, ReadSettings, ReadMembers, WritePlan, WriteFails, Inv, TypeOK, DayOK
<1>2. /\ pc'["reset"] = pc["reset"]
      /\ \A x \in Workers : x # w => pc'[x] = pc[x] /\ read'[x] = read[x]
  BY <1>0 DEF Recompute, ReadSettings, ReadMembers, WritePlan, WriteFails, Done, Workers
<1>3. CASE ReadSettings(w)
  <2>1. /\ UNCHANGED targetVars /\ lock = Free /\ lock' = w /\ up' = up
        /\ read'[w] = [version |-> changes, state |-> Snapshot]
        /\ pc' = [pc EXCEPT ![w] = "reading"] /\ pc'[w] = "reading"
    BY <1>0, <1>3 DEF ReadSettings
  <2>2. [version |-> changes, state |-> Snapshot] \in [version: Nat, state: States]
    BY SnapshotType DEF Inv, TypeOK, HerdOK
  <2>3. TypeOK'
    BY <1>0, <1>1, <1>3, <2>1, <2>2
    DEF Inv, TypeOK, HerdOK, TargetsOK, WorkOK, DayOK, States, ReadSettings, herdVars,
        targetVars, dayVars
  <2>4. LockInv'
    BY <1>0, <1>1, <1>2, <2>1
    DEF Inv, TypeOK, HerdOK, LockInv, herdVars, targetVars
  <2>5. GateInv' /\ CycleInv'
    BY <1>0, <1>1, <1>2, <2>1
    DEF Inv, GateInv, CycleInv, Seated, Paid, Workers, herdVars, targetVars, dayVars
  <2> QED
    BY <2>3, <2>4, <2>5 DEF Inv
<1>4. ASSUME UNCHANGED targetVars, lock' = Free, pc'[w] \in {"none", "queued"},
             pc' = [pc EXCEPT ![w] = pc'[w]], read' = [read EXCEPT ![w] = Blank],
             pc[w] \in {"reading", "writing"}, up' \in BOOLEAN
      PROVE  Inv'
  <2>1. TypeOK'
    BY <1>0, <1>1, <1>4
    DEF Inv, TypeOK, HerdOK, TargetsOK, WorkOK, DayOK, States, herdVars, targetVars, dayVars
  <2>2. lock = w /\ read'[w] = Blank
    BY <1>0, <1>4 DEF Inv, LockInv
  <2>3. LockInv'
    BY <1>0, <1>1, <1>2, <1>4, <2>2
    DEF Inv, TypeOK, HerdOK, LockInv, herdVars, targetVars
  <2>4. GateInv' /\ CycleInv'
    BY <1>0, <1>1, <1>2, <1>4
    DEF Inv, GateInv, CycleInv, Seated, Paid, Workers, herdVars, targetVars, dayVars
  <2> QED
    BY <2>1, <2>3, <2>4 DEF Inv
<1>5. CASE ReadMembers(w)
  <2> DEFINE seen == [points |-> points, addressed |-> addressed,
                      policy |-> read[w].state.policy]
  <2>0. seen \in States /\ pc[w] = "reading" /\ UNCHANGED targetVars
    BY <1>0, <1>5 DEF ReadMembers, Inv, TypeOK, HerdOK, States
  <2>1. CASE Done(w)
    <3>1. up' \in BOOLEAN /\ pc'[w] = "none"
      BY <1>0, <2>1 DEF Done, Inv, TypeOK, DayOK
    <3> QED
      BY <1>4, <2>0, <2>1, <3>1 DEF Done
  <2>2. CASE /\ read' = [read EXCEPT ![w] = [version |-> @.version, state |-> seen]]
             /\ pc' = [pc EXCEPT ![w] = "writing"]
             /\ UNCHANGED <<lock, up>>
    <3>1. /\ read'[w] = [version |-> read[w].version, state |-> seen]
          /\ pc'[w] = "writing"
      BY <1>0, <2>2
    <3>2. [version |-> read[w].version, state |-> seen] \in [version: Nat, state: States]
      BY <1>0, <2>0
    <3>3. TypeOK'
      BY <1>0, <1>1, <2>0, <2>2, <3>2
      DEF Inv, TypeOK, HerdOK, TargetsOK, WorkOK, DayOK, States, herdVars, targetVars, dayVars
    <3>4. LockInv'
      BY <1>0, <1>1, <1>2, <2>0, <2>2, <3>1
      DEF Inv, TypeOK, HerdOK, LockInv, herdVars, targetVars
    <3>5. GateInv' /\ CycleInv'
      BY <1>0, <1>1, <1>2, <2>0, <2>2, <3>1
      DEF Inv, GateInv, CycleInv, Seated, Paid, Workers, herdVars, targetVars, dayVars
    <3> QED
      BY <3>3, <3>4, <3>5 DEF Inv
  <2> QED
    BY <1>5, <2>1, <2>2 DEF ReadMembers
<1>6. CASE WritePlan(w)
  <2> DEFINE seen == read[w].state
  <2>0. /\ seen \in States /\ pc[w] = "writing" /\ lock = w
        /\ Signature(seen) \in States
        /\ PlanOf(seen) \in [pays: [People -> Nat], zap: BOOLEAN, percent: Nat]
        /\ Paid(PlanOf(seen)) \subseteq Seated(seen.points)
    BY <1>0, <1>6, PlanType, SignatureType DEF WritePlan, Inv, LockInv
  <2>1. /\ targets' = PlanOf(seen) /\ written' = read[w].version
        /\ cache' \in {cache, {Signature(seen)}}
        /\ lock' = Free /\ pc' = [pc EXCEPT ![w] = "none"]
        /\ read' = [read EXCEPT ![w] = Blank] /\ up' \in BOOLEAN
    BY <1>6 DEF WritePlan, Done, Inv, TypeOK, DayOK
  <2>2. pc'[w] = "none" /\ read'[w] = Blank
    BY <1>0, <2>1
  <2>3. TargetsOK'
    BY <1>0, <2>0, <2>1 DEF Inv, TypeOK, TargetsOK, States
  <2>4. TypeOK'
    BY <1>0, <1>1, <2>1, <2>3
    DEF Inv, TypeOK, HerdOK, WorkOK, DayOK, herdVars, dayVars
  <2>5. LockInv'
    BY <1>0, <1>1, <1>2, <2>0, <2>1, <2>2 DEF Inv, TypeOK, HerdOK, LockInv, herdVars
  <2>6. GateInv'
    BY <1>1, <1>2 DEF Inv, GateInv, dayVars
  <2>7. Paid(targets') \subseteq joined' \/ (pending' /\ pc'["reset"] # "marking")
    BY <1>1, <1>2, <2>0, <2>1
    DEF Inv, GateInv, CycleInv, Paid, herdVars, dayVars
  <2>8. CycleInv'
    BY <1>0, <1>1, <1>2, <2>2, <2>7
    DEF Inv, CycleInv, Seated, Paid, Workers, herdVars, dayVars
  <2> QED
    BY <2>4, <2>5, <2>6, <2>8 DEF Inv
<1>7. CASE WriteFails(w)
  <2>1. pc'[w] \in {"none", "queued"} /\ up' \in BOOLEAN
    BY <1>0, <1>7 DEF WriteFails, Inv, TypeOK, DayOK
  <2>2. pc' = [pc EXCEPT ![w] = pc'[w]]
    BY <1>0, <1>7 DEF WriteFails
  <2> QED
    BY <1>4, <1>7, <2>1, <2>2 DEF WriteFails
<1> QED
  BY <1>3, <1>5, <1>6, <1>7 DEF Recompute

(* A reset commits the membership and leaves the targets for later. *)
LEMMA ResetStarts ==
  ASSUME Inv, EnsureDay \/ ManualReset
  PROVE  Inv'
<1>0. /\ UNCHANGED <<targetVars, read, lock, owed, today, awake, up, faults>>
      /\ gate = Free /\ gate' \in {"daily", "manual"} /\ "reset" \in Workers
      /\ pc' = [pc EXCEPT !["reset"] = "queued"]
      /\ pc \in [Workers -> {"none", "sleeping", "queued", "reading", "writing", "marking"}]
  BY DEF EnsureDay, ManualReset, StartReset, Workers, Inv, TypeOK, WorkOK
<1>1. /\ pc["reset"] = "none" /\ pc'["reset"] = "queued"
      /\ \A w \in Recomputes : pc'[w] = pc[w]
  BY <1>0 DEF Inv, GateInv, Workers, Recomputes
<1>2. pending'
  <2>1. CASE NewHerd
    BY <2>1 DEF NewHerd
  <2>2. CASE ~NewHerd
    BY <2>2 DEF EnsureDay, ManualReset, DayReady
  <2> QED
    BY <2>1, <2>2
<1>3. CASE NewHerd
  <2>1. /\ points' = [p \in People |-> 0] /\ joined' = {} /\ changes' = changes + 1
        /\ UNCHANGED <<addressed, policy>> /\ markedDay' = today
    BY <1>3 DEF NewHerd
  <2>2. TypeOK'
    BY <1>0, <1>2, <1>3, <2>1
    DEF NewHerd, Inv, TypeOK, HerdOK, TargetsOK, WorkOK, DayOK, States, targetVars
  <2>3. \A w \in Workers : read[w].version \in Nat
    BY DEF Inv, TypeOK, WorkOK
  <2>4. LockInv'
    BY <1>0, <1>1, <2>1, <2>3
    DEF Inv, TypeOK, HerdOK, TargetsOK, LockInv, Workers, targetVars
  <2>5. GateInv'
    BY <1>0, <1>1, <1>2 DEF GateInv, Free
  <2>6. CycleInv'
    BY <1>1, <1>2, <2>1 DEF CycleInv, Seated
  <2> QED
    BY <2>2, <2>4, <2>5, <2>6 DEF Inv
<1>4. CASE UNCHANGED <<herdVars, markedDay, pending>>
  <2>1. TypeOK'
    BY <1>0, <1>4
    DEF Inv, TypeOK, HerdOK, TargetsOK, WorkOK, DayOK, States, herdVars, targetVars
  <2>2. LockInv'
    BY <1>0, <1>1, <1>4 DEF Inv, LockInv, Workers, herdVars, targetVars
  <2>3. GateInv' /\ CycleInv'
    BY <1>0, <1>1, <1>2, <1>4
    DEF Inv, GateInv, CycleInv, Seated, Paid, Free, Workers, herdVars, targetVars
  <2> QED
    BY <2>1, <2>2, <2>3 DEF Inv
<1> QED
  BY <1>3, <1>4 DEF EnsureDay, ManualReset

(* The reset's own way to the targets and to the pending mark. *)
LEMMA ResetKeeps ==
  ASSUME Inv, Reset \/ ResetFails
  PROVE  Inv'
<1>0. /\ UNCHANGED <<herdVars, owed, today, markedDay, awake, up>> /\ faults' \in Nat
      /\ "reset" \in Workers /\ "reset" \notin Recomputes /\ Free \notin Workers
      /\ pc \in [Workers -> {"none", "sleeping", "queued", "reading", "writing", "marking"}]
      /\ read \in [Workers -> [version: Nat, state: States]]
      /\ \A w \in Recomputes : pc'[w] = pc[w] /\ read'[w] = read[w]
      /\ Blank \in [version: Nat, state: States] /\ Blank.version = 0
  BY BlankType
  DEF Reset, ResetFails, ForgetSignature, WriteReset, ClearPending, dayVars, Workers,
      Recomputes, Free, Inv, TypeOK, HerdOK, WorkOK, DayOK, Blank
<1>1. CASE ForgetSignature
  <2>1. /\ UNCHANGED <<targets, written, gate, pending>> /\ cache' = {} /\ lock' = "reset"
        /\ lock = Free /\ pc["reset"] = "queued" /\ pc'["reset"] = "writing"
        /\ read'["reset"] = [version |-> changes, state |-> Snapshot]
    BY <1>0, <1>1 DEF ForgetSignature, dayVars
  <2>2. [version |-> changes, state |-> Snapshot] \in [version: Nat, state: States]
    BY SnapshotType DEF Inv, TypeOK, HerdOK
  <2>3. TypeOK'
    BY <1>0, <1>1, <2>1, <2>2
    DEF ForgetSignature, Inv, TypeOK, HerdOK, TargetsOK, WorkOK, DayOK, States, herdVars
  <2>4. LockInv'
    BY <1>0, <2>1 DEF Inv, TypeOK, HerdOK, LockInv, Workers, herdVars
  <2>5. \A w \in Recomputes : pc[w] # "writing"
    BY <1>0, <2>1 DEF Inv, LockInv, Workers
  <2>6. GateInv' /\ CycleInv'
    BY <1>0, <2>1, <2>5 DEF Inv, GateInv, CycleInv, Seated, Paid, herdVars
  <2> QED
    BY <2>3, <2>4, <2>6 DEF Inv
<1>2. CASE WriteReset
  <2>1. /\ UNCHANGED <<cache, gate, pending>> /\ pc["reset"] = "writing" /\ lock' = Free
        /\ targets' = ZapOnly(read["reset"].state.policy)
        /\ written' = read["reset"].version
        /\ pc'["reset"] = "marking" /\ read'["reset"] = Blank /\ lock = "reset"
    BY <1>0, <1>2 DEF WriteReset, dayVars, Inv, LockInv
  <2>2. read["reset"].state.policy \in Policies
    BY <1>0 DEF States
  <2>3. /\ targets' \in [pays: [People -> Nat], zap: BOOLEAN, percent: Nat]
        /\ Paid(targets') = {}
    BY <2>1, <2>2, EmptiedType, PlanType DEF ZapOnly
  <2>4. TypeOK'
    BY <1>0, <1>2, <2>1, <2>3
    DEF WriteReset, Inv, TypeOK, HerdOK, TargetsOK, WorkOK, DayOK, States, herdVars
  <2>5. LockInv'
    BY <1>0, <2>1 DEF Inv, TypeOK, HerdOK, LockInv, Workers, herdVars
  <2>6. \A w \in Recomputes : pc[w] # "writing"
    BY <1>0, <2>1 DEF Inv, LockInv, Workers
  <2>7. GateInv' /\ CycleInv'
    BY <1>0, <2>1, <2>3, <2>6 DEF Inv, GateInv, CycleInv, Seated, Paid, herdVars
  <2> QED
    BY <2>4, <2>5, <2>7 DEF Inv
<1>3. CASE ClearPending
  <2>1. /\ UNCHANGED <<targetVars, lock, read>> /\ pc["reset"] = "marking" /\ ~pending'
        /\ pc'["reset"] = "none" /\ gate' = Free
    BY <1>0, <1>3 DEF ClearPending
  <2>2. TypeOK'
    BY <1>0, <1>3, <2>1
    DEF ClearPending, Inv, TypeOK, HerdOK, TargetsOK, WorkOK, DayOK, States, herdVars, targetVars
  <2>3. LockInv'
    BY <1>0, <2>1 DEF Inv, LockInv, Workers, herdVars, targetVars
  <2>4. GateInv' /\ CycleInv'
    BY <1>0, <2>1 DEF Inv, GateInv, CycleInv, Seated, Paid, herdVars, targetVars
  <2> QED
    BY <2>2, <2>3, <2>4 DEF Inv
<1>4. CASE ResetFails
  <2>1. /\ UNCHANGED <<targetVars, pending>> /\ pc["reset"] = "writing" /\ lock' = Free
        /\ pc'["reset"] = "none" /\ gate' = Free /\ read'["reset"] = Blank /\ lock = "reset"
    BY <1>0, <1>4 DEF ResetFails, Inv, LockInv
  <2>2. TypeOK'
    BY <1>0, <1>4, <2>1
    DEF ResetFails, Inv, TypeOK, HerdOK, TargetsOK, WorkOK, DayOK, States, herdVars, targetVars
  <2>3. LockInv'
    BY <1>0, <2>1 DEF Inv, TypeOK, HerdOK, LockInv, Workers, herdVars, targetVars
  <2>4. \A w \in Recomputes : pc[w] # "writing"
    BY <1>0, <2>1 DEF Inv, LockInv, Workers
  <2>5. GateInv' /\ CycleInv'
    BY <1>0, <2>1, <2>4 DEF Inv, GateInv, CycleInv, Seated, Paid, herdVars, targetVars
  <2> QED
    BY <2>2, <2>3, <2>5 DEF Inv
<1> QED
  BY <1>1, <1>2, <1>3, <1>4 DEF Reset

(* The clock, and the crash: what was read and locked is gone. *)
LEMMA ClockKeeps ==
  ASSUME Inv, Midnight \/ DayAlreadyReady
  PROVE  Inv'
<1>0. today \in Nat
  BY DEF Inv, TypeOK, DayOK
<1>1. /\ UNCHANGED <<herdVars, targetVars, workVars, gate, markedDay, pending, up, faults>>
      /\ today' \in Nat
  BY <1>0 DEF Midnight, DayAlreadyReady
<1>2. awake' \in BOOLEAN
  BY ResetAssumption, Zenon DEF Midnight, DayAlreadyReady
<1> QED
  BY <1>1, <1>2
  DEF Inv, TypeOK, HerdOK, TargetsOK, WorkOK, DayOK, States, LockInv, GateInv, CycleInv,
      Seated, Paid, herdVars, targetVars, workVars

LEMMA CrashKeeps ==
  ASSUME Inv, Crash
  PROVE  Inv'
<1>0. /\ UNCHANGED <<herdVars, targets, written, today, markedDay, pending>>
      /\ pc' = [w \in Workers |-> "none"] /\ read' = [w \in Workers |-> Blank]
      /\ lock' = Free /\ owed' = {} /\ cache' = {} /\ gate' = Free
      /\ up' = FALSE /\ faults' \in Nat
      /\ Blank \in [version: Nat, state: States] /\ Blank.version = 0
      /\ "reset" \in Workers /\ Free \notin Workers
  BY BlankType DEF Crash, Inv, TypeOK, HerdOK, DayOK, Workers, Recomputes, Free, Blank
<1>1. awake' \in BOOLEAN
  BY ResetAssumption, Zenon DEF Crash
<1>2. TypeOK'
  BY <1>0, <1>1 DEF Inv, TypeOK, HerdOK, TargetsOK, WorkOK, DayOK, States, herdVars
<1>3. LockInv'
  BY <1>0 DEF Inv, TypeOK, HerdOK, LockInv, herdVars
<1>4. GateInv' /\ CycleInv'
  BY <1>0 DEF Inv, GateInv, CycleInv, Seated, Paid, Workers, herdVars
<1> QED
  BY <1>2, <1>3, <1>4 DEF Inv

LEMMA NextKeeps == Inv /\ [Next]_vars => Inv'
<1> SUFFICES ASSUME Inv, [Next]_vars
             PROVE  Inv'
  OBVIOUS
<1>1. CASE UNCHANGED vars
  BY <1>1
  DEF Inv, TypeOK, HerdOK, TargetsOK, WorkOK, DayOK, States, LockInv, GateInv, CycleInv,
      Seated, Paid, vars
<1> QED
  BY <1>1, HerdKeeps, StartKeeps, RecomputeKeeps, ResetStarts, ResetKeeps, ClockKeeps,
     CrashKeeps DEF Next, Faulty

LEMMA Invariant == Spec => []Inv
  BY InitInv, NextKeeps, PTL DEF Spec

-----------------------------------------------------------------------------
(* Every variable keeps its type; in particular the signature cache holds at  *)
(* most one signature, the last one written.                                  *)
THEOREM SplitsTypeCorrect == Spec => []TypeOK
<1>1. Inv => TypeOK
  BY DEF Inv
<1> QED
  BY <1>1, Invariant, PTL

(* With daily resets, when ensure_membership_day lets anyone pass, nobody who *)
(* held no seat since the last reset is paid, whatever recompute was under    *)
(* way at the reset, whatever failed and wherever the process died.           *)
THEOREM FormerMembersUnpaid ==
  ASSUME ResetEnabled
  PROVE  Spec => []PaysOnlyThisCycle
<1>1. Inv => PaysOnlyThisCycle
  BY DEF Inv, CycleInv, PaysOnlyThisCycle, DayReady
<1> QED
  BY <1>1, Invariant, PTL

(* Whichever workers race for the target lock, a write never rests on an      *)
(* older version of the herd than the write before it.                        *)
THEOREM TargetsNeverGoBack == Spec => TargetsMoveForward
<1>1. Inv /\ [Next]_vars => [written' >= written]_vars
  <2> SUFFICES ASSUME Inv, Next
               PROVE  written' >= written
    OBVIOUS
  <2>0. written \in Nat /\ \A w \in Workers : read[w].version \in Nat
    BY DEF Inv, TypeOK, TargetsOK, WorkOK
  <2>1. ASSUME NEW w \in Recomputes, WritePlan(w)
        PROVE  written' >= written
    BY <2>0, <2>1 DEF WritePlan, Inv, LockInv, Workers
  <2>2. CASE WriteReset
    BY <2>0, <2>2 DEF WriteReset, Inv, LockInv, Workers
  <2>3. CASE written' = written
    BY <2>0, <2>3
  <2> QED
    BY <2>1, <2>2, <2>3
    DEF Next, Herd, Admit, Manage, Post, SaveSettings, Change, Schedule, Wake, StartDirect,
        Recompute, ReadSettings, ReadMembers, EnsureDay, DayAlreadyReady, ManualReset, Reset,
        ForgetSignature, ClearPending, Midnight, Startup, Faulty, Crash, ResetFails,
        WriteFails, targetVars
<1> QED
  BY <1>1, Invariant, PTL DEF Spec, TargetsMoveForward
-----------------------------------------------------------------------------
(* Once all work is over the targets are current.  This needs what the code   *)
(* gives no other way: every change starts a recompute of its own (operator   *)
(* requests only schedule one), no write is given up, and the targets are     *)
(* never cleared for want of a zap wallet.                                    *)

EveryChangeRecomputes ==
  /\ {"manage", "post"} \cap Operations = {} /\ "write" \notin Faults
  /\ \A pol \in Policies : pol.zap

\* Recompute w, which holds the target lock, will leave the targets current.
UpToDate(w) ==
  \/ pc[w] = "reading" /\ read[w].state.policy = policy
  \/ pc[w] = "writing" /\ PlanOf(read[w].state) = Plan

\* Work is to come that reads the herd after everything committed so far.  An
\* owed debounced recompute is not: the one that is running may absorb it.
Coming ==
  \/ "direct" \in owed
  \/ \E w \in Recomputes : pc[w] \in {"sleeping", "queued"}
  \/ pending /\ pc["reset"] \in {"none", "queued"}
  \/ ~up /\ pc["startup"] = "none"

\* The targets are current, or will be once the holder of the target lock has
\* written, or work is to come.
CoverInv ==
  /\ lock \in Recomputes => UpToDate(lock) \/ Coming
  /\ lock = "reset" => read["reset"].state.policy = policy \/ Coming
  /\ lock = Free => targets = Plan \/ Coming

\* The lock is held exactly by whoever is between its reading and its writing.
HolderInv ==
  /\ \A w \in Recomputes : lock = w <=> pc[w] \in {"reading", "writing"}
  /\ lock = "reset" <=> pc["reset"] = "writing"
  /\ pc["reset"] \in {"none", "queued", "writing", "marking"}
  /\ \A w \in Recomputes : pc[w] # "marking"

\* A reset, and a day that is not ready, find the seats empty.
EmptyInv == pc["reset"] # "none" \/ (ResetEnabled /\ pending) => Seated(points) = {}

\* The cached signature is that of the targets.
CacheInv == /\ \A sig \in cache : targets = PlanOf(sig)
            /\ pc["reset"] = "writing" => cache = {}

TargetsInv == CoverInv /\ HolderInv /\ EmptyInv /\ CacheInv

CurrentInv == Inv /\ TargetsInv

(* The targets depend on who is eligible, with what points, and the policy. *)
LEMMA SamePlan ==
  ASSUME NEW s, NEW t, t.policy = s.policy,
         Seated(t.points) \cap t.addressed = Seated(s.points) \cap s.addressed,
         \A p \in Seated(s.points) \cap s.addressed : t.points[p] = s.points[p]
  PROVE  PlanOf(t) = PlanOf(s)
<1> DEFINE eligible == Seated(s.points) \cap s.addressed
<1>1. [p \in People |-> IF p \in eligible THEN t.points[p] ELSE 0]
        = [p \in People |-> IF p \in eligible THEN s.points[p] ELSE 0]
  OBVIOUS
<1> QED
  BY <1>1 DEF PlanOf

(* A signature determines the targets. *)
LEMMA SignatureDecides ==
  ASSUME NEW s
  PROVE  PlanOf(Signature(s)) = PlanOf(s)
<1>1. PICK t : t = Signature(s)
  OBVIOUS
<1>2. t.points = s.points /\ t.addressed = s.addressed \cap Seated(s.points)
      /\ t.policy = s.policy
  BY <1>1 DEF Signature
<1>3. PlanOf(t) = PlanOf(s)
  BY <1>2, SamePlan
<1> QED
  BY <1>1, <1>3

(* Without seats everything goes to the zap wallet, whoever has an address. *)
LEMMA NoSeatsNoShares ==
  ASSUME Seated(points) = {}
  PROVE  Plan = ZapOnly(policy)
<1>1. PICK s, t : s = Snapshot /\ t = Emptied(policy)
  OBVIOUS
<1>2. Seated(t.points) = {} /\ t.policy = policy
  BY <1>1 DEF Emptied, Seated
<1>3. s.policy = policy /\ Seated(s.points) = {}
  BY <1>1 DEF Snapshot
<1>4. PlanOf(s) = PlanOf(t)
  BY <1>2, <1>3, SamePlan
<1> QED
  BY <1>1, <1>4 DEF Plan, ZapOnly

LEMMA InitCurrent == Init => TargetsInv
<1> SUFFICES ASSUME Init
             PROVE  TargetsInv
  OBVIOUS
<1>1. Seated(points) = {}
  BY DEF Init, Seated
<1>2. targets = Plan
  BY <1>1, NoSeatsNoShares DEF Init
<1> QED
  BY <1>1, <1>2
  DEF Init, TargetsInv, CoverInv, HolderInv, EmptyInv, CacheInv, Workers, Recomputes, Free

(* A change of members or settings owes a direct recompute; while a reset is *)
(* under way or the day not ready, nobody is admitted.                       *)
LEMMA ChangeCovered ==
  ASSUME CurrentInv, EveryChangeRecomputes, Herd
  PROVE  TargetsInv'
<1>1. ASSUME NEW p \in People, NEW n \in Points, NEW victims, Admit(p, n, victims)
      PROVE  TargetsInv'
  <2>1. /\ "direct" \in owed'
        /\ UNCHANGED <<targets, cache, pc, read, lock, pending>>
    BY <1>1 DEF Admit, Change, targetVars, dayVars
  <2>2. pc["reset"] = "none" /\ ~(ResetEnabled /\ pending)
    BY <1>1 DEF Admit, DayReady, CurrentInv, Inv, GateInv
  <2> QED
    BY <2>1, <2>2
    DEF CurrentInv, TargetsInv, CoverInv, Coming, HolderInv, EmptyInv, CacheInv
<1>2. ASSUME NEW pol \in Policies, SaveSettings(pol)
      PROVE  TargetsInv'
  <2>1. /\ "direct" \in owed'
        /\ UNCHANGED <<targets, cache, pc, read, lock, pending, points>>
    BY <1>2 DEF SaveSettings, Change, targetVars, dayVars
  <2> QED
    BY <2>1
    DEF CurrentInv, TargetsInv, CoverInv, Coming, HolderInv, EmptyInv, CacheInv, Seated
<1>3. ~(\E p \in People, n \in Points \cup {0} : Manage(p, n))
      /\ ~(\E p \in People, n \in Points : Post(p, n))
  BY DEF EveryChangeRecomputes, Manage, Post
<1> QED
  BY <1>1, <1>2, <1>3 DEF Herd

(* What keeps the plan and everything that its targets rest on. *)
LEMMA SameHerdSamePlan ==
  ASSUME UNCHANGED <<points, addressed, policy>>
  PROVE  Plan' = Plan /\ Seated(points)' = Seated(points)
  BY DEF Plan, Snapshot, Seated, PlanOf

(* Starting a recompute: what is owed is under way. *)
LEMMA StartCovered ==
  ASSUME CurrentInv, Schedule \/ Wake \/ StartDirect \/ Startup
  PROVE  TargetsInv'
<1>0. UNCHANGED <<points, addressed, policy, targets, cache, read, lock, pending, up>>
  BY DEF Schedule, Wake, StartDirect, Startup, herdVars, targetVars, dayVars
<1>1. /\ "reset" \in Workers /\ "reset" \notin Recomputes
      /\ pc \in [Workers -> {"none", "sleeping", "queued", "reading", "writing", "marking"}]
  BY DEF CurrentInv, Inv, TypeOK, WorkOK, Workers, Recomputes
<1>2. CASE Schedule /\ pc["debounced"] # "none"
  <2>1. pc' = pc /\ owed' = owed \ {"debounced"}
    BY <1>2 DEF Schedule
  <2>2. UpToDate(lock)' = UpToDate(lock) /\ Coming' = Coming
    BY <1>0, <2>1, SameHerdSamePlan DEF UpToDate, Coming
  <2> QED
    BY <1>0, <2>1, <2>2, SameHerdSamePlan
    DEF CurrentInv, TargetsInv, CoverInv, HolderInv, EmptyInv, CacheInv
<1>3. ASSUME NEW w \in Recomputes, NEW step \in {"sleeping", "queued"},
             pc[w] \in {"none", "sleeping"}, pc' = [pc EXCEPT ![w] = step]
      PROVE  TargetsInv'
  <2>1. /\ pc'[w] = step /\ \A x \in Workers : x # w => pc'[x] = pc[x]
        /\ pc'["reset"] = pc["reset"]
    BY <1>1, <1>3 DEF Workers
  <2>2. Coming'
    BY <2>1 DEF Coming
  <2> QED
    BY <1>0, <1>3, <2>1, <2>2, SameHerdSamePlan
    DEF CurrentInv, TargetsInv, CoverInv, HolderInv, EmptyInv, CacheInv, Workers
<1> QED
  BY <1>2, <1>3 DEF Schedule, Wake, StartDirect, Startup, Recomputes

(* A recompute leaves the targets current, unless a later one is to come. *)
LEMMA RecomputeCovered ==
  ASSUME CurrentInv, EveryChangeRecomputes, NEW w \in Recomputes, Recompute(w)
  PROVE  TargetsInv'
<1>0. /\ w \in Workers /\ w # "reset" /\ "reset" \in Workers /\ Free \notin Workers
      /\ pc \in [Workers -> {"none", "sleeping", "queued", "reading", "writing", "marking"}]
      /\ read \in [Workers -> [version: Nat, state: States]]
  BY DEF CurrentInv, Inv, TypeOK, WorkOK, Workers, Recomputes, Free
<1>1. /\ UNCHANGED <<points, addressed, policy, owed, pending>>
      /\ Plan' = Plan /\ Seated(points)' = Seated(points)
  BY SameHerdSamePlan
  DEF Recompute, ReadSettings, ReadMembers, WritePlan, herdVars, dayVars
<1>2. EmptyInv'
  <2>1. pc'["reset"] = pc["reset"]
    BY <1>0 DEF Recompute, ReadSettings, ReadMembers, WritePlan, Done
  <2> QED
    BY <1>1, <2>1 DEF CurrentInv, TargetsInv, EmptyInv
<1>3. CASE ReadSettings(w)
  <2>1. /\ lock' = w /\ pc' = [pc EXCEPT ![w] = "reading"] /\ lock = Free
        /\ read' = [read EXCEPT ![w] = [version |-> changes, state |-> Snapshot]]
        /\ UNCHANGED <<targets, cache, up>>
    BY <1>3 DEF ReadSettings, targetVars
  <2>2. /\ pc'[w] = "reading" /\ \A x \in Workers : x # w => pc'[x] = pc[x]
        /\ read'[w].state.policy = policy
    BY <1>0, <2>1 DEF Snapshot
  <2>3. CoverInv'
    BY <1>0, <1>1, <2>1, <2>2 DEF CoverInv, UpToDate, Recomputes
  <2>4. HolderInv'
    BY <1>0, <2>1, <2>2 DEF CurrentInv, TargetsInv, HolderInv, Workers
  <2>5. CacheInv'
    BY <1>0, <2>1, <2>2 DEF CurrentInv, TargetsInv, CacheInv
  <2> QED
    BY <1>2, <2>3, <2>4, <2>5 DEF TargetsInv
\* The recompute is over, and its targets are those of what it has seen.
<1>4. ASSUME pc[w] \in {"reading", "writing"}, Done(w), UpToDate(w) => targets' = Plan,
             \A sig \in cache' : targets' = PlanOf(sig)
      PROVE  TargetsInv'
  <2>1. lock = w /\ lock' = Free
    BY <1>4 DEF CurrentInv, TargetsInv, HolderInv, Done
  <2>2. pc'[w] = "none" /\ \A x \in Workers : x # w => pc'[x] = pc[x]
    BY <1>0, <1>4 DEF Done
  <2>3. Coming => Coming'
    <3>1. /\ "startup" \in Recomputes /\ Recomputes \subseteq Workers
          /\ \A x \in Recomputes : pc[x] \in {"sleeping", "queued"} => pc'[x] = pc[x]
          /\ pc'["reset"] = pc["reset"]
      BY <1>0, <1>4, <2>2 DEF Workers, Recomputes
    <3>2. ASSUME ~up, pc["startup"] = "none"
          PROVE  ~up' /\ pc'["startup"] = "none"
      <4>1. w # "startup"
        BY <1>4, <3>2
      <4>2. up' = (up \/ w = "startup")
        BY <1>4 DEF Done
      <4>3. ~up'
        BY <3>2, <4>1, <4>2, Zenon
      <4> QED
        BY <2>2, <3>1, <3>2, <4>1, <4>3
    <3>3. ASSUME NEW x \in Recomputes, pc[x] \in {"sleeping", "queued"}
          PROVE  Coming'
      BY <3>1, <3>3 DEF Coming
    <3> QED
      BY <1>1, <3>1, <3>2, <3>3 DEF Coming
  <2>4. CoverInv'
    BY <1>0, <1>1, <1>4, <2>1, <2>3 DEF CurrentInv, TargetsInv, CoverInv, Workers
  <2>5. HolderInv'
    BY <1>0, <2>1, <2>2 DEF CurrentInv, TargetsInv, HolderInv, Workers
  <2>6. CacheInv'
    BY <1>0, <1>4, <2>1, <2>2 DEF CurrentInv, TargetsInv, HolderInv, CacheInv
  <2> QED
    BY <1>2, <2>4, <2>5, <2>6 DEF TargetsInv
<1>5. CASE ReadMembers(w)
  <2>0. PICK seen : seen = [points |-> points, addressed |-> addressed,
                            policy |-> read[w].state.policy]
    OBVIOUS
  <2>1. pc[w] = "reading" /\ UNCHANGED <<targets, cache>>
    BY <1>5 DEF ReadMembers, targetVars
  <2>2. UpToDate(w) => PlanOf(seen) = Plan
    BY <2>0, <2>1 DEF UpToDate, Plan, Snapshot
  <2>3. CASE Signature(seen) \in cache /\ w # "startup"
    <3>1. Done(w)
      BY <1>5, <2>0, <2>3 DEF ReadMembers
    <3>2. targets = PlanOf(Signature(seen)) /\ \A sig \in cache : targets = PlanOf(sig)
      BY <2>3 DEF CurrentInv, TargetsInv, CacheInv
    <3> QED
      BY <1>4, <2>1, <2>2, <3>1, <3>2, SignatureDecides
  <2>4. CASE ~(Signature(seen) \in cache /\ w # "startup")
    <3>1. /\ read' = [read EXCEPT ![w] = [version |-> @.version, state |-> seen]]
          /\ pc' = [pc EXCEPT ![w] = "writing"]
          /\ UNCHANGED <<lock, up>>
      BY <1>5, <2>0, <2>4 DEF ReadMembers
    <3>2. /\ pc'[w] = "writing" /\ \A x \in Workers : x # w => pc'[x] = pc[x]
          /\ read'[w].state = seen /\ lock = w
      BY <1>0, <2>1, <3>1 DEF CurrentInv, TargetsInv, HolderInv
    <3>3. Coming => Coming'
      BY <1>0, <1>1, <2>1, <3>1, <3>2 DEF Coming, Workers
    <3>4. UpToDate(w) => UpToDate(w)'
      BY <1>1, <2>2, <3>2 DEF UpToDate, PlanOf, Seated
    <3>5. CoverInv'
      BY <1>0, <3>1, <3>2, <3>3, <3>4 DEF CurrentInv, TargetsInv, CoverInv, Workers
    <3>6. HolderInv'
      BY <1>0, <3>1, <3>2 DEF CurrentInv, TargetsInv, HolderInv, Workers
    <3>7. CacheInv'
      BY <1>0, <2>1, <3>2 DEF CurrentInv, TargetsInv, CacheInv
    <3> QED
      BY <1>2, <3>5, <3>6, <3>7 DEF TargetsInv
  <2> QED
    BY <2>3, <2>4
<1>6. CASE WritePlan(w)
  <2>0. PICK seen : seen = read[w].state
    OBVIOUS
  <2>1. /\ pc[w] = "writing" /\ targets' = PlanOf(seen) /\ Done(w)
        /\ cache' = IF Paid(targets') = {} /\ ~seen.policy.zap THEN cache
                    ELSE {Signature(seen)}
    BY <1>6, <2>0 DEF WritePlan
  <2>2. seen.policy.zap
    BY <1>0, <2>0 DEF States, EveryChangeRecomputes
  <2>3. UpToDate(w) => targets' = Plan
    BY <2>0, <2>1 DEF UpToDate
  <2> QED
    BY <1>4, <2>1, <2>2, <2>3, SignatureDecides
<1> QED
  BY <1>3, <1>5, <1>6 DEF Recompute
(* A reset that starts, or that failed, has its targets still to come. *)
LEMMA ResetStartCovered ==
  ASSUME CurrentInv, EnsureDay \/ ManualReset
  PROVE  TargetsInv'
<1>1. /\ "reset" \in Workers /\ "reset" \notin Recomputes /\ Recomputes \subseteq Workers
      /\ pc \in [Workers -> {"none", "sleeping", "queued", "reading", "writing", "marking"}]
  BY DEF CurrentInv, Inv, TypeOK, WorkOK, Workers, Recomputes
<1>2. /\ UNCHANGED <<targets, cache, read, lock>> /\ pc["reset"] = "none"
      /\ pc'["reset"] = "queued" /\ \A w \in Recomputes : pc'[w] = pc[w]
  BY <1>1
  DEF EnsureDay, ManualReset, StartReset, targetVars, CurrentInv, Inv, GateInv
<1>3. pending' /\ Seated(points') = {}
  <2>1. CASE NewHerd
    BY <2>1 DEF NewHerd, Seated
  <2>2. CASE ~NewHerd
    <3>1. ResetEnabled /\ pending /\ UNCHANGED <<points, pending>>
      BY <2>2 DEF EnsureDay, ManualReset, DayReady, herdVars
    <3> QED
      BY <3>1 DEF CurrentInv, TargetsInv, EmptyInv
  <2> QED
    BY <2>1, <2>2
<1>4. CoverInv'
  BY <1>2, <1>3 DEF CoverInv, Coming
<1>5. HolderInv' /\ CacheInv'
  BY <1>2 DEF CurrentInv, TargetsInv, HolderInv, CacheInv
<1>6. EmptyInv'
  BY <1>3 DEF EmptyInv, Seated
<1> QED
  BY <1>4, <1>5, <1>6 DEF TargetsInv

(* A reset writes what the empty herd is due under the settings it has read. *)
LEMMA ResetCovered ==
  ASSUME CurrentInv, Reset \/ ResetFails
  PROVE  TargetsInv'
<1>0. /\ UNCHANGED <<points, addressed, policy, owed, up>>
      /\ Plan' = Plan /\ Seated(points)' = Seated(points)
  BY SameHerdSamePlan
  DEF Reset, ForgetSignature, WriteReset, ClearPending, ResetFails, herdVars
<1>1. /\ "reset" \in Workers /\ "reset" \notin Recomputes /\ Recomputes \subseteq Workers
      /\ Free \notin Workers
      /\ pc \in [Workers -> {"none", "sleeping", "queued", "reading", "writing", "marking"}]
      /\ read \in [Workers -> [version: Nat, state: States]]
  BY DEF CurrentInv, Inv, TypeOK, WorkOK, Workers, Recomputes, Free
<1>2. /\ pc["reset"] # "none" /\ \A w \in Recomputes : pc'[w] = pc[w] /\ read'[w] = read[w]
      /\ pending /\ Seated(points) = {}
  BY <1>1
  DEF Reset, ForgetSignature, WriteReset, ClearPending, ResetFails, CurrentInv, Inv, GateInv,
      TargetsInv, EmptyInv
<1>3. "startup" \in Recomputes
  BY DEF Recomputes
<1>4. EmptyInv'
  BY <1>0, <1>2 DEF EmptyInv
<1>5. CASE ForgetSignature
  <2>1. /\ lock' = "reset" /\ cache' = {} /\ pc'["reset"] = "writing" /\ lock = Free
        /\ read'["reset"].state.policy = policy
    BY <1>1, <1>5 DEF ForgetSignature, Snapshot
  <2>2. CoverInv'
    BY <1>0, <1>1, <2>1 DEF CoverInv, Free
  <2>3. HolderInv' /\ CacheInv'
    BY <1>1, <1>2, <2>1 DEF CurrentInv, TargetsInv, HolderInv, CacheInv
  <2> QED
    BY <1>4, <2>2, <2>3 DEF TargetsInv
<1>6. CASE WriteReset
  <2>1. /\ targets' = ZapOnly(read["reset"].state.policy) /\ lock' = Free
        /\ pc["reset"] = "writing" /\ pc'["reset"] = "marking"
        /\ UNCHANGED <<cache, pending>>
    BY <1>1, <1>6 DEF WriteReset, dayVars
  <2>2. lock = "reset" /\ cache = {}
    BY <2>1 DEF CurrentInv, TargetsInv, HolderInv, CacheInv
  <2>3. targets' = Plan' \/ Coming'
    <3>1. Coming => Coming'
      BY <1>0, <1>2, <1>3, <2>1 DEF Coming
    <3>2. CASE read["reset"].state.policy = policy
      BY <1>0, <1>2, <2>1, <3>2, NoSeatsNoShares
    <3> QED
      BY <2>2, <3>1, <3>2 DEF CurrentInv, TargetsInv, CoverInv
  <2>4. CoverInv'
    BY <1>1, <2>1, <2>3 DEF CoverInv
  <2>5. HolderInv' /\ CacheInv'
    BY <1>1, <1>2, <2>1, <2>2 DEF CurrentInv, TargetsInv, HolderInv, CacheInv
  <2> QED
    BY <1>4, <2>4, <2>5 DEF TargetsInv
<1>7. CASE ClearPending
  <2>1. /\ UNCHANGED <<targets, cache, read, lock>> /\ pc["reset"] = "marking"
        /\ pc'["reset"] = "none" /\ lock # "reset"
    BY <1>1, <1>7 DEF ClearPending, targetVars, CurrentInv, TargetsInv, HolderInv
  <2>2. Coming => Coming'
    BY <1>0, <1>2, <1>3, <2>1 DEF Coming
  <2>3. \A w \in Recomputes : UpToDate(w) => UpToDate(w)'
    BY <1>0, <1>2, <2>1 DEF UpToDate
  <2>4. CoverInv'
    BY <1>0, <2>1, <2>2, <2>3 DEF CurrentInv, TargetsInv, CoverInv
  <2>5. HolderInv' /\ CacheInv'
    BY <1>2, <2>1 DEF CurrentInv, TargetsInv, HolderInv, CacheInv
  <2> QED
    BY <1>4, <2>4, <2>5 DEF TargetsInv
<1>8. CASE ResetFails
  <2>1. /\ UNCHANGED <<targets, cache, pending>> /\ lock' = Free
        /\ pc["reset"] = "writing" /\ pc'["reset"] = "none"
    BY <1>1, <1>8 DEF ResetFails, targetVars
  <2>2. lock = "reset"
    BY <2>1 DEF CurrentInv, TargetsInv, HolderInv
  <2>3. CoverInv'
    BY <1>1, <1>2, <2>1 DEF CoverInv, Coming
  <2>4. HolderInv' /\ CacheInv'
    BY <1>1, <1>2, <2>1, <2>2 DEF CurrentInv, TargetsInv, HolderInv, CacheInv
  <2> QED
    BY <1>4, <2>3, <2>4 DEF TargetsInv
<1> QED
  BY <1>5, <1>6, <1>7, <1>8 DEF Reset

(* The clock touches nothing of this; after a crash, startup is to come. *)
LEMMA ClockCovered ==
  ASSUME CurrentInv, Midnight \/ DayAlreadyReady \/ UNCHANGED vars
  PROVE  TargetsInv'
<1>0. UNCHANGED <<points, addressed, policy, targets, cache, pc, read, lock, owed, pending, up>>
  BY DEF Midnight, DayAlreadyReady, herdVars, targetVars, workVars, vars
<1>1. UpToDate(lock)' = UpToDate(lock) /\ Coming' = Coming
  BY <1>0, SameHerdSamePlan DEF UpToDate, Coming
<1> QED
  BY <1>0, <1>1, SameHerdSamePlan
  DEF CurrentInv, TargetsInv, CoverInv, HolderInv, EmptyInv, CacheInv

LEMMA CrashCovered ==
  ASSUME CurrentInv, Crash
  PROVE  TargetsInv'
<1>0. /\ UNCHANGED <<points, targets, pending>> /\ lock' = Free /\ cache' = {} /\ ~up'
      /\ \A w \in Workers : pc'[w] = "none"
      /\ "reset" \in Workers /\ "startup" \in Workers /\ Recomputes \subseteq Workers
      /\ Free \notin Workers
  BY DEF Crash, herdVars, Workers, Recomputes, Free
<1>1. CoverInv'
  BY <1>0 DEF CoverInv, Coming
<1>2. HolderInv' /\ CacheInv'
  BY <1>0 DEF HolderInv, CacheInv
<1>3. EmptyInv'
  BY <1>0 DEF CurrentInv, TargetsInv, EmptyInv, Seated
<1> QED
  BY <1>1, <1>2, <1>3 DEF TargetsInv

LEMMA NextCurrent ==
  ASSUME EveryChangeRecomputes
  PROVE  CurrentInv /\ [Next]_vars => CurrentInv'
<1> SUFFICES ASSUME CurrentInv, [Next]_vars
             PROVE  CurrentInv'
  OBVIOUS
<1>1. Inv'
  BY NextKeeps DEF CurrentInv
<1>2. \A w \in Recomputes : ~WriteFails(w)
  BY DEF EveryChangeRecomputes, WriteFails
<1>3. TargetsInv'
  BY <1>2, ChangeCovered, StartCovered, RecomputeCovered, ResetStartCovered, ResetCovered,
     ClockCovered, CrashCovered DEF Next, Faulty
<1> QED
  BY <1>1, <1>3 DEF CurrentInv

(* Once every recompute and reset is over, the targets are those of the       *)
(* current members and settings: whatever snapshots were taken early, writes  *)
(* skipped for an unchanged signature, resets failed and processes died.      *)
THEOREM QuietTargetsCurrent ==
  ASSUME EveryChangeRecomputes
  PROVE  Spec => []QuietMeansCurrent
<1>1. CurrentInv => QuietMeansCurrent
  <2> SUFFICES ASSUME CurrentInv, Quiet
               PROVE  targets = Plan
    BY DEF QuietMeansCurrent
  <2>1. /\ lock \in Workers \cup {Free} /\ Recomputes \subseteq Workers
        /\ "startup" \in Workers /\ "reset" \in Workers
    BY DEF CurrentInv, Inv, TypeOK, WorkOK, Workers, Recomputes
  <2>2. lock = Free
    BY <2>1 DEF Quiet, CurrentInv, TargetsInv, HolderInv, Workers
  <2>3. ~Coming
    BY <2>1 DEF Quiet, Coming
  <2> QED
    BY <2>2, <2>3 DEF CurrentInv, TargetsInv, CoverInv
<1>2. Init => CurrentInv
  BY InitInv, InitCurrent DEF CurrentInv
<1> QED
  BY <1>1, <1>2, NextCurrent, PTL DEF Spec
=============================================================================
