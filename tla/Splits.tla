------------------------------- MODULE Splits -------------------------------
(***************************************************************************)
(* The split targets of one herd: how the payout targets that the external *)
(* SplitPayments extension holds for the source wallet follow the members, *)
(* the allocation settings and the resets.                                 *)
(*                                                                         *)
(* Three kinds of work write the targets, one at a time under the target   *)
(* lock: the debounced recompute, the direct recompute (after an           *)
(* admission, a settings change and at startup) and the reset that follows *)
(* a new day or a manual reset.  Each takes its snapshot and writes it in  *)
(* separate steps, so members and settings change in between.  A reset     *)
(* commits the membership first and marks the split work pending; both run *)
(* under the admission lock, here the gate.                                *)
(*                                                                         *)
(* The points of a member stand for amount and engagement; rounding of     *)
(* percentages is not modelled.  The herd has a source wallet.             *)
(***************************************************************************)
EXTENDS Naturals, FiniteSets

CONSTANTS
  People,        \* pubkeys
  Points,        \* the points a seated member may hold
  Policies,      \* allocation settings: [zap: BOOLEAN, percent: Nat]
  Operations,    \* which changes occur
  Faults,        \* what fails: "crash", a recompute's "write", a "reset"
  ResetEnabled,  \* midnight_reset_enabled
  MaxChanges,    \* bound on membership and settings changes
  MaxFaults,     \* bound on failed writes and crashes
  MaxDay         \* bound on local days

Recomputes == {"debounced", "direct", "startup"}
Workers == Recomputes \cup {"reset"}
Free == "free"

ASSUME PointsAssumption == Points \subseteq Nat \ {0}
ASSUME PolicyAssumption == Policies \subseteq [zap: BOOLEAN, percent: Nat]
ASSUME ResetAssumption == ResetEnabled \in BOOLEAN
ASSUME BoundsAssumption == MaxChanges \in Nat /\ MaxFaults \in Nat /\ MaxDay \in Nat

VARIABLES
  points,     \* cyber_herd: points of each active unbanned member, else 0
  addressed,  \* cyber_herd: who has a valid lightning address
  policy,     \* settings: zap_wallet configured or not, member percentage
  joined,     \* history: who held a seat since the last reset
  changes,    \* counts the committed changes: the version of the above
  targets,    \* SplitPayments' table: a plan, or NoTargets
  written,    \* history: the version the targets were computed from
  cache,      \* _split_signature_cache: {} or {a signature}
  pc,         \* where each worker is
  read,       \* what each worker has read
  lock,       \* the worker that holds the target lock, or Free
  owed,       \* recomputes a committed change still has to start
  gate,       \* who holds the admission lock across steps, or Free
  today, markedDay,  \* local day and membership_reset_days.local_day
  pending,    \* membership_reset_days.splits_pending
  awake,      \* the midnight task has a day to catch up
  up,         \* startup has refreshed the targets, intake runs
  faults      \* counts failed writes and crashes

herdVars == <<points, addressed, policy, joined, changes>>
targetVars == <<targets, written, cache>>
workVars == <<pc, read, lock, owed>>
dayVars == <<gate, today, markedDay, pending, awake>>
vars == <<points, addressed, policy, joined, changes, targets, written, cache, pc,
          read, lock, owed, gate, today, markedDay, pending, awake, up, faults>>

-----------------------------------------------------------------------------
(* Plans and signatures.                                                   *)

Seated(pts) == {p \in People : pts[p] > 0}

\* Who is paid what: points of the eligible members, and the rest to the zap
\* wallet.  Without eligible members everything goes to the zap wallet.
PlanOf(s) ==
  LET eligible == Seated(s.points) \cap s.addressed IN
  [pays |-> [p \in People |-> IF p \in eligible THEN s.points[p] ELSE 0],
   zap |-> s.policy.zap,
   percent |-> IF eligible # {} /\ s.policy.zap THEN s.policy.percent ELSE 100]

Paid(plan) == {p \in People : plan.pays[p] > 0}

\* Fault: only who is seated counts, as when amounts were left out.
SignatureOfSeats(s) ==
  [points |-> Seated(s.points), addressed |-> s.addressed \cap Seated(s.points),
   policy |-> s.policy]

\* What _compute_signature hashes: the active members and the settings.
Signature(s) ==
  [points |-> s.points, addressed |-> s.addressed \cap Seated(s.points),
   policy |-> s.policy]

Snapshot == [points |-> points, addressed |-> addressed, policy |-> policy]

\* What the targets would be, were they computed now.
Plan == PlanOf(Snapshot)

Emptied(pol) == [points |-> [p \in People |-> 0], addressed |-> {}, policy |-> pol]

ZapOnly(pol) == PlanOf(Emptied(pol))

Blank == [version |-> 0, state |-> Emptied(CHOOSE pol \in Policies : TRUE)]

Due == ResetEnabled /\ markedDay < today

\* ensure_membership_day has nothing left to do, or the herd has not opted in.
DayReady == ~Due /\ (ResetEnabled => ~pending)

-----------------------------------------------------------------------------
Init ==
  /\ points = [p \in People |-> 0] /\ addressed = {} /\ policy \in Policies
  /\ joined = {} /\ changes = 0
  /\ targets = ZapOnly(policy) /\ written = 0 /\ cache = {}
  /\ pc = [w \in Workers |-> "none"]
  /\ read = [w \in Workers |-> Blank]
  /\ lock = Free /\ owed = {}
  /\ gate = Free /\ today = 0 /\ markedDay = 0 /\ pending = FALSE /\ awake = FALSE
  /\ up = TRUE /\ faults = 0

-----------------------------------------------------------------------------
(* Committed changes, and the recomputes they owe.                         *)

Change(owes) ==
  /\ changes < MaxChanges
  /\ changes' = changes + 1
  /\ joined' = joined \cup Seated(points')
  /\ owed' = owed \cup owes
  /\ UNCHANGED <<targetVars, pc, read, lock, dayVars, up, faults>>

\* An admission under the admission lock, day caught up: a member's points
\* grow, or a newcomer is seated and one other member may lose the seat.  After
\* the commit it schedules a recompute and runs one itself.
Admit(p, n, victims) ==
  /\ "admit" \in Operations
  /\ up /\ gate = Free /\ DayReady
  /\ points[p] < n
  /\ victims # {} => points[p] = 0
  /\ points' = [q \in People |-> IF q \in victims THEN 0
                                 ELSE IF q = p THEN n ELSE points[q]]
  /\ addressed' \in {addressed, addressed \cup {p}}
  /\ UNCHANGED policy
  /\ Change({"debounced", "direct"})

\* An operator bans, unbans, deletes, deactivates, activates or re-weighs a
\* member: without the admission lock, and a recompute is only scheduled.  A
\* member without an address changes no target, whatever the points.
Manage(p, n) ==
  /\ "manage" \in Operations /\ points[p] # n
  /\ n = 0 \/ p \in addressed
  /\ points' = [points EXCEPT ![p] = n]
  /\ UNCHANGED <<addressed, policy>>
  /\ Change({"debounced"})

\* Posting a member replaces the address by what the profile lookup found, and
\* schedules a recompute only when there is one.
Post(p, n) ==
  /\ "post" \in Operations
  /\ points' = [points EXCEPT ![p] = n]
  /\ addressed' \in {addressed \cup {p}, addressed \ {p}}
  /\ UNCHANGED policy
  /\ Change(IF p \in addressed' THEN {"debounced"} ELSE {})

\* Saving settings schedules a recompute and runs one.
SaveSettings(pol) ==
  /\ "settings" \in Operations /\ pol # policy
  /\ policy' = pol
  /\ UNCHANGED <<points, addressed>>
  /\ Change({"debounced", "direct"})

-----------------------------------------------------------------------------
(* Recomputes.                                                             *)

\* schedule_split_recompute starts no second task while one is not done.
Schedule ==
  /\ "debounced" \in owed
  /\ owed' = owed \ {"debounced"}
  /\ pc' = IF pc["debounced"] = "none" THEN [pc EXCEPT !["debounced"] = "sleeping"] ELSE pc
  /\ UNCHANGED <<herdVars, targetVars, read, lock, dayVars, up, faults>>

Wake ==
  /\ pc["debounced"] = "sleeping"
  /\ pc' = [pc EXCEPT !["debounced"] = "queued"]
  /\ UNCHANGED <<herdVars, targetVars, read, lock, owed, dayVars, up, faults>>

StartDirect ==
  /\ "direct" \in owed /\ pc["direct"] = "none"
  /\ owed' = owed \ {"direct"}
  /\ pc' = [pc EXCEPT !["direct"] = "queued"]
  /\ UNCHANGED <<herdVars, targetVars, read, lock, dayVars, up, faults>>

\* Fault: the target lock is not taken.
ReadSettingsUnlocked(w) ==
  /\ w \in Recomputes
  /\ pc[w] = "queued"
  /\ lock' = lock
  /\ read' = [read EXCEPT ![w] = [version |-> changes, state |-> Snapshot]]
  /\ pc' = [pc EXCEPT ![w] = "reading"]
  /\ UNCHANGED <<herdVars, targetVars, owed, dayVars, up, faults>>

\* A recompute takes the target lock and reads the settings.
ReadSettings(w) ==
  /\ w \in Recomputes
  /\ pc[w] = "queued" /\ lock = Free
  /\ lock' = w
  /\ read' = [read EXCEPT ![w] = [version |-> changes, state |-> Snapshot]]
  /\ pc' = [pc EXCEPT ![w] = "reading"]
  /\ UNCHANGED <<herdVars, targetVars, owed, dayVars, up, faults>>

Done(w) == /\ pc' = [pc EXCEPT ![w] = "none"]
           /\ read' = [read EXCEPT ![w] = Blank]
           /\ lock' = Free
           /\ up' = (up \/ w = "startup")

\* It reads the members, and stops if the signature is the cached one (the
\* refresh at startup is strict and never stops here).
ReadMembers(w) ==
  LET seen == [points |-> points, addressed |-> addressed,
               policy |-> read[w].state.policy]
  IN
  /\ w \in Recomputes /\ pc[w] = "reading"
  /\ IF Signature(seen) \in cache /\ w # "startup"
       THEN Done(w)
       ELSE /\ read' = [read EXCEPT ![w] = [version |-> @.version, state |-> seen]]
            /\ pc' = [pc EXCEPT ![w] = "writing"]
            /\ UNCHANGED <<lock, up>>
  /\ UNCHANGED <<herdVars, targetVars, owed, dayVars, faults>>

\* Fault: earlier signatures are kept.
WritePlanKeepsSignatures(w) ==
  LET seen == read[w].state IN
  /\ w \in Recomputes /\ pc[w] = "writing"
  /\ targets' = PlanOf(seen)
  /\ written' = read[w].version
  /\ cache' = IF Paid(targets') = {} /\ ~seen.policy.zap THEN cache
              ELSE cache \cup {Signature(seen)}
  /\ Done(w)
  /\ UNCHANGED <<herdVars, owed, dayVars, faults>>

\* It writes the targets and remembers the signature, except when it clears
\* the targets for want of members and zap wallet.
WritePlan(w) ==
  LET seen == read[w].state IN
  /\ w \in Recomputes /\ pc[w] = "writing"
  /\ targets' = PlanOf(seen)
  /\ written' = read[w].version
  /\ cache' = IF Paid(targets') = {} /\ ~seen.policy.zap THEN cache ELSE {Signature(seen)}
  /\ Done(w)
  /\ UNCHANGED <<herdVars, owed, dayVars, faults>>

\* SplitPayments rejects the write.  The strict refresh at startup is retried.
WriteFails(w) ==
  /\ "write" \in Faults /\ faults < MaxFaults /\ faults' = faults + 1
  /\ w \in Recomputes /\ pc[w] = "writing"
  /\ lock' = Free
  /\ pc' = [pc EXCEPT ![w] = IF w = "startup" THEN "queued" ELSE "none"]
  /\ read' = [read EXCEPT ![w] = Blank]
  /\ UNCHANGED <<herdVars, targetVars, owed, dayVars, up>>

-----------------------------------------------------------------------------
(* Resets: membership first, then the targets, then the pending mark.      *)

NewHerd == /\ points' = [p \in People |-> 0] /\ joined' = {}
           /\ changes' = changes + 1
           /\ markedDay' = today /\ pending' = TRUE
           /\ UNCHANGED <<addressed, policy>>

StartReset(who) == gate' = who /\ pc' = [pc EXCEPT !["reset"] = "queued"]

\* ensure_membership_day, whoever calls it.
EnsureDay ==
  /\ gate = Free /\ ~DayReady
  /\ StartReset("daily")
  /\ IF Due THEN NewHerd ELSE UNCHANGED <<herdVars, markedDay, pending>>
  /\ UNCHANGED <<targetVars, read, lock, owed, today, awake, up, faults>>

\* Nothing to do: the midnight task sleeps again.
DayAlreadyReady ==
  /\ gate = Free /\ DayReady /\ awake
  /\ awake' = FALSE
  /\ UNCHANGED <<herdVars, targetVars, workVars, gate, today, markedDay, pending, up, faults>>

ManualReset ==
  /\ "reset" \in Operations /\ gate = Free
  /\ changes < MaxChanges
  /\ StartReset("manual")
  /\ NewHerd
  /\ UNCHANGED <<targetVars, read, lock, owed, today, awake, up, faults>>

\* The reset takes the target lock, reads the settings, drops the signature.
ForgetSignature ==
  /\ pc["reset"] = "queued" /\ lock = Free
  /\ lock' = "reset"
  /\ cache' = {}
  /\ read' = [read EXCEPT !["reset"] = [version |-> changes, state |-> Snapshot]]
  /\ pc' = [pc EXCEPT !["reset"] = "writing"]
  /\ UNCHANGED <<herdVars, targets, written, owed, dayVars, up, faults>>

\* Everything to the zap wallet, or to nobody.  The synthetic signature it
\* stores equals no computed one.
WriteReset ==
  /\ pc["reset"] = "writing"
  /\ targets' = ZapOnly(read["reset"].state.policy)
  /\ written' = read["reset"].version
  /\ lock' = Free
  /\ pc' = [pc EXCEPT !["reset"] = "marking"]
  /\ read' = [read EXCEPT !["reset"] = Blank]
  /\ UNCHANGED <<herdVars, cache, owed, dayVars, up, faults>>

\* The pending mark is cleared and the admission lock released.
ClearPending ==
  /\ pc["reset"] = "marking"
  /\ pending' = FALSE
  /\ pc' = [pc EXCEPT !["reset"] = "none"]
  /\ gate' = Free
  /\ UNCHANGED <<herdVars, targetVars, read, lock, owed, today, markedDay, awake, up, faults>>

\* Fault: the failed attempt is forgotten.
ResetFailsForgotten ==
  /\ "reset" \in Faults /\ faults < MaxFaults /\ faults' = faults + 1
  /\ pc["reset"] = "writing"
  /\ pc' = [pc EXCEPT !["reset"] = "none"]
  /\ lock' = Free /\ gate' = Free /\ pending' = FALSE
  /\ read' = [read EXCEPT !["reset"] = Blank]
  /\ UNCHANGED <<herdVars, targetVars, owed, today, markedDay, awake, up>>

\* Fault: the midnight task swallows the exception.
ResetFailsSwallowed ==
  /\ "reset" \in Faults /\ faults < MaxFaults /\ faults' = faults + 1
  /\ pc["reset"] = "writing"
  /\ pc' = [pc EXCEPT !["reset"] = "none"]
  /\ lock' = Free /\ gate' = Free /\ awake' = FALSE
  /\ read' = [read EXCEPT !["reset"] = Blank]
  /\ UNCHANGED <<herdVars, targetVars, owed, today, markedDay, pending, up>>

\* SplitPayments rejects the reset: the exception leaves the work pending.
ResetFails ==
  /\ "reset" \in Faults /\ faults < MaxFaults /\ faults' = faults + 1
  /\ pc["reset"] = "writing"
  /\ pc' = [pc EXCEPT !["reset"] = "none"]
  /\ lock' = Free /\ gate' = Free
  /\ read' = [read EXCEPT !["reset"] = Blank]
  /\ UNCHANGED <<herdVars, targetVars, owed, today, markedDay, pending, awake, up>>

-----------------------------------------------------------------------------
(* The clock and the process.                                              *)

Midnight ==
  /\ today < MaxDay
  /\ today' = today + 1
  /\ awake' = ResetEnabled
  /\ UNCHANGED <<herdVars, targetVars, workVars, gate, markedDay, pending, up, faults>>

\* The process dies with its locks, tasks and cache.
Crash ==
  /\ "crash" \in Faults /\ faults < MaxFaults /\ faults' = faults + 1
  /\ pc' = [w \in Workers |-> "none"] /\ lock' = Free /\ owed' = {}
  /\ read' = [w \in Workers |-> Blank]
  /\ cache' = {} /\ gate' = Free
  /\ up' = FALSE /\ awake' = ResetEnabled
  /\ UNCHANGED <<herdVars, targets, written, today, markedDay, pending>>

\* Startup: the day is caught up, then a strict recompute.
Startup ==
  /\ ~up /\ gate = Free /\ DayReady /\ pc["startup"] = "none"
  /\ pc' = [pc EXCEPT !["startup"] = "queued"]
  /\ awake' = FALSE
  /\ UNCHANGED <<herdVars, targetVars, read, lock, owed, gate, today, markedDay,
                 pending, up, faults>>

-----------------------------------------------------------------------------
Herd == \/ \E p \in People, n \in Points :
             \E victims \in SUBSET (Seated(points) \ {p}) :
               Cardinality(victims) <= 1 /\ Admit(p, n, victims)
        \/ \E p \in People, n \in Points \cup {0} : Manage(p, n)
        \/ \E p \in People, n \in Points : Post(p, n)
        \/ \E pol \in Policies : SaveSettings(pol)

Recompute(w) == ReadSettings(w) \/ ReadMembers(w) \/ WritePlan(w)

Reset == ForgetSignature \/ WriteReset \/ ClearPending

Faulty == Crash \/ ResetFails \/ \E w \in Recomputes : WriteFails(w)

Next == \/ Herd \/ Schedule \/ Wake \/ StartDirect
        \/ \E w \in Recomputes : Recompute(w)
        \/ EnsureDay \/ DayAlreadyReady \/ ManualReset \/ Reset
        \/ Midnight \/ Startup \/ Faulty

\* asyncio runs every task that can run; the midnight and startup tasks are
\* permanent, restarted when they raise.  Nobody has to make a change.
Fairness ==
  /\ WF_vars(Schedule) /\ WF_vars(Wake) /\ WF_vars(StartDirect)
  /\ \A w \in Recomputes : WF_vars(Recompute(w))
  /\ WF_vars(Reset)
  /\ WF_vars((awake \/ ~up) /\ EnsureDay) /\ WF_vars(DayAlreadyReady) /\ WF_vars(Startup)

Spec == Init /\ [][Next]_vars /\ Fairness

-----------------------------------------------------------------------------
(* What the targets promise.                                               *)

States == [points: [People -> Nat], addressed: SUBSET People, policy: Policies]

HerdOK == /\ points \in [People -> Nat] /\ addressed \subseteq People
          /\ policy \in Policies /\ joined \subseteq People /\ changes \in Nat

TargetsOK == /\ targets \in [pays: [People -> Nat], zap: BOOLEAN, percent: Nat]
             /\ written \in Nat
             /\ cache \subseteq States /\ \A a, b \in cache : a = b

WorkOK == /\ pc \in [Workers -> {"none", "sleeping", "queued", "reading", "writing", "marking"}]
          /\ read \in [Workers -> [version: Nat, state: States]]
          /\ lock \in Workers \cup {Free}
          /\ owed \subseteq Recomputes

DayOK == /\ gate \in {Free, "daily", "manual"}
         /\ today \in Nat /\ markedDay \in Nat
         /\ pending \in BOOLEAN /\ awake \in BOOLEAN /\ up \in BOOLEAN
         /\ faults \in Nat

\* Every variable has its type: the cache holds one signature at most.
TypeOK == HerdOK /\ TargetsOK /\ WorkOK /\ DayOK

\* All work that was started or promised is over.
Quiet == /\ up /\ gate = Free /\ owed = {} /\ ~pending
         /\ \A w \in Workers : pc[w] = "none"

\* "Member payouts and split targets are recomputed": once all work is over,
\* the targets are those of the current members and settings, whatever
\* snapshots, skipped signatures and resets came between.
QuietMeansCurrent == Quiet => targets = Plan

\* "Serialize target snapshots/writes and resets so stale work cannot
\* overwrite newer state": no write of the targets rests on an older version
\* of the herd than the write before it.
TargetsMoveForward == [][written' >= written]_vars

\* When ensure_membership_day lets a distribution through, the targets pay
\* nobody who held no seat since the last reset: a failed or interrupted split
\* reset stays recorded until it is repeated.
PaysOnlyThisCycle == gate = Free /\ DayReady => Paid(targets) \subseteq joined

\* A new day reaches an opted-in herd and its targets, whatever fails for a
\* while: the permanent midnight task retries.
NewDayReachesTargets ==
  (markedDay < today /\ ResetEnabled) ~> (markedDay = today /\ ~pending)
=============================================================================
