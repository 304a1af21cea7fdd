-------------------------------- MODULE Herd --------------------------------
(***************************************************************************)
(* The membership core of the CyberHerd extension, for one user's herd:    *)
(* the cyber_herd table with its bans, amounts, kinds and payouts, the     *)
(* engagement awards and observations of the current cycle, the processed- *)
(* event ledger, the admission ("headbutt") lock and the day marker.       *)
(*                                                                         *)
(* Two kinds of events ask for a seat: settled Lightning payments (zaps)   *)
(* and verified social events (kind 6 reposts, kind 7 reactions).  Each is *)
(* first presented outside any lock, waits for the admission lock, enters  *)
(* it (the local day is caught up there) and is then decided in one        *)
(* database transaction.  Operator requests take only the transaction, not *)
(* the admission lock, so they come between any two of those steps.        *)
(*                                                                         *)
(* Time is counted in seconds; a day has DayLength of them.  A note is     *)
(* named by the local day it was published on, and an event refers to the  *)
(* note of the day it was created on.                                      *)
(***************************************************************************)
EXTENDS Naturals, FiniteSets

CONSTANTS
  People,           \* pubkeys, compared as numbers
  Payments,         \* settled invoices that carry a zap request
  Socials,          \* signed reposts and reactions
  Author,           \* who sent each event
  Sats,             \* what each payment is worth
  Kind,             \* 6 (repost) or 7 (reaction) for each social event
  Minimums,         \* the values of minimum_sats the operator uses
  Capacities,       \* the values of max_members the operator uses
  OperatorAmounts,  \* the totals the operator writes by hand
  Operations,       \* the operator requests that occur
  ResetEnabled,     \* midnight_reset_enabled
  TagsConfigured,   \* tracked_tags is not empty
  DayLength,        \* seconds in a day
  MaxTime           \* bound on the clock

Events == Payments \cup Socials
Social == {6, 7}
Idle == "idle"
Never == MaxTime + 1

ASSUME PeopleAssumption == People \subseteq Nat /\ IsFiniteSet(People)
ASSUME EventsAssumption == /\ Payments \cap Socials = {}
                           /\ Idle \notin Events
                           /\ Author \in [Events -> People]
                           /\ Sats \in [Payments -> Nat \ {0}]
                           /\ Kind \in [Socials -> Social]
ASSUME SettingsAssumption == /\ Minimums \subseteq Nat
                             /\ Capacities \subseteq Nat \ {0}
                             /\ OperatorAmounts \subseteq Nat
                             /\ ResetEnabled \in BOOLEAN
                             /\ TagsConfigured \in BOOLEAN
ASSUME TimeAssumption == DayLength \in Nat \ {0} /\ MaxTime \in Nat

VARIABLES
  rows,        \* cyber_herd: the people who have a row
  active,      \* ... whose is_active is 1
  banned,      \* ... whose banned is 1
  hasAddress,  \* ... whose lud16 is a valid lightning address
  amount,      \* ... amount in sats
  kinds,       \* ... kinds, without the zap kind no decision reads
  payouts,     \* ... payouts, as the points they were last computed from
  awards,      \* engagement_awards of the current cycle
  observed,    \* engagement_observations of the current cycle
  ledger,      \* processed_events for payments, and what became of each
  processed,   \* processed_events for social events, with their event_type
  tracked,     \* settings.tracked_event_ids
  minimum,     \* settings.minimum_sats
  capacity,    \* settings.max_members
  markedDay,   \* membership_reset_days.local_day
  cycleStart,  \* member_cycles.started_at
  now,         \* the wall clock
  created,     \* when each event was created or paid, or Never
  waiting,     \* events past their first checks, queued for the lock
  desk,        \* the event whose admission holds the lock, or Idle
  notices,     \* failure notices deferred until after the commit
  told         \* payments whose failure notice was published

memberVars == <<rows, active, banned, hasAddress, amount, kinds, payouts>>
cycleVars == <<awards, observed, tracked, markedDay, cycleStart>>
settingVars == <<minimum, capacity>>
worldVars == <<now, created>>
volatileVars == <<waiting, desk, notices>>
vars == <<rows, active, banned, hasAddress, amount, kinds, payouts, awards,
          observed, tracked, markedDay, cycleStart, minimum, capacity, now,
          created, waiting, desk, notices, ledger, processed, told>>

-----------------------------------------------------------------------------
(* Days, notes and the score a payout is computed from.                    *)

Day(t) == t \div DayLength
Today == Day(now)
DayStart(d) == d * DayLength
NoteOf(e) == Day(created[e])

Happened(e) == created[e] # Never

\* An opted-in herd whose marker is behind the local day.
DayDue == ResetEnabled /\ markedDay < Today

Larger(a, b) == IF a > b THEN a ELSE b

Payable == (active \ banned) \cap hasAddress

SocialPoints(ks) == (IF 6 \in ks THEN 3 ELSE 0) + (IF 7 \in ks THEN 1 ELSE 0)

Points == [p \in People |->
             IF p \in Payable
               THEN 10 * amount[p] + Larger(1, minimum) * SocialPoints(awards[p])
               ELSE 0]

\* The member with the least amount, the smaller pubkey among equals.
IsLowest(v) == /\ v \in active
               /\ \A q \in active : \/ amount[v] < amount[q]
                                    \/ amount[v] = amount[q] /\ v <= q

\* Fault: a tie is enough.
RequiredToMatch(v) == Larger(minimum, amount[v])

\* What a zap has to bring to take the seat of v.
Required(v) == Larger(minimum, amount[v] + 1)

-----------------------------------------------------------------------------
Init ==
  /\ rows = {} /\ active = {} /\ banned = {} /\ hasAddress = {}
  /\ amount = [p \in People |-> 0]
  /\ kinds = [p \in People |-> {}]
  /\ payouts = [p \in People |-> 0]
  /\ awards = [p \in People |-> {}]
  /\ observed = [p \in People |-> {}]
  /\ ledger = [z \in Payments |-> "open"]
  /\ processed = [e \in Socials |-> "none"]
  /\ tracked = {}
  /\ minimum \in Minimums
  /\ capacity \in Capacities
  /\ markedDay = 0 /\ cycleStart = 0
  /\ now = 0 /\ created = [e \in Events |-> Never]
  /\ waiting = {} /\ desk = Idle /\ notices = {} /\ told = {}

-----------------------------------------------------------------------------
(* The shared writes.                                                      *)

\* Fault: a reset that only visits the active rows, as deactivate_all does.
ActiveRowsCleared ==
  /\ active' = {}
  /\ amount' = [p \in People |-> IF p \in active THEN 0 ELSE amount[p]]
  /\ kinds' = [p \in People |-> IF p \in active THEN {} ELSE kinds[p]]
  /\ payouts' = [p \in People |-> 0]
  /\ awards' = [p \in People |-> {}]
  /\ observed' = [p \in People |-> {}]
  /\ tracked' = {}
  /\ markedDay' = Today
  /\ UNCHANGED <<rows, banned, hasAddress>>

\* Every row loses its seat, amount, kinds and payout; bans and rows stay.
HerdCleared ==
  /\ active' = {}
  /\ amount' = [p \in People |-> 0]
  /\ kinds' = [p \in People |-> {}]
  /\ payouts' = [p \in People |-> 0]
  /\ awards' = [p \in People |-> {}]
  /\ observed' = [p \in People |-> {}]
  /\ tracked' = {}
  /\ markedDay' = Today
  /\ UNCHANGED <<rows, banned, hasAddress>>

\* The new-day transaction of ensure_membership_day.
NewDay == HerdCleared /\ cycleStart' = DayStart(Today)

DayEnsured == IF DayDue THEN NewDay ELSE UNCHANGED <<memberVars, cycleVars>>

\* The kinds of an activated row once its observations are promoted.
Promoted(p, ks) ==
  IF observed[p] \subseteq awards[p] \cup ks THEN ks ELSE ks \cup observed[p]

\* add_new_active_member, with the deactivation of the victims it displaces.
Seat(p, sats, ks, victims) ==
  LET stored == kinds[p] \cup ks IN
  /\ rows' = rows \cup {p}
  /\ active' = (active \cup {p}) \ victims
  /\ amount' = [q \in People |-> IF q \in victims THEN 0
                                 ELSE IF q = p THEN sats ELSE amount[q]]
  /\ kinds' = [q \in People |-> IF q \in victims THEN {}
                                ELSE IF q = p THEN Promoted(p, stored) ELSE kinds[q]]
  /\ awards' = [awards EXCEPT ![p] = @ \cup stored \cup observed[p]]
  /\ UNCHANGED <<banned, observed, tracked, markedDay, cycleStart, settingVars>>
  /\ payouts' = Points'

\* update_and_activate_member: the row keeps its address and gains ks.
Update(p, sats, ks) ==
  /\ active' = active \cup {p}
  /\ amount' = [amount EXCEPT ![p] = sats]
  /\ kinds' = [kinds EXCEPT ![p] = Promoted(p, @ \cup ks)]
  /\ awards' = [awards EXCEPT ![p] = @ \cup ks \cup observed[p]]
  /\ hasAddress' = hasAddress
  /\ UNCHANGED <<rows, banned, observed, tracked, markedDay, cycleStart, settingVars>>
  /\ payouts' = Points'

-----------------------------------------------------------------------------
(* The world: the clock, the senders and the operator's notes.             *)

Tick ==
  /\ now < MaxTime
  /\ now' = now + 1
  /\ UNCHANGED <<memberVars, cycleVars, settingVars, created, volatileVars,
                 ledger, processed, told>>

\* A zap is paid or a social event is signed.
Happen(e) ==
  /\ ~Happened(e)
  /\ created' = [created EXCEPT ![e] = now]
  /\ UNCHANGED <<memberVars, cycleVars, settingVars, now, volatileVars,
                 ledger, processed, told>>

\* Today's note is detected and registered.
Track ==
  /\ Today \notin tracked
  /\ tracked' = tracked \cup {Today}
  /\ UNCHANGED <<memberVars, awards, observed, markedDay, cycleStart, settingVars,
                 worldVars, volatileVars, ledger, processed, told>>

-----------------------------------------------------------------------------
(* Reaching the lock.                                                      *)

\* A payment passes the coordinator's checks: not processed yet, and sent by
\* an active member or aimed at a tracked note of today.
Present(z) ==
  /\ Happened(z) /\ z \notin waiting
  /\ ledger[z] = "open"
  /\ \/ Author[z] \in active
     \/ NoteOf(z) \in tracked /\ NoteOf(z) = Today
  /\ waiting' = waiting \cup {z}
  /\ UNCHANGED <<memberVars, cycleVars, settingVars, worldVars, desk, notices,
                 ledger, processed, told>>

\* A rejected engagement earns its points once its sender holds a seat.
PromoteMember(p, ks) ==
  /\ awards' = [awards EXCEPT ![p] = @ \cup ks]
  /\ kinds' = [kinds EXCEPT ![p] = IF ks \subseteq awards[p] THEN @ ELSE @ \cup ks]
  /\ payouts' = Points'

\* Social events of an earlier day are dropped when the herd resets daily.
StaleDay(e) == ResetEnabled /\ created[e] < DayStart(Today)

\* A social event is observed under the admission lock.  The day is caught up
\* first, and that leaves no tracked note to observe it for.
Observe(e) ==
  LET p == Author[e] IN
  /\ Happened(e) /\ ~StaleDay(e) /\ desk = Idle
  /\ ~DayDue
  /\ NoteOf(e) \in tracked
  /\ created[e] >= cycleStart
  /\ observed' = [observed EXCEPT ![p] = @ \cup {Kind[e]}]
  /\ waiting' = IF processed[e] = "none" THEN waiting \cup {e} ELSE waiting
  /\ UNCHANGED <<rows, active, banned, hasAddress, amount, tracked, markedDay, cycleStart,
                 settingVars, worldVars, desk, notices, ledger, processed, told>>
  /\ IF processed[e] = "failure" /\ p \in active \ banned
       THEN PromoteMember(p, observed'[p])
       ELSE UNCHANGED <<awards, kinds, payouts>>

\* Fault: the attempt does not catch up the day.
EnterStale(e) ==
  /\ desk = Idle /\ e \in waiting
  /\ desk' = e
  /\ waiting' = waiting \ {e}
  /\ UNCHANGED <<memberVars, cycleVars, settingVars, worldVars, notices, ledger,
                 processed, told>>

\* An attempt takes the admission lock and catches up the day.
Enter(e) ==
  /\ desk = Idle /\ e \in waiting
  /\ desk' = e
  /\ waiting' = waiting \ {e}
  /\ DayEnsured
  /\ UNCHANGED <<settingVars, worldVars, notices, ledger, processed, told>>

-----------------------------------------------------------------------------
(* The admission transaction of a payment.                                 *)

\* A newcomer's event must be for a tracked note (any note, when neither tags
\* nor notes are configured) that was published today.
NoteAccepted(e) == /\ \/ NoteOf(e) \in tracked
                      \/ ~TagsConfigured /\ tracked = {}
                   /\ NoteOf(e) = Today

LeaveDesk == desk' = Idle /\ UNCHANGED <<settingVars, worldVars, waiting, told>>

\* The attempt ends without a decision, and rolls back: a relay or a NIP-05
\* lookup failed, the note was not accepted, or the task was cancelled.
GiveUp ==
  /\ desk # Idle
  /\ LeaveDesk
  /\ UNCHANGED <<memberVars, cycleVars, notices, ledger, processed>>

DuplicateZap(z) ==
  /\ ledger[z] # "open"
  /\ UNCHANGED <<memberVars, cycleVars, notices, ledger, processed>>

\* The claim survives, the sats count for no seat.
Refuse(z, answer) ==
  /\ ledger' = [ledger EXCEPT ![z] = "refused"]
  /\ notices' = notices \cup answer
  /\ UNCHANGED <<memberVars, cycleVars, processed>>

Claim(z) == ledger' = [ledger EXCEPT ![z] = "credited"] /\ UNCHANGED <<notices, processed>>

BannedZap(z) ==
  /\ ledger[z] = "open" /\ Author[z] \in banned
  /\ Refuse(z, {})

\* Fault: the claim is only checked before the lock.
MemberZapUnclaimed(z) ==
  LET p == Author[z] IN
  /\ p \in active \ banned
  /\ Claim(z)
  /\ Update(p, amount[p] + Sats[z], {})

MemberZap(z) ==
  LET p == Author[z] IN
  /\ ledger[z] = "open" /\ p \in active \ banned
  /\ Claim(z)
  /\ Update(p, amount[p] + Sats[z], {})

\* An unbanned payer without a seat, whose note is accepted.
NewcomerZap(z) == /\ ledger[z] = "open" /\ NoteAccepted(z)
                  /\ Author[z] \notin active \cup banned

\* Fault: off by one.
OverFull == Cardinality(active) > capacity

Full == Cardinality(active) >= capacity

SmallZap(z) ==
  /\ NewcomerZap(z) /\ Sats[z] < minimum
  /\ Refuse(z, {z})

OutbidZap(z) ==
  /\ NewcomerZap(z) /\ Sats[z] >= minimum /\ Full
  /\ \A v \in active : amount[v] # 0
  /\ \E v \in active : IsLowest(v) /\ Sats[z] < Required(v)
  /\ Refuse(z, {z})

FreeSeatZap(z) ==
  /\ NewcomerZap(z) /\ Sats[z] >= minimum /\ ~Full
  /\ Claim(z)
  /\ hasAddress' \in {hasAddress, hasAddress \cup {Author[z]}}
  /\ Seat(Author[z], Sats[z], {}, {})

HeadbuttZap(z) ==
  /\ NewcomerZap(z) /\ Sats[z] >= minimum /\ Full
  /\ \E v \in active :
       /\ IsLowest(v)
       /\ amount[v] # 0 => Sats[z] >= Required(v)
       /\ Claim(z)
       /\ hasAddress' \in {hasAddress, hasAddress \cup {Author[z]}}
       /\ Seat(Author[z], Sats[z], {}, {v})

DecideZap(z) ==
  /\ desk = z
  /\ \/ DuplicateZap(z)
     \/ BannedZap(z)
     \/ MemberZap(z)
     \/ SmallZap(z)
     \/ OutbidZap(z)
     \/ FreeSeatZap(z)
     \/ HeadbuttZap(z)
  /\ LeaveDesk

-----------------------------------------------------------------------------
(* The admission transaction of a social event.  A processed event and a   *)
(* banned sender leave no trace: that is GiveUp.                           *)

\* The kind was already awarded in this cycle, whatever became of the seat.
EarnedSocial(e) ==
  /\ processed[e] = "none" /\ Kind[e] \in awards[Author[e]]
  /\ processed' = [processed EXCEPT ![e] = "duplicate"]
  /\ UNCHANGED <<memberVars, cycleVars, notices, ledger>>

FreshSocial(e) == /\ processed[e] = "none"
                  /\ Kind[e] \notin awards[Author[e]]
                  /\ Author[e] \notin banned

Record(e) == processed' = [processed EXCEPT ![e] = "recorded"] /\ UNCHANGED <<notices, ledger>>

MemberSocial(e) ==
  LET p == Author[e] IN
  /\ FreshSocial(e) /\ p \in active /\ Kind[e] \notin kinds[p]
  /\ Record(e)
  /\ Update(p, amount[p], {Kind[e]})

NewcomerSocial(e) == FreshSocial(e) /\ NoteAccepted(e) /\ Author[e] \notin active

\* A newcomer without sats needs an address, on file or found by lookup.
SeatSocial(e, victims) ==
  /\ Record(e)
  /\ hasAddress' = hasAddress \cup {Author[e]}
  /\ Seat(Author[e], 0, {Kind[e]}, victims)

FreeSeatSocial(e) == NewcomerSocial(e) /\ ~Full /\ SeatSocial(e, {})

\* Only a repost displaces, and only a member who never zapped.
HeadbuttSocial(e) ==
  /\ NewcomerSocial(e) /\ Full /\ Kind[e] = 6
  /\ \E v \in active : IsLowest(v) /\ amount[v] = 0 /\ SeatSocial(e, {v})

FailedSocial(e) ==
  /\ NewcomerSocial(e) /\ Full
  /\ Kind[e] = 7 \/ \A v \in active : amount[v] # 0
  /\ notices' = notices \cup {e}
  /\ UNCHANGED <<memberVars, cycleVars, ledger, processed>>

DecideSocial(e) ==
  /\ desk = e
  /\ \/ EarnedSocial(e)
     \/ MemberSocial(e)
     \/ FreeSeatSocial(e)
     \/ HeadbuttSocial(e)
     \/ FailedSocial(e)
  /\ LeaveDesk

-----------------------------------------------------------------------------
(* After the commit, outside every lock: the failure notice.               *)

Registered(e) == IF e \in Payments THEN ledger[e] # "open" ELSE processed[e] # "none"

\* An event with a processed row is taken for answered already; otherwise the
\* notice is published and the event is registered as a failed headbutt.
AnswerFailure(e) ==
  /\ e \in notices
  /\ notices' = notices \ {e}
  /\ IF Registered(e) THEN UNCHANGED <<ledger, processed, told>>
     ELSE IF e \in Payments
       THEN /\ ledger' = [ledger EXCEPT ![e] = "refused"]
            /\ told' = told \cup {e}
            /\ UNCHANGED processed
       ELSE /\ processed' = [processed EXCEPT ![e] = "failure"]
            /\ UNCHANGED <<ledger, told>>
  /\ UNCHANGED <<memberVars, cycleVars, settingVars, worldVars, waiting, desk>>

\* Publishing fails: nothing is registered, the event may come again.
NoticeFails(e) ==
  /\ e \in notices
  /\ notices' = notices \ {e}
  /\ UNCHANGED <<memberVars, cycleVars, settingVars, worldVars, waiting, desk,
                 ledger, processed, told>>

-----------------------------------------------------------------------------
(* Resets and restarts.                                                    *)

MidnightJob ==
  /\ desk = Idle /\ DayDue
  /\ NewDay
  /\ UNCHANGED <<settingVars, worldVars, volatileVars, ledger, processed, told>>

\* The operator's reset also forgets every processed event.
ManualReset ==
  /\ "reset" \in Operations /\ desk = Idle
  /\ HerdCleared
  /\ cycleStart' = now
  /\ ledger' = [z \in Payments |-> "open"]
  /\ processed' = [e \in Socials |-> "none"]
  /\ UNCHANGED <<settingVars, worldVars, volatileVars, told>>

\* The process dies, loses everything in memory and starts again: the day is
\* caught up and the payouts recomputed before any intake.
Restart ==
  /\ "restart" \in Operations
  /\ waiting' = {} /\ desk' = Idle /\ notices' = {}
  /\ IF DayDue THEN NewDay
     ELSE UNCHANGED <<rows, active, banned, hasAddress, amount, kinds, cycleVars>>
  /\ UNCHANGED <<settingVars, worldVars, ledger, processed, told>>
  /\ payouts' = Points'

-----------------------------------------------------------------------------
(* The operator's requests: one transaction each, without the lock.        *)

OperatorWrites ==
  UNCHANGED <<worldVars, volatileVars, ledger, processed, told>>

\* Fault: the other members' shares are not recomputed.
BanWithoutRecompute(p) ==
  /\ "ban" \in Operations /\ p \in rows
  /\ banned' = banned \cup {p}
  /\ active' = active \ {p}
  /\ UNCHANGED <<rows, hasAddress, amount, kinds, payouts, cycleVars, settingVars>>
  /\ OperatorWrites

\* A ban takes the seat but leaves amount, kinds and address in the row.
Ban(p) ==
  /\ "ban" \in Operations /\ p \in rows
  /\ banned' = banned \cup {p}
  /\ active' = active \ {p}
  /\ UNCHANGED <<rows, hasAddress, amount, kinds, cycleVars, settingVars>>
  /\ payouts' = Points'
  /\ OperatorWrites

Unban(p) ==
  /\ "ban" \in Operations /\ p \in banned
  /\ banned' = banned \ {p}
  /\ UNCHANGED <<rows, active, hasAddress, amount, kinds, cycleVars, settingVars>>
  /\ payouts' = Points'
  /\ OperatorWrites

Deactivate(p) ==
  /\ "deactivate" \in Operations /\ p \in rows
  /\ active' = active \ {p}
  /\ amount' = [amount EXCEPT ![p] = 0]
  /\ kinds' = [kinds EXCEPT ![p] = {}]
  /\ UNCHANGED <<rows, banned, hasAddress, cycleVars, settingVars>>
  /\ payouts' = Points'
  /\ OperatorWrites

\* Fault: activation does not look for the row.
ActivateAnyone(p) ==
  /\ "activate" \in Operations /\ p \notin banned
  /\ Update(p, amount[p], {})
  /\ OperatorWrites

Activate(p) ==
  /\ "activate" \in Operations /\ p \in rows \ banned
  /\ Update(p, amount[p], {})
  /\ OperatorWrites

\* Fault: PUT does not look at the ban.
PutAmountBanned(p, sats) ==
  /\ "put" \in Operations /\ p \in rows
  /\ Update(p, sats, {})
  /\ OperatorWrites

\* PUT with an amount activates the row and overwrites its total.
PutAmount(p, sats) ==
  /\ "put" \in Operations /\ p \in rows \ banned
  /\ Update(p, sats, {})
  /\ OperatorWrites

\* POST seats anyone who is not banned, whatever the capacity, and replaces
\* the address by what the profile lookup found.
PostMember(p, sats) ==
  /\ "post" \in Operations /\ p \notin banned
  /\ hasAddress' \in {hasAddress \cup {p}, hasAddress \ {p}}
  /\ Seat(p, sats, {}, {})
  /\ OperatorWrites

\* Fault: deletion cascades to the awards.
DeleteRowsAndAwards(S) ==
  /\ rows' = rows \ S
  /\ active' = active \ S
  /\ banned' = banned \ S
  /\ hasAddress' = hasAddress \ S
  /\ amount' = [p \in People |-> IF p \in S THEN 0 ELSE amount[p]]
  /\ kinds' = [p \in People |-> IF p \in S THEN {} ELSE kinds[p]]
  /\ awards' = [p \in People |-> IF p \in S THEN {} ELSE awards[p]]
  /\ UNCHANGED <<observed, tracked, markedDay, cycleStart, settingVars>>
  /\ payouts' = Points'
  /\ OperatorWrites

\* The rows in S disappear, with whatever they held.
DeleteRows(S) ==
  /\ rows' = rows \ S
  /\ active' = active \ S
  /\ banned' = banned \ S
  /\ hasAddress' = hasAddress \ S
  /\ amount' = [p \in People |-> IF p \in S THEN 0 ELSE amount[p]]
  /\ kinds' = [p \in People |-> IF p \in S THEN {} ELSE kinds[p]]
  /\ UNCHANGED <<cycleVars, settingVars>>
  /\ payouts' = Points'
  /\ OperatorWrites

Delete(p) == "delete" \in Operations /\ p \in rows /\ DeleteRows({p})

PruneWithoutAddress ==
  /\ "prune" \in Operations /\ rows \ hasAddress # {}
  /\ DeleteRows(rows \ hasAddress)

ChangeSettings(m, c) ==
  /\ "settings" \in Operations /\ <<m, c>> # <<minimum, capacity>>
  /\ minimum' = m /\ capacity' = c
  /\ UNCHANGED <<rows, active, banned, hasAddress, amount, kinds, cycleVars>>
  /\ payouts' = IF m # minimum THEN Points' ELSE payouts
  /\ OperatorWrites

\* Rebuilding the zap totals refreshes the sender's profile: a missing row is
\* created inactive, an address that was found is stored.
RefreshProfile(p) ==
  /\ "refresh" \in Operations
  /\ rows' = rows \cup {p}
  /\ hasAddress' \in {hasAddress, hasAddress \cup {p}}
  /\ UNCHANGED <<active, banned, amount, kinds, payouts, cycleVars, settingVars>>
  /\ OperatorWrites

-----------------------------------------------------------------------------
World == Tick \/ Track \/ \E e \in Events : Happen(e)

Intake == \/ \E z \in Payments : Present(z) \/ DecideZap(z)
          \/ \E e \in Socials : Observe(e) \/ DecideSocial(e)
          \/ \E e \in Events : Enter(e) \/ AnswerFailure(e) \/ NoticeFails(e)
          \/ GiveUp

Resets == MidnightJob \/ ManualReset \/ Restart

Operator ==
  \/ \E p \in People :
       \/ Ban(p) \/ Unban(p) \/ Deactivate(p) \/ Activate(p) \/ Delete(p)
       \/ RefreshProfile(p)
       \/ \E sats \in OperatorAmounts : PutAmount(p, sats) \/ PostMember(p, sats)
  \/ PruneWithoutAddress
  \/ \E m \in Minimums, c \in Capacities : ChangeSettings(m, c)

Next == World \/ Intake \/ Resets \/ Operator

Spec == Init /\ [][Next]_vars

-----------------------------------------------------------------------------
(* What the herd promises.                                                 *)

\* The columns of cyber_herd: only a row holds a seat, a ban, an address, an
\* amount or kinds.
RowsOK ==
  /\ rows \subseteq People /\ active \subseteq rows /\ banned \subseteq rows
  /\ hasAddress \subseteq rows
  /\ amount \in [People -> Nat] /\ kinds \in [People -> SUBSET Social]
  /\ \A p \in People \ rows : amount[p] = 0 /\ kinds[p] = {}

CycleOK ==
  /\ payouts \in [People -> Nat]
  /\ awards \in [People -> SUBSET Social] /\ observed \in [People -> SUBSET Social]
  /\ tracked \subseteq Nat /\ markedDay \in Nat /\ cycleStart \in Nat

IntakeOK ==
  /\ ledger \in [Payments -> {"open", "credited", "refused"}]
  /\ processed \in [Socials -> {"none", "recorded", "duplicate", "failure"}]
  /\ waiting \subseteq Events /\ desk \in Events \cup {Idle}
  /\ notices \subseteq Events /\ told \subseteq Payments

WorldOK ==
  /\ minimum \in Nat /\ capacity \in Nat \ {0}
  /\ now \in Nat /\ created \in [Events -> Nat]

\* Every variable has its type.
TypeOK == RowsOK /\ CycleOK /\ IntakeOK /\ WorldOK

\* No interleaving of bans, unbans, admissions already at the desk and
\* operator activations seats a banned member.
BannedInactive == active \cap banned = {}

\* Every kind a row shows was awarded in the current cycle.  attempt_headbutt
\* skips a social event by either, so a row whose kinds outlived the awards
\* (a banned or evicted one, across a reset) could never earn them again.
KindsAwarded == \A p \in People : kinds[p] \subseteq awards[p]

\* Whatever changed last, the stored payouts are those of the current seats,
\* bans, addresses, amounts, awards and minimum.
PayoutsFresh == payouts = Points

\* A step in which the event at the desk is decided.
Decided(e) == desk = e /\ desk' = Idle

\* A decision never leaves more members than the capacity, or than there
\* were: when operators have overfilled the herd or lowered the capacity,
\* headbutts still go one for one.
AdmissionRespectsCapacity ==
  [][\A e \in Events : Decided(e) =>
       Cardinality(active') <= Larger(capacity, Cardinality(active))]_vars

\* Whoever a decision displaces was the lowest of the whole herd, and was
\* outbid: by a zap above the amount (or by any zap when there was none), by
\* a repost only when there was none, by a reaction never.
NoUnfairDisplacement ==
  [][\A e \in Events : \A v \in active \ active' :
       Decided(e) /\ cycleStart' = cycleStart /\ markedDay' = markedDay =>
         /\ IsLowest(v) /\ Author[e] \in active'
         /\ IF e \in Payments THEN Sats[e] > amount[v] /\ Sats[e] >= minimum
            ELSE amount[v] = 0 /\ Kind[e] = 6]_vars

\* Awards are erased only when the whole herd starts over: no eviction, ban,
\* deletion or restart lets a member earn the same kind twice in a cycle.
AwardsSurvive ==
  [][(\E p \in People : ~(awards[p] \subseteq awards'[p])) =>
        active' = {} /\ \A p \in People : awards'[p] = {} /\ amount'[p] = 0]_vars

\* The rollover to a new day never wipes a zap that was paid on that day: by
\* the time such a zap is credited, the day has been caught up.
RolloverKeepsTodaysZaps ==
  [][\A z \in Payments :
       markedDay' # markedDay /\ ledger[z] = "credited" /\ ledger'[z] = "credited"
         => Day(created[z]) < markedDay']_vars

Ledger == INSTANCE PaymentLedger
            WITH Payer <- Author, outcome <- ledger, balance <- amount

\* Every payment counts once: whatever is delivered twice, interleaved or cut
\* short by a crash, the herd's amounts follow the abstract ledger.
PaymentsCountOnce == Ledger!Spec

\* "You get notified of the failure": the notice of a refused zap that is not
\* lost to a publishing error reaches the sender.
RefusedZapIsTold ==
  [][\A z \in Payments : AnswerFailure(z) => z \in told']_vars
=============================================================================
