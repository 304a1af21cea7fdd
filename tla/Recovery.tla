------------------------------ MODULE Recovery ------------------------------
(***************************************************************************)
(* How settled zaps of one owner become credits.  The invoice listener     *)
(* takes each payment once, from memory, and drops what it cannot decide.  *)
(* A recovery pass (at startup, after a connect, or on request) reads the  *)
(* wallet's payments page by page from a starting time and tries those     *)
(* that are not recorded, with a view of the settings taken when it began. *)
(* Both run the same attempt: a payment of an active member needs the      *)
(* relays to show its note; a newcomer's payment needs the tracked note.   *)
(***************************************************************************)
EXTENDS Naturals, FiniteSets, FiniteSetsExt

CONSTANTS
  Notes,     \* today's notes, by created_at
  Payments,  \* today's zaps of the herd wallet
  Zapper,    \* who sent each payment
  Note,      \* the note each payment names
  Time,      \* the time of each invoice
  PageSize,  \* payments per page of the history
  MaxUpsets  \* bound on failures, displacements, resets and crashes

NoNote == 0
Midnight == 0
Zappers == {Zapper[p] : p \in Payments}

ASSUME NotesAssumption == Notes \subseteq Nat \ {NoNote} /\ IsFiniteSet(Notes)
ASSUME PaymentsAssumption ==
  /\ IsFiniteSet(Payments)
  /\ Note \in [Payments -> Notes] /\ Time \in [Payments -> Nat]
  /\ \A p \in Payments : Time[p] > Note[p]
  /\ \A p, q \in Payments : Time[p] = Time[q] => p = q
ASSUME BoundsAssumption == PageSize \in Nat \ {0} /\ MaxUpsets \in Nat

Actors == {"listener", "pass"}

VARIABLES
  settled,  \* LNbits: the payments that are settled
  queued,   \* those the listener has still to take, in memory
  credited, \* processed_events: the payments decided and recorded
  active,   \* the active members
  saved,    \* delivery_records: the notes known as tracking targets
  tracked,  \* settings.tracked_event_ids: the announcement, or NoNote
  job,      \* the payment each actor is working on
  pass,     \* the recovery pass
  upsets

intakeVars == <<settled, queued>>
noteVars == <<saved, tracked>>
vars == <<settled, queued, credited, active, saved, tracked, job, pass, upsets>>

NoJob == [stage |-> "none"]
NoPass == [stage |-> "none"]

-----------------------------------------------------------------------------
Init ==
  /\ settled = {} /\ queued = {} /\ credited = {}
  /\ active \in SUBSET Zappers
  /\ saved = {} /\ tracked = NoNote
  /\ job = [a \in Actors |-> NoJob] /\ pass = NoPass
  /\ upsets = 0

Upset == upsets < MaxUpsets /\ upsets' = upsets + 1

-----------------------------------------------------------------------------
(* The rest of the herd.                                                   *)

\* LNbits reports a settled invoice to the listener.
Settle(p) ==
  /\ p \notin settled
  /\ settled' = settled \cup {p}
  /\ queued' = queued \cup {p}
  /\ UNCHANGED <<credited, active, noteVars, job, pass, upsets>>

\* What a pass owes and is no longer held to: p is not decided by what held
\* when the pass began.
Excuse(payments) ==
  pass' = IF pass.stage = "scan" THEN [pass EXCEPT !.owed = @ \ payments] ELSE pass

Newcomers(members) == {p \in Payments : Zapper[p] \notin members}

\* A note is saved and the newest saved one is tracked.
Track(n) ==
  /\ saved' = saved \cup {n}
  /\ tracked' = Max(saved')

\* The social intake meets a note.
Announce(n) ==
  /\ n \notin saved \/ tracked = NoNote
  /\ Track(n)
  /\ Excuse(IF tracked' = tracked THEN {} ELSE Newcomers(active))
  /\ UNCHANGED <<intakeVars, credited, active, job, upsets>>

\* A member is displaced, banned or removed.
Displace(z) ==
  /\ Upset /\ z \in active
  /\ active' = active \ {z}
  /\ Excuse({p \in Payments : Zapper[p] = z})
  /\ UNCHANGED <<intakeVars, credited, noteVars, job>>

\* manual_reset_membership forgets members, records and the tracked note.
Reset ==
  /\ Upset
  /\ active' = {} /\ credited' = {} /\ tracked' = NoNote
  /\ Excuse(Payments)
  /\ UNCHANGED <<intakeVars, saved, job>>

\* The process dies: queue, attempts and pass are gone.
Crash ==
  /\ Upset
  /\ queued' = {} /\ job' = [a \in Actors |-> NoJob] /\ pass' = NoPass
  /\ UNCHANGED <<settled, credited, active, noteVars>>

-----------------------------------------------------------------------------
(* The listener and the pass choose a payment.                             *)

\* The listener reads the settings for each payment.
Listen(p) ==
  /\ p \in queued /\ job["listener"] = NoJob
  /\ queued' = queued \ {p}
  /\ job' = [job EXCEPT !["listener"] =
               [stage |-> "judge", payment |-> p, view |-> tracked, stamp |-> tracked]]
  /\ UNCHANGED <<settled, credited, active, noteVars, pass, upsets>>

\* force_requery_for_user reads the settings row first ...
OpenPass ==
  /\ pass = NoPass
  /\ pass' = [stage |-> "open", stamp |-> tracked]
  /\ UNCHANGED <<intakeVars, credited, active, noteVars, job, upsets>>

\* ... and the tracked ids again after it has processed the notes.  The row
\* it hands to the recovery has the new ids with the old timestamps.  The scan
\* starts at the earliest timestamp it has, at midnight when it has none.
Since(stamp) == IF tracked # NoNote /\ stamp = tracked THEN tracked ELSE Midnight

StartScan ==
  LET since == Since(pass.stamp) IN
  /\ pass.stage = "open"
  /\ pass' = [stage |-> "scan", stamp |-> pass.stamp, view |-> tracked,
              since |-> since, offset |-> 0, page |-> {}, last |-> FALSE,
              failed |-> FALSE,
              owed |-> {p \in settled : Zapper[p] \in active \/ Note[p] = tracked}]
  /\ UNCHANGED <<intakeVars, credited, active, noteVars, job, upsets>>

Listing == {p \in settled : Time[p] >= pass.since}
Place(p) == Cardinality({q \in Listing : Time[q] <= Time[p]})
Page == {p \in Listing : Place(p) \in pass.offset + 1..pass.offset + PageSize}

\* Pages are read by offset; a short one is the last.
ReadPage ==
  /\ pass.stage = "scan" /\ pass.page = {} /\ ~pass.last /\ job["pass"] = NoJob
  /\ pass' = [pass EXCEPT !.page = Page, !.offset = @ + Cardinality(Page),
                          !.last = Cardinality(Page) < PageSize]
  /\ UNCHANGED <<intakeVars, credited, active, noteVars, job, upsets>>

\* Fault: a payment the listener is working on is left to it.
Untried(p) == p \notin credited /\ ~(job["listener"].stage # "none" /\ job["listener"].payment = p)

\* Recorded payments are skipped.
Unrecorded(p) == p \notin credited

\* The payments of a page are tried in the order of their time.
TakeNext(p) ==
  /\ pass.stage = "scan" /\ job["pass"] = NoJob
  /\ p \in pass.page /\ \A q \in pass.page : Time[p] <= Time[q]
  /\ pass' = [pass EXCEPT !.page = @ \ {p}]
  /\ job' = IF Unrecorded(p)
              THEN [job EXCEPT !["pass"] = [stage |-> "judge", payment |-> p,
                                            view |-> pass.view, stamp |-> pass.stamp]]
              ELSE job
  /\ UNCHANGED <<intakeVars, credited, active, noteVars, upsets>>

EndPass ==
  /\ pass.stage = "scan" /\ pass.last /\ pass.page = {} /\ job["pass"] = NoJob
  /\ pass' = NoPass
  /\ UNCHANGED <<intakeVars, credited, active, noteVars, job, upsets>>

-----------------------------------------------------------------------------
(* An attempt.                                                             *)

\* The attempt is over.
Over(a) == job' = [job EXCEPT ![a] = NoJob]

\* The attempt goes on to the admission.
Admit(a) == job' = [job EXCEPT ![a].stage = "credit"]

\* It is recorded already.
AlreadyRecorded(a) ==
  /\ job[a].stage = "judge" /\ job[a].payment \in credited
  /\ Over(a)
  /\ UNCHANGED <<intakeVars, credited, active, noteVars, pass, upsets>>

Judging(a) == job[a].stage = "judge" /\ job[a].payment \notin credited
FromMember(a) == Zapper[job[a].payment] \in active
Target(a) == Note[job[a].payment]

\* A member may zap any note of the project: the relays show it.
JudgeMember(a) ==
  /\ Judging(a) /\ FromMember(a)
  /\ Admit(a)
  /\ UNCHANGED <<intakeVars, credited, active, noteVars, pass, upsets>>

\* The row has the note with the timestamp of a note of today.
JudgeTracked(a) ==
  /\ Judging(a) /\ ~FromMember(a)
  /\ Target(a) = job[a].view /\ job[a].stamp = Target(a)
  /\ Admit(a)
  /\ UNCHANGED <<intakeVars, credited, active, noteVars, pass, upsets>>

\* Otherwise the relays are asked for the note, which is tracked on the way
\* if it is the newest; the row of a pass is brought up to date with it.
JudgeFetched(a) ==
  /\ Judging(a) /\ ~FromMember(a)
  /\ Target(a) # job[a].view \/ job[a].stamp # Target(a)
  /\ Track(Target(a))
  /\ LET kept == IF tracked' = tracked THEN {} ELSE Newcomers(active) IN
     IF tracked' = Target(a)
       THEN /\ Admit(a)
            /\ IF a = "pass" /\ Target(a) # job[a].view
                 THEN pass' = [pass EXCEPT !.view = tracked', !.stamp = tracked',
                                           !.owed = @ \ kept]
                 ELSE Excuse(kept)
       ELSE Over(a) /\ Excuse(kept)
  /\ UNCHANGED <<intakeVars, credited, active, upsets>>

\* The relays or the database do not answer: the listener drops the payment,
\* a pass goes on without it.
Fail(a) ==
  /\ Upset /\ job[a] # NoJob
  /\ Over(a)
  /\ pass' = IF a = "pass" THEN [pass EXCEPT !.failed = TRUE] ELSE pass
  /\ UNCHANGED <<intakeVars, credited, active, noteVars>>

\* Under the admission lock the payment is claimed, unless another attempt has
\* recorded it; the zapper gets a seat or does not.
Credit(a) ==
  LET p == job[a].payment IN
  /\ job[a].stage = "credit"
  /\ Over(a)
  /\ credited' = credited \cup {p}
  /\ active' \in IF p \in credited THEN {active} ELSE {active, active \cup {Zapper[p]}}
  /\ UNCHANGED <<intakeVars, noteVars, pass, upsets>>

-----------------------------------------------------------------------------
Next ==
  \/ Reset \/ Crash \/ OpenPass \/ StartScan \/ ReadPage \/ EndPass
  \/ \E p \in Payments : Settle(p) \/ Listen(p) \/ TakeNext(p)
  \/ \E n \in Notes : Announce(n)
  \/ \E z \in Zappers : Displace(z)
  \/ \E a \in Actors : \/ AlreadyRecorded(a) \/ JudgeMember(a) \/ JudgeTracked(a)
                       \/ JudgeFetched(a) \/ Fail(a) \/ Credit(a)

Spec == Init /\ [][Next]_vars

-----------------------------------------------------------------------------
\* A pass in which no attempt failed leaves nothing behind: every payment that
\* was settled when its scan started, is not older than the start of the scan,
\* and came from someone who was a member all along or names the note that was
\* tracked all along, is recorded when it ends, however the pages shifted,
\* whatever the listener was doing with it, and whatever else it admitted.
PassComplete ==
  [][EndPass /\ ~pass.failed =>
       \A p \in pass.owed : Time[p] >= pass.since => p \in credited]_vars
=============================================================================
