------------------------------- MODULE Monitor -------------------------------
(***************************************************************************)
(* How the notes and engagements that the relays hold reach one owner's    *)
(* herd.  A websocket monitor subscribes to the owner's notes and to the   *)
(* engagements with the tracked note; a poll queries the relays for both;  *)
(* every new connection starts a recovery that queries them once more.     *)
(* All three hand events to the same processing, which saves a note,       *)
(* tracks the newest saved one, and admits engagements with it.  The       *)
(* monitor remembers for a while which events were acted on and skips      *)
(* them.  To subscribe is to read the tracked note and to send requests     *)
(* later; it may fail between, which is only logged, and several tasks may *)
(* do it at a time.  A watchdog replaces subscriptions that are never      *)
(* answered, and a socket that is quiet while the poll finds events.       *)
(***************************************************************************)
EXTENDS Naturals, FiniteSets, FiniteSetsExt

CONSTANTS
  Notes,       \* today's announcements, numbered by created_at
  Engagements, \* today's reposts and reactions
  Target,      \* the note each engagement names
  Regimes      \* bounds, see Regime

NoNote == 0

ASSUME NotesAssumption == Notes \subseteq Nat \ {NoNote} /\ IsFiniteSet(Notes)
ASSUME TargetAssumption == /\ Target \in [Engagements -> Notes]
                           /\ Notes \cap Engagements = {}

\* How much goes wrong in a behaviour (losses, failures, crashes, resets and
\* settings saves), how many tasks process an event at the same time, and how
\* many subscribers are at work at the same time.
Regime == [upsets : Nat, busy : Nat, askers : Nat]
ASSUME RegimesAssumption == Regimes \subseteq Regime

Events == Notes \cup Engagements

\* The tasks that process events: the reader of the socket, the poll, and the
\* recovery after a connect.
Tasks == {"socket", "poll", "recovery"}

\* Who subscribes: a new connection, the watchdog, an append under the owner's
\* lock, and the refresh after a settings save.
Subscribers == {"connection", "watchdog", "append", "save"}

VARIABLES
  saved,      \* delivery_records: the notes kept as tracking targets
  tracked,    \* settings.tracked_event_ids: the announcement, or NoNote
  done,       \* processed_events: the engagements admitted or refused
  acted,      \* processed_event_ids of the monitor
  job,        \* what each task is doing
  resetting,  \* a reset has committed and not yet cleared acted
  saving,     \* the tracked note in the row that a settings save has read
  conn,       \* the socket: "down", "up", or "stalled" (up, forwards nothing)
  feed,       \* the subscriptions
  asking,     \* the tracked note that each subscriber has read and asks with next
  heard,      \* what the current subscriptions have delivered
  pollAhead,  \* the poll acted on an event after the socket's last one
  regime,     \* the bounds of this behaviour
  upsets,     \* how much has gone wrong
  disturbed   \* something went wrong with subscribing on this socket, see Undisturbed

bounds == <<regime, upsets>>
rows == <<saved, tracked, done>>
askVars == <<asking, disturbed>>
socketVars == <<conn, feed, heard, pollAhead, askVars>>
opVars == <<resetting, saving>>
vars == <<saved, tracked, done, acted, job, resetting, saving, conn, feed, asking,
          heard, pollAhead, regime, upsets, disturbed>>

Idle == [stage |-> "idle"]
NoFeed == [notes |-> "none", streams |-> "none", engagements |-> "none", note |-> NoNote]
Nobody == [s \in Subscribers |-> {}]

\* A subscription is "open", "deaf" (its REQ was lost, no answer will come), "gone" (it
\* was answered on a socket that is no more) or "none".  The monitor takes one that is
\* gone for one that is open.  The engagements are those with feed.note.  The
\* subscription for streams delivers none of the events here, and is watched as well.
Kinds == {"notes", "streams", "engagements"}

-----------------------------------------------------------------------------
Init ==
  /\ saved = {} /\ tracked = NoNote /\ done = {}
  /\ acted = {} /\ job = [t \in Tasks |-> Idle]
  /\ resetting = FALSE /\ saving = {}
  /\ conn = "down" /\ feed = NoFeed /\ asking = Nobody /\ heard = {} /\ pollAhead = FALSE
  /\ regime \in Regimes /\ upsets = 0 /\ disturbed = FALSE

Upset == upsets < regime.upsets /\ upsets' = upsets + 1 /\ UNCHANGED regime

-----------------------------------------------------------------------------
(* The world.                                                              *)

\* What each task is at.
Busy(t) == job[t] # Idle
AtStage(t, stage) == job[t].stage = stage

\* A relay forgets the subscriptions of a socket that is closed; the monitor
\* does not.
Disconnect ==
  LET Left(k) == IF feed[k] = "open" THEN "gone" ELSE feed[k] IN
  /\ conn' = "down"
  /\ feed' = [notes |-> Left("notes"), streams |-> Left("streams"),
              engagements |-> Left("engagements"), note |-> NoNote]
  /\ heard' = {} /\ disturbed' = FALSE

\* The socket breaks.
Drop ==
  /\ Upset /\ conn # "down"
  /\ Disconnect
  /\ UNCHANGED <<rows, acted, job, opVars, asking, pollAhead>>

\* The proxy stops forwarding events on a socket that stays open.
Stall ==
  /\ Upset /\ conn = "up"
  /\ conn' = "stalled"
  /\ UNCHANGED <<rows, acted, job, opVars, feed, heard, pollAhead, askVars>>

\* The socket is read once its connection has subscribed, and not while an
\* event that came over it is processed.
Reading == conn # "down" /\ asking["connection"] = {} /\ ~Busy("socket")

\* CLOSED: the relay ends subscriptions, one or several in a row.
Closed(ended) ==
  LET Left(k) == IF k \in ended THEN "none" ELSE feed[k] IN
  /\ Upset /\ Reading /\ ended # {} /\ \A k \in ended : feed[k] = "open"
  /\ feed' = [notes |-> Left("notes"), streams |-> Left("streams"),
              engagements |-> Left("engagements"), note |-> feed.note]
  /\ UNCHANGED <<rows, acted, job, opVars, conn, heard, pollAhead, askVars>>

\* The process dies: what is in memory is gone.
Crash ==
  /\ Upset
  /\ acted' = {} /\ job' = [t \in Tasks |-> Idle]
  /\ resetting' = FALSE /\ saving' = {}
  /\ conn' = "down" /\ feed' = NoFeed /\ asking' = Nobody /\ heard' = {}
  /\ pollAhead' = FALSE /\ disturbed' = FALSE
  /\ UNCHANGED rows

-----------------------------------------------------------------------------
(* The operator.                                                           *)

\* manual_reset_membership commits, outside the lock of note tracking ...
Reset ==
  /\ Upset /\ ~resetting
  /\ tracked' = NoNote /\ done' = {}
  /\ resetting' = TRUE
  /\ UNCHANGED <<saved, acted, job, saving, socketVars>>

\* ... and clears the monitor's memory afterwards.
ClearActed ==
  /\ resetting
  /\ resetting' = FALSE
  /\ acted' = {}
  /\ UNCHANGED <<rows, job, saving, socketVars, bounds>>

\* A settings save reads the row (see WriteSettings).
ReadSettings ==
  /\ Upset /\ saving = {}
  /\ saving' = {tracked}
  /\ UNCHANGED <<rows, acted, job, resetting, socketVars>>

-----------------------------------------------------------------------------
(* Subscriptions.                                                          *)

\* _subscribe_to_tracked_notes reads the tracked note n ...
BeginWith(s, n) ==
  /\ asking[s] = {}
  /\ Cardinality({other \in Subscribers : asking[other] # {}}) < regime.askers
  /\ asking' = [asking EXCEPT ![s] = {n}]
  /\ disturbed' = (disturbed \/ \E other \in Subscribers : ~(asking[other] \subseteq {n}))

Begin(s) == BeginWith(s, tracked)

\* The subscriptions for the note n once the requests of the made ones are sent.
Subscribed(n, made, lost) ==
  LET State(k) == IF k \notin made THEN "none" ELSE IF k \in lost THEN "deaf" ELSE "open"
  IN  [notes |-> State("notes"), streams |-> State("streams"),
       engagements |-> IF n = NoNote THEN "none" ELSE State("engagements"), note |-> n]

\* ... and replaces the subscriptions with new ones for it.  The relays deliver
\* what they hold to each of them, unless its REQ is lost.
Ask(s, lost) ==
  /\ conn # "down"
  /\ \E n \in asking[s] : feed' = Subscribed(n, Kinds, lost)
  /\ heard' = {}
  /\ asking' = [asking EXCEPT ![s] = {}]
  /\ IF lost = {} THEN UNCHANGED bounds ELSE Upset
  /\ UNCHANGED <<rows, acted, job, opVars, conn, pollAhead, disturbed>>

\* The requests are sent in the order engagements, notes, streams.
Prefixes == {{}, {"engagements"}, {"engagements", "notes"}}

\* A failure is logged and forgotten.  One of the read leaves the subscriptions
\* as they are, one of a send leaves those that were made before it.
AskFails(s) ==
  /\ Upset
  /\ \E n \in asking[s] :
       \/ UNCHANGED <<feed, heard>>
       \/ /\ conn # "down"
          /\ \E made \in Prefixes : feed' = Subscribed(n, made, {})
          /\ heard' = {}
  /\ asking' = [asking EXCEPT ![s] = {}]
  /\ disturbed' = TRUE
  /\ UNCHANGED <<rows, acted, job, opVars, conn, pollAhead>>

\* Without a socket every send fails, at once or when the wait for a new one
\* times out.
GiveUp(s) ==
  /\ conn = "down" /\ asking[s] # {}
  /\ feed' = NoFeed
  /\ asking' = [asking EXCEPT ![s] = {}]
  /\ UNCHANGED <<rows, acted, job, opVars, conn, heard, pollAhead, disturbed, bounds>>

\* Fault: only the first connection subscribes.
ConnectOnce ==
  /\ conn = "down" /\ ~Busy("socket")
  /\ conn' = "up"
  /\ IF \A k \in Kinds : feed[k] = "none"
       THEN Begin("connection")
       ELSE asking["connection"] = {} /\ UNCHANGED askVars
  /\ UNCHANGED <<rows, acted, job, opVars, feed, heard, pollAhead, bounds>>

\* A connection subscribes first.
Connect ==
  /\ conn = "down" /\ ~Busy("socket")
  /\ conn' = "up"
  /\ Begin("connection")
  /\ UNCHANGED <<rows, acted, job, opVars, feed, heard, pollAhead, bounds>>

\* The watchdog replaces all subscriptions when there is none, or when one
\* was not answered in subscription_timeout seconds.
WatchSubscriptions ==
  /\ conn # "down"
  /\ (\A k \in Kinds : feed[k] = "none") \/ (\E k \in Kinds : feed[k] = "deaf")
  /\ Begin("watchdog")
  /\ UNCHANGED <<rows, acted, job, opVars, conn, feed, heard, pollAhead, bounds>>

\* A settings save writes the whole row that it read before.  If the tags, the
\* key or what is tracked have changed the subscriptions are refreshed shortly
\* after, with what was written.
WriteSettings ==
  /\ \E n \in saving :
       /\ tracked' = n
       /\ \/ conn # "down" /\ BeginWith("save", n)
          \/ UNCHANGED asking /\ disturbed' = (conn # "down")
  /\ saving' = {}
  /\ UNCHANGED <<saved, done, acted, job, resetting,
                 conn, feed, heard, pollAhead, bounds>>

\* _ws_appears_stalled: the poll acted on an event and the socket has been
\* silent for longer than the threshold, which is shorter than the time after
\* which the poll acts on an event again.  The connection is closed to be made
\* anew.
ForceReconnect ==
  /\ conn # "down" /\ pollAhead /\ asking["watchdog"] = {}
  /\ Disconnect
  /\ pollAhead' = FALSE
  /\ UNCHANGED <<rows, acted, job, opVars, asking, bounds>>

-----------------------------------------------------------------------------
(* Processing.                                                             *)

\* An engagement refers to the tracked note.
Tracked(e) == Target[e] = tracked

\* A task takes up an event: a note is saved, an engagement needs the tracked
\* note.
TakeUp(t, e) ==
  Cardinality({u \in Tasks : Busy(u)}) < regime.busy /\
  \/ /\ e \in Notes
     /\ saved' = saved \cup {e}
     /\ job' = [job EXCEPT ![t] = [stage |-> "project", event |-> e]]
  \/ /\ e \in Engagements /\ Tracked(e)
     /\ job' = [job EXCEPT ![t] = [stage |-> "admit", event |-> e]]
     /\ UNCHANGED saved

\* What the socket has still to deliver.
Due(e) ==
  /\ conn = "up" /\ e \notin heard
  /\ \/ e \in Notes /\ feed.notes = "open"
     \/ e \in Engagements /\ feed.engagements = "open" /\ Target[e] = feed.note

\* The socket delivers an event: an event acted on recently, or an engagement
\* with another note, changes nothing.
Deliver(e) ==
  /\ Due(e) /\ Reading
  /\ heard' = heard \cup {e}
  /\ pollAhead' = FALSE
  /\ IF e \in acted \/ (e \in Engagements /\ ~Tracked(e))
       THEN UNCHANGED <<saved, job>>
       ELSE TakeUp("socket", e)
  /\ UNCHANGED <<tracked, done, acted, opVars, conn, feed, askVars, bounds>>

\* Fault: the poll takes a saved note for a tracked one.
PollUnsaved(e) ==
  /\ ~Busy("poll") /\ e \notin acted \cup saved
  /\ TakeUp("poll", e)
  /\ UNCHANGED <<tracked, done, acted, opVars, socketVars, bounds>>

\* Fault: the poll asks for notes only.
PollNotes(e) ==
  /\ ~Busy("poll") /\ e \in Notes \ acted
  /\ TakeUp("poll", e)
  /\ UNCHANGED <<tracked, done, acted, opVars, socketVars, bounds>>

\* The relays answer the poll with an event.
Poll(e) ==
  /\ ~Busy("poll") /\ e \notin acted
  /\ TakeUp("poll", e)
  /\ UNCHANGED <<tracked, done, acted, opVars, socketVars, bounds>>

\* force_requery_for_user processes an event, whatever the monitor remembers.
\* It runs after every connect, at startup and when the operator asks for it.
Recover(e) ==
  /\ ~Busy("recovery")
  /\ TakeUp("recovery", e)
  /\ UNCHANGED <<tracked, done, acted, opVars, socketVars, bounds>>

Locked == \E t \in Tasks : job[t].stage \in {"write", "refresh", "ask"}

\* Fault: the newest note is projected before the lock is taken.
ProjectUnlocked(t) ==
  LET newest == Max(saved) IN
  /\ AtStage(t, "project")
  /\ job' = [job EXCEPT ![t] = IF newest = tracked
                                 THEN [stage |-> "finish", event |-> @.event]
                                 ELSE [stage |-> "write", event |-> @.event, note |-> newest]]
  /\ UNCHANGED <<rows, acted, opVars, socketVars, bounds>>

\* Under the owner's lock the settings are read again and the newest saved
\* note is projected.
Project(t) ==
  LET newest == Max(saved) IN
  /\ AtStage(t, "project") /\ ~Locked
  /\ job' = [job EXCEPT ![t] = IF newest = tracked
                                 THEN [stage |-> "finish", event |-> @.event]
                                 ELSE [stage |-> "write", event |-> @.event, note |-> newest]]
  /\ UNCHANGED <<rows, acted, opVars, socketVars, bounds>>

\* The row is written as a whole.
Write(t) ==
  /\ AtStage(t, "write")
  /\ tracked' = job[t].note
  /\ job' = [job EXCEPT ![t] = [stage |-> "refresh", event |-> @.event]]
  /\ UNCHANGED <<saved, done, acted, opVars, socketVars, bounds>>

\* A failure under the lock is logged and the note counts as processed.
FailUnderLock(t) ==
  /\ Upset
  /\ (AtStage(t, "project") /\ ~Locked) \/ AtStage(t, "write")
  /\ job' = [job EXCEPT ![t] = [stage |-> "finish", event |-> @.event]]
  /\ UNCHANGED <<rows, acted, opVars, socketVars>>

\* Fault: the subscriptions stay as they are.
RefreshNothing(t) ==
  /\ AtStage(t, "refresh")
  /\ job' = [job EXCEPT ![t] = [stage |-> "finish", event |-> @.event]]
  /\ UNCHANGED <<rows, acted, opVars, socketVars, bounds>>

\* trigger_immediate_refresh, still under the lock, left out when there is no
\* connection (a broken one may not have been noticed).
Refresh(t) ==
  /\ AtStage(t, "refresh")
  /\ \/ /\ Begin("append")
        /\ job' = [job EXCEPT ![t] = [stage |-> "ask", event |-> @.event]]
     \/ /\ conn = "down" /\ UNCHANGED askVars
        /\ job' = [job EXCEPT ![t] = [stage |-> "finish", event |-> @.event]]
  /\ UNCHANGED <<rows, acted, opVars, conn, feed, heard, pollAhead, bounds>>

\* The engagement is decided and recorded, if its note is still tracked.
Admit(t) ==
  LET e == job[t].event IN
  /\ AtStage(t, "admit")
  /\ IF Tracked(e)
       THEN /\ done' = done \cup {e}
            /\ job' = [job EXCEPT ![t] = [stage |-> "finish", event |-> e]]
       ELSE /\ job' = [job EXCEPT ![t] = Idle]
            /\ UNCHANGED done
  /\ UNCHANGED <<saved, tracked, acted, opVars, socketVars, bounds>>

\* The decision fails and is not remembered.
FailAdmission(t) ==
  /\ Upset /\ AtStage(t, "admit")
  /\ job' = [job EXCEPT ![t] = Idle]
  /\ UNCHANGED <<rows, acted, opVars, socketVars>>

\* The monitor remembers what was acted on; a recovery does not tell it.  A
\* note is acted on whatever became of the refresh.
Finish(t) ==
  /\ AtStage(t, "finish") \/ (AtStage(t, "ask") /\ asking["append"] = {})
  /\ job' = [job EXCEPT ![t] = Idle]
  /\ acted' = IF t = "recovery" THEN acted ELSE acted \cup {job[t].event}
  /\ pollAhead' = (pollAhead \/ t = "poll")
  /\ UNCHANGED <<rows, opVars, conn, feed, heard, askVars, bounds>>

\* dedup_ttl_seconds have passed.
Forget(e) ==
  /\ e \in acted
  /\ acted' = acted \ {e}
  /\ UNCHANGED <<rows, job, opVars, socketVars, bounds>>

-----------------------------------------------------------------------------
TaskStep(t) ==
  Project(t) \/ Write(t) \/ Refresh(t) \/ Admit(t) \/ Finish(t)

SubscriberStep(s) == Ask(s, {}) \/ GiveUp(s)

Next ==
  \/ Drop \/ Stall \/ Crash \/ Reset \/ ClearActed \/ ReadSettings \/ WriteSettings
  \/ Connect \/ WatchSubscriptions \/ ForceReconnect
  \/ \E ended \in SUBSET Kinds : Closed(ended)
  \/ \E s \in Subscribers : SubscriberStep(s) \/ AskFails(s)
  \/ \E s \in Subscribers, k \in Kinds : Ask(s, {k})
  \/ \E e \in Events : Deliver(e) \/ Poll(e) \/ Recover(e) \/ Forget(e)
  \/ \E t \in Tasks : TaskStep(t) \/ FailUnderLock(t) \/ FailAdmission(t)

\* Tasks and subscribers go on, the remembered events expire, the socket is
\* connected again and watched, and the relays answer the poll with each event
\* again and again.  The stall check leaves a new connection the time to subscribe.
\* Nothing is assumed of the socket's deliveries, nor of the watchdog otherwise.
Fairness ==
  /\ \A t \in Tasks : WF_vars(TaskStep(t))
  /\ \A s \in Subscribers : WF_vars(SubscriberStep(s))
  /\ SF_vars(Ask("connection", {}))
  /\ WF_vars(ClearActed) /\ WF_vars(WriteSettings)
  /\ WF_vars(Connect) /\ WF_vars(ForceReconnect)
  /\ \A e \in Events : WF_vars(Forget(e)) /\ SF_vars(Poll(e))

Spec == Init /\ [][Next]_vars /\ Fairness

-----------------------------------------------------------------------------
\* On this socket no subscriber has failed, none has begun beside one that had
\* read another note, and no settings save has put back a row without a refresh.
\* The stall check replaces a socket for which that is not so, see Resubscribed.
Undisturbed == conn # "down" /\ ~disturbed

\* The engagement subscription follows the tracked note: whoever tracked it and
\* whatever was lost, closed, reset or restarted meanwhile, once no refresh is
\* due and no subscriber at work the monitor has asked for the engagements with
\* the note that is tracked, on every socket that is undisturbed.
SubscriptionFollows ==
  Undisturbed /\ tracked # NoNote /\ asking = Nobody
    /\ (\A t \in Tasks : ~AtStage(t, "refresh"))
    => feed.note = tracked

\* Whatever was lost, failed, reset or overwritten, and in whatever order the
\* notes arrived, the owner ends up tracking the newest of today's notes.
NewestTracked == <>[](tracked = Max(Notes))

\* Notes arrive in any order over three paths: once no append is under way the
\* newest note that any of them saved is tracked, as long as nothing failed.
AppendsConverge ==
  upsets = 0 /\ saved # {} /\ (\A t \in Tasks : job[t].stage \notin {"project", "write"})
    => tracked = Max(saved)

\* Every engagement with that note is decided in the end, also one whose first
\* attempt failed, or that a reset forgot after it was decided.
EngagementsDecided ==
  <>[](\A e \in Engagements : Target[e] = Max(Notes) => e \in done)

\* Whatever is lost on the way (a REQ, the socket, one subscription that the
\* relay closes, a failure of the subscriber that is only logged, one that asks
\* with an outdated note beside another): again and again the monitor is set up,
\* all subscriptions open on a socket that forwards, the engagements with the
\* note that is tracked.
Resubscribed ==
  []<>(/\ conn = "up" /\ asking["connection"] = {}
       /\ \A k \in Kinds : feed[k] = "open"
       /\ feed.note = tracked)

\* The watchdog's comment: in quiet periods it does not fire.  It closes a
\* socket only when some event has not come over it.
QuietStaysConnected == [][ForceReconnect => heard # Events]_vars
=============================================================================
