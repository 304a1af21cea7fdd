------------------------------ MODULE Delivery ------------------------------
(***************************************************************************)
(* The public messages of one owner, from the moment they are queued until *)
(* the relays have them.  Every message is a durable row with an identity  *)
(* of its own, queued once.  A worker visits the queued rows in passes: it *)
(* signs a message, stores the signed event, sends it, and records that it *)
(* was submitted, in separate steps any of which may fail.  The first      *)
(* message about a member in a cycle opens a branch; the later ones reply  *)
(* to it and wait for it.  Notices of a feeder pause wait for the one      *)
(* before, in a note and in the chat of the live stream.                   *)
(***************************************************************************)
EXTENDS Naturals, FiniteSets

CONSTANTS
  Sources,      \* events about members that are announced
  Author,       \* the member of each
  Conversation, \* the stream of each, or Notes
  Refused,      \* the sources whose admission was refused
  Treats,       \* shares of members in distributions
  Recipient,    \* the member of each
  Feedings,     \* payments that trigger the feeder
  Streams,      \* addresses of live streams
  Regimes       \* bounds, see Regime

Notes == "notes"     \* the conversation outside any stream
FirstOne == "first"
NoBranch == <<>>
NoMessage == <<"none">>
NoEvent == 0         \* the events of a message
Original == 1
Another == 2
Signed == {Original, Another}

\* How many messages, cycles, confirmed readings of the pause switch and
\* invitations there are in a behaviour, and how often something goes wrong.
Regime == [messages : Nat, cycles : Nat, readings : Nat, invitations : Nat, faults : Nat]

ASSUME SourcesAssumption ==
  /\ IsFiniteSet(Sources) /\ Refused \subseteq Sources /\ DOMAIN Author = Sources
  /\ Conversation \in [Sources -> Streams \cup {Notes}]
ASSUME TreatsAssumption == IsFiniteSet(Treats) /\ DOMAIN Recipient = Treats
ASSUME RegimesAssumption == Regimes \subseteq Regime
ASSUME StreamsAssumption == Notes \notin Streams /\ FirstOne \notin Streams

VARIABLES
  cycle,     \* member_cycles: the membership cycle
  thread,    \* delivery_records of kind thread, by branch
  message,   \* ... of kind message, by identity
  treat,     \* ... of kind treat: the branch frozen with a share, or NoBranch
  switch,    \* ... of kind stream-availability: the last confirmed reading
  invited,   \* ... of kind stream-invitation: the invitations so far
  live,      \* the address of the stream that is live, or Notes
  rest,      \* the rows the worker's pass has still to visit
  work,      \* the message the worker is publishing
  relays,    \* the signed events the relays have been sent
  regime, faults

queueVars == <<cycle, treat, switch, invited, live>>
bounds == <<regime, faults>>
vars == <<cycle, thread, message, treat, switch, invited, live, rest, work, relays,
          regime, faults>>

Idle == [stage |-> "idle"]

Init ==
  /\ cycle = 1 /\ thread = <<>> /\ message = <<>>
  /\ treat = [t \in Treats |-> NoBranch]
  /\ switch = [state |-> "unknown", sequence |-> 0] /\ invited = 0
  /\ live \in Streams \cup {Notes}
  /\ rest = {} /\ work = Idle /\ relays = {}
  /\ regime \in Regimes /\ faults = 0

-----------------------------------------------------------------------------
(* The rows.                                                               *)

Queued(branch, channel, parent) ==
  [state |-> "queued", signed |-> NoEvent, branch |-> branch, channel |-> channel,
   parent |-> parent]

\* put with insert: a row that exists stays as it is.
Insert(rows, id, row) ==
  [x \in DOMAIN rows \cup {id} |-> IF x \in DOMAIN rows THEN rows[x] ELSE row]

Queue(id, row) == message' = Insert(message, id, row)

Opened(join, channel) == [join |-> join, event |-> NoEvent, channel |-> channel]

\* The first branch of a member in this cycle has no channel in its identity.
First(p) == <<p, cycle, FirstOne>>

\* Fault: whatever the conversation, the member's first branch is used.
FirstBranch(p, channel) == First(p)

\* A conversation other than that of the first branch has a branch of its own.
Branch(p, channel) ==
  IF First(p) \in DOMAIN thread /\ thread[First(p)].channel # channel
    THEN <<p, cycle, channel>> ELSE First(p)

-----------------------------------------------------------------------------
(* What is queued.                                                         *)

\* Fault: the branch is not opened.
QueueMemberLoose(s) ==
  /\ Queue(<<"member", cycle, s>>,
           Queued(Branch(Author[s], Conversation[s]), Conversation[s], NoMessage))
  /\ UNCHANGED <<queueVars, thread, rest, work, relays, bounds>>

\* A lifecycle message about a member; a refused admission opens no branch.
QueueMember(s) ==
  LET id == <<"member", cycle, s>>
      branch == Branch(Author[s], Conversation[s])
  IN
  /\ IF s \in Refused
       THEN /\ thread' = thread
            /\ Queue(id, Queued(NoBranch, Conversation[s], NoMessage))
       ELSE /\ thread' = Insert(thread, branch, Opened(id, Conversation[s]))
            /\ Queue(id, Queued(branch, Conversation[s], NoMessage))
  /\ UNCHANGED <<queueVars, rest, work, relays, bounds>>

\* A distribution freezes the branch of a share; a member without one gets an
\* anchor to reply to, in the conversation of the note of the member's row.
PlanTreat(t) ==
  LET branch == First(Recipient[t])
      anchor == <<"anchor", branch>>
  IN
  /\ treat[t] = NoBranch
  /\ treat' = [treat EXCEPT ![t] = branch]
  /\ IF branch \in DOMAIN thread
       THEN UNCHANGED <<thread, message>>
       ELSE \E channel \in Streams \cup {Notes} :
              /\ thread' = Insert(thread, branch, Opened(anchor, channel))
              /\ Queue(anchor, Queued(branch, Notes, NoMessage))
  /\ UNCHANGED <<cycle, switch, invited, live, rest, work, relays, bounds>>

\* The worker queues the notice of a share that is settled or skipped, in the
\* branch frozen with it.
QueueTreat(t) ==
  /\ work = Idle /\ treat[t] # NoBranch
  /\ Queue(<<"treat", t>>, Queued(treat[t], Notes, NoMessage))
  /\ UNCHANGED <<queueVars, thread, rest, work, relays, bounds>>

\* One announcement per payment, in the chat that is live when it is queued.
QueueFeeder(f) ==
  /\ Queue(<<"feeder", f>>, Queued(NoBranch, live, NoMessage))
  /\ UNCHANGED <<queueVars, thread, rest, work, relays, bounds>>

\* The outcome of a feeding replies to its announcement if that went to a
\* chat, otherwise it is a message of its own in the live chat, if there is one.
QueueOutcome(f) ==
  LET trigger == <<"feeder", f>>
      replies == trigger \in DOMAIN message /\ message[trigger].channel # Notes
      channel == IF replies THEN message[trigger].channel ELSE live
  IN
  /\ channel # Notes
  /\ Queue(<<"outcome", f, channel>>,
           Queued(NoBranch, channel, IF replies THEN trigger ELSE NoMessage))
  /\ UNCHANGED <<queueVars, thread, rest, work, relays, bounds>>

\* Fault: a notice waits for none.
Unchained(channel) == NoMessage

\* The notice before, in the same destination, if there was one.
Previous(channel) ==
  LET before == <<"notice", channel, switch.sequence>> IN
  IF before \in DOMAIN message THEN before ELSE NoMessage

\* The chat that hears of a reading: the live one, or for a pause at night one
\* that has just ended.
Chats(reading) ==
  IF live # Notes THEN {{live}}
  ELSE {{}} \cup IF reading = "paused" THEN {{a} : a \in Streams} ELSE {}

\* The notices of a reading: a note, and a message to the chat.
Notices(chats) == {<<"notice", c, switch.sequence + 1>> : c \in {Notes} \cup chats}

\* The status worker has a confirmed reading of the pause switch.  A change is
\* stored together with its notices; a first reading that is off is only stored.
Observe(reading) ==
  /\ switch.state # reading /\ switch.sequence < regime.readings
  /\ switch' = [state |-> reading, sequence |-> switch.sequence + 1]
  /\ IF switch.state = "unknown" /\ reading = "enabled"
       THEN message' = message
       ELSE \E chats \in Chats(reading) :
              message' = [id \in DOMAIN message \cup Notices(chats) |->
                            IF id \in DOMAIN message THEN message[id]
                            ELSE Queued(NoBranch, id[2], Previous(id[2]))]
  /\ UNCHANGED <<cycle, thread, treat, invited, live, rest, work, relays, bounds>>

\* With the switch confirmed off a live stream is invited to, once in a while.
Invite ==
  /\ switch.state = "enabled" /\ live # Notes /\ invited < regime.invitations
  /\ invited' = invited + 1
  /\ Queue(<<"invitation", live, invited + 1>>, Queued(NoBranch, live, NoMessage))
  /\ UNCHANGED <<cycle, thread, treat, switch, live, rest, work, relays, bounds>>

\* Daily rollover or reset: a new cycle, whose members have new branches.
NewCycle ==
  /\ cycle < regime.cycles /\ cycle' = cycle + 1
  /\ UNCHANGED <<thread, message, treat, switch, invited, live, rest, work, relays, bounds>>

\* A stream starts or ends.
StreamChanges ==
  /\ live' \in (Streams \cup {Notes}) \ {live}
  /\ UNCHANGED <<cycle, thread, message, treat, switch, invited, rest, work, relays, bounds>>

-----------------------------------------------------------------------------
(* The worker.                                                             *)

Waiting(m) == message[m].state = "queued"

StartPass ==
  /\ work = Idle /\ rest = {}
  /\ rest' = {m \in DOMAIN message : Waiting(m)} /\ rest' # {}
  /\ UNCHANGED <<queueVars, thread, message, work, relays, bounds>>

Opens(m) == message[m].branch # NoBranch /\ thread[message[m].branch].join = m

\* A message other than the first of its branch needs the event to reply to.
Rooted(m) ==
  message[m].branch = NoBranch \/ Opens(m) \/ thread[message[m].branch].event # NoEvent

\* Fault: the branch is not waited for.
ReadyUnrooted(m) == message[m].parent = NoMessage \/ ~Waiting(message[m].parent)

\* It can go out: its branch has a root, and the message before is submitted.
Ready(m) == Rooted(m) /\ (message[m].parent = NoMessage \/ ~Waiting(message[m].parent))

\* The worker comes to a row of its pass.
Visit(m) ==
  /\ work = Idle /\ m \in rest
  /\ rest' = rest \ {m}
  /\ work' = IF ~Ready(m) THEN Idle
             ELSE [stage |-> IF message[m].signed = NoEvent THEN "sign" ELSE "send",
                   id |-> m, event |-> message[m].signed]
  /\ UNCHANGED <<queueVars, thread, message, relays, bounds>>

\* Signing a message again makes another event.
Fresh(m) == IF \E r \in relays : r.id = m THEN Another ELSE Original

\* Fault: the event goes out before it is stored.
SignUnsaved ==
  /\ work.stage = "sign"
  /\ work' = [work EXCEPT !.stage = "send", !.event = Fresh(work.id)]
  /\ UNCHANGED <<queueVars, thread, message, rest, relays, bounds>>

\* The event is signed ...
Sign ==
  /\ work.stage = "sign"
  /\ work' = [work EXCEPT !.stage = "save", !.event = Fresh(work.id)]
  /\ UNCHANGED <<queueVars, thread, message, rest, relays, bounds>>

\* ... and stored in the row before it is sent.
SaveSigned ==
  /\ work.stage = "save"
  /\ message' = [message EXCEPT ![work.id].signed = work.event]
  /\ work' = [work EXCEPT !.stage = "send"]
  /\ UNCHANGED <<queueVars, thread, rest, relays, bounds>>

\* The conversation a message goes to, and the event it replies to.
Channel(m) ==
  IF message[m].branch # NoBranch /\ thread[message[m].branch].channel # Notes
    THEN thread[message[m].branch].channel ELSE message[m].channel

ReplyTo(m) ==
  LET branch == message[m].branch IN
  IF branch # NoBranch
    THEN IF Opens(m) THEN <<>> ELSE <<thread[branch].join, thread[branch].event>>
    ELSE IF message[m].parent = NoMessage \/ message[m].channel = Notes THEN <<>>
         ELSE <<message[m].parent, message[message[m].parent].signed>>

\* The relays get the event, and say so.
Send ==
  /\ work.stage = "send"
  /\ relays' = relays \cup {[id |-> work.id, event |-> work.event,
                             channel |-> Channel(work.id), reply |-> ReplyTo(work.id)]}
  /\ work' = [work EXCEPT !.stage = "submit"]
  /\ UNCHANGED <<queueVars, thread, message, rest, bounds>>

\* Fault: the root of the branch is left out.
SubmitRootless ==
  LET m == work.id IN
  /\ work.stage = "submit"
  /\ message' = [message EXCEPT ![m].state = "submitted", ![m].signed = work.event]
  /\ work' = Idle
  /\ UNCHANGED <<queueVars, thread, rest, relays, bounds>>

\* In one transaction the root of the branch and the message are recorded.
Submit ==
  LET m == work.id IN
  /\ work.stage = "submit"
  /\ message' = [message EXCEPT ![m].state = "submitted", ![m].signed = work.event]
  /\ thread' = IF Opens(m) THEN [thread EXCEPT ![message[m].branch].event = work.event]
               ELSE thread
  /\ work' = Idle
  /\ UNCHANGED <<queueVars, rest, relays, bounds>>

\* Signing, the database or the relays fail, or an answer is lost: the message
\* stays as it is in its row, for a later pass.
Fail ==
  /\ faults < regime.faults /\ faults' = faults + 1
  /\ work # Idle /\ work' = Idle
  /\ UNCHANGED <<queueVars, thread, message, rest, relays, regime>>

\* The process dies; it starts with a new pass.
Crash ==
  /\ faults < regime.faults /\ faults' = faults + 1
  /\ work' = Idle /\ rest' = {}
  /\ UNCHANGED <<queueVars, thread, message, relays, regime>>

-----------------------------------------------------------------------------
Worker == StartPass \/ (\E m \in rest : Visit(m)) \/ Sign \/ SaveSigned \/ Send \/ Submit

Next ==
  \/ /\ \/ \E s \in Sources : QueueMember(s)
        \/ \E t \in Treats : PlanTreat(t) \/ QueueTreat(t)
        \/ \E f \in Feedings : QueueFeeder(f) \/ QueueOutcome(f)
        \/ \E reading \in {"paused", "enabled"} : Observe(reading)
        \/ Invite
     /\ Cardinality(DOMAIN message') <= regime.messages
  \/ NewCycle
  \/ StreamChanges
  \/ Worker \/ Fail \/ Crash

\* The worker runs every ten seconds for as long as the process does, and a
\* pass visits every row it has read.
Spec == Init /\ [][Next]_vars /\ WF_vars(Worker)

-----------------------------------------------------------------------------
Channels == Streams \cup {Notes}

\* Every variable keeps its type, and rows refer to rows that exist.
TypeOK ==
  /\ cycle \in Nat /\ invited \in Nat /\ live \in Channels
  /\ \A b \in DOMAIN thread :
       thread[b] \in [join : DOMAIN message, event : Signed \cup {NoEvent}, channel : Channels]
  /\ \A m \in DOMAIN message :
       message[m] \in [state : {"queued", "submitted"}, signed : Signed \cup {NoEvent},
                       branch : DOMAIN thread \cup {NoBranch}, channel : Channels,
                       parent : DOMAIN message \cup {NoMessage}]
  /\ treat \in [Treats -> DOMAIN thread \cup {NoBranch}]
  /\ switch \in [state : {"unknown", "paused", "enabled"}, sequence : Nat]
  /\ rest \subseteq DOMAIN message
  /\ work \in {Idle} \cup [stage : {"sign", "save", "send", "submit"},
                           id : DOMAIN message, event : Signed \cup {NoEvent}]
  /\ regime \in Regimes /\ faults \in 0..regime.faults

\* However often a message is queued, retried or cut short by a crash, and
\* whichever answer is lost, the relays see one event of it.
OneEventPerMessage == \A r, q \in relays : r.id = q.id => r.event = q.event

\* A reply on the relays is to an event that they have, in the same
\* conversation: nothing is ever said in reply to an event that was never sent,
\* or that a retry has replaced.
RepliesFound ==
  \A r \in relays : r.reply # <<>> =>
    \E q \in relays : r.reply = <<q.id, q.event>> /\ q.channel = r.channel

\* A member's message goes to the conversation it is about, whichever branch
\* the member had before and whichever stream is live by then.
OwnConversation ==
  \A r \in relays : r.id[1] = "member" => r.channel = Conversation[r.id[3]]

\* Consecutive notices of the pause switch keep their order in a destination.
NoticesInOrder ==
  \A r \in relays : r.id[1] = "notice" =>
    LET before == <<"notice", r.id[2], r.id[3] - 1>> IN
    before \in DOMAIN message => \E q \in relays : q.id = before

\* Every message of a behaviour is submitted in the end: no branch waits for a
\* root that never comes, and no notice for one that is not sent.
EverySubmitted == []<>(\A m \in DOMAIN message : ~Waiting(m))
=============================================================================
