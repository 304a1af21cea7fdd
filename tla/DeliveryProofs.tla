--------------------------- MODULE DeliveryProofs ---------------------------
(***************************************************************************)
(* Every event that the relays have of a message is the one stored in its  *)
(* row, and every event that is replied to has been sent.                  *)
(***************************************************************************)
EXTENDS Delivery, TLAPS

\* The relays have the stored event of m.
Sent(m) ==
  \E q \in relays : q.id = m /\ q.event = message[m].signed /\ q.channel = Channel(m)

\* What the relays have is what is stored.
RelaysInv ==
  \A r \in relays : /\ r.id \in DOMAIN message /\ r.event = message[r.id].signed
                    /\ r.event # NoEvent /\ r.channel = Channel(r.id)

\* The worker holds the stored event from the moment it is stored, and what it
\* publishes is not waiting for another message.
WorkInv ==
  work # Idle =>
    /\ work.stage # "submit" => Ready(work.id)
    /\ work.stage \in {"sign", "save"} => message[work.id].signed = NoEvent
    /\ work.stage # "sign" => work.event # NoEvent
    /\ work.stage \in {"send", "submit"} => message[work.id].signed = work.event
    /\ work.stage = "submit" => Sent(work.id)

\* The messages of a branch go to its conversation.
BranchInv ==
  /\ \A b \in DOMAIN thread : b[3] # FirstOne => thread[b].channel = b[3]
  /\ \A m \in DOMAIN message :
       message[m].branch # NoBranch =>
         message[m].channel \in {Notes, thread[message[m].branch].channel}

\* The root of a branch has been sent; it is a message of the branch.
RootInv ==
  \A b \in DOMAIN thread :
    thread[b].event # NoEvent =>
      /\ Sent(thread[b].join) /\ message[thread[b].join].signed = thread[b].event
      /\ message[thread[b].join].branch = b

\* A message waits for one outside the branches, in its own conversation.
ParentInv ==
  \A m \in DOMAIN message :
    /\ ~Waiting(m) => Sent(m)
    /\ message[m].parent # NoMessage =>
         /\ message[m].branch = NoBranch /\ message[message[m].parent].branch = NoBranch
         /\ message[message[m].parent].channel = message[m].channel

\* Feeder announcements and notices are outside the branches; a notice and a
\* member's message go where their identity says.
IdentityInv ==
  \A m \in DOMAIN message :
    /\ m[1] \in {"feeder", "notice"} => message[m].branch = NoBranch
    /\ m[1] = "notice" => message[m].channel = m[2]
    /\ m[1] = "member" => message[m].channel = Conversation[m[3]]
    /\ m[1] = "member" /\ message[m].branch # NoBranch =>
         thread[message[m].branch].channel = Conversation[m[3]]

IInv ==
  /\ TypeOK /\ RelaysInv /\ WorkInv /\ BranchInv /\ RootInv /\ ParentInv /\ IdentityInv
  /\ RepliesFound


-----------------------------------------------------------------------------
(* Queueing only adds rows and branches.                                   *)

Grows ==
  /\ \A m \in DOMAIN message : m \in DOMAIN message' /\ message'[m] = message[m]
  /\ \A b \in DOMAIN thread : b \in DOMAIN thread' /\ thread'[b] = thread[b]
  /\ relays' = relays /\ work' = work

NewRows ==
  \A m \in DOMAIN message' : m \notin DOMAIN message =>
    /\ message'[m].state = "queued"
    /\ message'[m].branch # NoBranch =>
         message'[m].channel \in {Notes, thread'[message'[m].branch].channel}
    /\ message'[m].parent # NoMessage =>
         /\ message'[m].branch = NoBranch /\ message'[m].parent \in DOMAIN message
         /\ message[message'[m].parent].branch = NoBranch
         /\ message[message'[m].parent].channel = message'[m].channel
    /\ m[1] \in {"feeder", "notice"} => message'[m].branch = NoBranch
    /\ m[1] = "notice" => message'[m].channel = m[2]
    /\ m[1] = "member" => message'[m].channel = Conversation[m[3]]
    /\ m[1] = "member" /\ message'[m].branch # NoBranch =>
         thread'[message'[m].branch].channel = Conversation[m[3]]

NewBranches ==
  \A b \in DOMAIN thread' : b \notin DOMAIN thread =>
    /\ thread'[b].event = NoEvent
    /\ b[3] # FirstOne => thread'[b].channel = b[3]

(* What is known of a row, its branch and its parent. *)
LEMMA RowType ==
  ASSUME TypeOK, NEW m \in DOMAIN message
  PROVE  /\ message[m].branch # NoBranch => message[m].branch \in DOMAIN thread
         /\ message[m].parent # NoMessage => message[m].parent \in DOMAIN message
         /\ message[m].state \in {"queued", "submitted"}
         /\ message[m].signed \in Signed \cup {NoEvent} /\ message[m].channel \in Channels
  BY DEF TypeOK

LEMMA BranchType ==
  ASSUME TypeOK, NEW b \in DOMAIN thread
  PROVE  /\ thread[b].join \in DOMAIN message /\ thread[b].channel \in Channels
         /\ thread[b].event \in Signed \cup {NoEvent}
  BY DEF TypeOK

LEMMA WorkType ==
  ASSUME TypeOK, work # Idle
  PROVE  /\ work.id \in DOMAIN message /\ work.event \in Signed \cup {NoEvent}
         /\ work.stage \in {"sign", "save", "send", "submit"}
  BY DEF TypeOK

(* A row that stays says what it said. *)
LEMMA OldRows ==
  ASSUME TypeOK, Grows, NEW m \in DOMAIN message
  PROVE  /\ Channel(m)' = Channel(m) /\ Opens(m)' = Opens(m) /\ Waiting(m)' = Waiting(m)
         /\ Sent(m) => Sent(m)'
         /\ Ready(m) => Ready(m)'
<1>1. message'[m] = message[m] /\ relays' = relays
  BY DEF Grows
<1>2. message[m].branch # NoBranch =>
        /\ message[m].branch \in DOMAIN thread
        /\ thread'[message[m].branch] = thread[message[m].branch]
  BY RowType DEF Grows
<1>3. message[m].parent # NoMessage =>
        message'[message[m].parent] = message[message[m].parent]
  BY RowType DEF Grows
<1>4. Channel(m)' = Channel(m) /\ Opens(m)' = Opens(m) /\ Waiting(m)' = Waiting(m)
  BY <1>1, <1>2 DEF Channel, Opens, Waiting
<1>5. Sent(m) => Sent(m)'
  BY <1>1, <1>4 DEF Sent
<1>6. Ready(m) => Ready(m)'
  BY <1>1, <1>2, <1>3, <1>4 DEF Ready, Rooted, Waiting
<1> QED
  BY <1>4, <1>5, <1>6

(* So queueing keeps the invariant. *)
LEMMA GrowKeeps ==
  ASSUME IInv, TypeOK', Grows, NewRows, NewBranches
  PROVE  IInv'
<1> USE DEF IInv
<1>1. RelaysInv'
  BY OldRows DEF RelaysInv, Grows
<1>2. WorkInv'
  BY OldRows, WorkType DEF WorkInv, Grows
<1>3. BranchInv'
  <2>1. \A b \in DOMAIN thread' : b[3] # FirstOne => thread'[b].channel = b[3]
    BY DEF BranchInv, Grows, NewBranches
  <2>2. ASSUME NEW m \in DOMAIN message', message'[m].branch # NoBranch
        PROVE  message'[m].channel \in {Notes, thread'[message'[m].branch].channel}
    BY <2>2, RowType DEF BranchInv, Grows, NewRows
  <2> QED
    BY <2>1, <2>2 DEF BranchInv
<1>4. RootInv'
  <2> SUFFICES ASSUME NEW b \in DOMAIN thread', thread'[b].event # NoEvent
               PROVE  /\ Sent(thread[b].join)'
                      /\ message'[thread'[b].join].signed = thread'[b].event
                      /\ message'[thread'[b].join].branch = b
    BY DEF RootInv
  <2>1. b \in DOMAIN thread /\ thread'[b] = thread[b]
    BY DEF Grows, NewBranches
  <2>2. thread[b].join \in DOMAIN message
    BY <2>1, BranchType
  <2> DEFINE j == thread[b].join
  <2>3. Sent(j) /\ message[j].signed = thread[b].event /\ message[j].branch = b
    BY <2>1 DEF RootInv
  <2>4. \E q \in relays' : q.id = j /\ q.event = message'[j].signed /\ q.channel = Channel(j)'
    <3>1. message'[j] = message[j] /\ relays' = relays
      BY <2>2 DEF Grows
    <3>2. Channel(j)' = Channel(j)
      BY <2>1, <3>1, <2>3 DEF Channel
    <3> QED
      BY <2>3, <3>1, <3>2 DEF Sent
  <2> QED
    BY <2>1, <2>2, <2>3, <2>4 DEF Sent, Grows
<1>5. ParentInv'
  <2> SUFFICES ASSUME NEW m \in DOMAIN message'
               PROVE  /\ Waiting(m)' \/ Sent(m)'
                      /\ message'[m].parent # NoMessage =>
                           /\ message'[m].branch = NoBranch
                           /\ message'[message'[m].parent].branch = NoBranch
                           /\ message'[message'[m].parent].channel = message'[m].channel
    BY DEF ParentInv
  <2>1. CASE m \in DOMAIN message
    BY <2>1, OldRows, RowType DEF ParentInv, Grows
  <2>2. CASE m \notin DOMAIN message
    BY <2>2 DEF NewRows, Grows, Waiting
  <2> QED
    BY <2>1, <2>2
<1>6. IdentityInv'
  <2> SUFFICES ASSUME NEW m \in DOMAIN message'
               PROVE  /\ m[1] \in {"feeder", "notice"} => message'[m].branch = NoBranch
                      /\ m[1] = "notice" => message'[m].channel = m[2]
                      /\ m[1] = "member" => message'[m].channel = Conversation[m[3]]
                      /\ m[1] = "member" /\ message'[m].branch # NoBranch =>
                           thread'[message'[m].branch].channel = Conversation[m[3]]
    BY DEF IdentityInv
  <2>1. CASE m \in DOMAIN message
    BY <2>1, RowType DEF IdentityInv, Grows
  <2>2. CASE m \notin DOMAIN message
    BY <2>2 DEF NewRows
  <2> QED
    BY <2>1, <2>2
<1>7. RepliesFound'
  BY DEF RepliesFound, Grows
<1> QED
  BY <1>1, <1>2, <1>3, <1>4, <1>5, <1>6, <1>7

-----------------------------------------------------------------------------
(* Each way of queueing grows the rows so.                                 *)

(* A message outside the branches that waits for none, or for one like it. *)
LEMMA QueueAlone ==
  ASSUME IInv, NEW id, NEW channel \in Channels, NEW parent \in DOMAIN message \cup {NoMessage},
         Queue(id, Queued(NoBranch, channel, parent)),
         UNCHANGED <<thread, rest, work, relays, treat, cycle, switch, live, bounds>>,
         invited' \in Nat,
         parent # NoMessage => /\ message[parent].branch = NoBranch
                               /\ message[parent].channel = channel,
         id[1] # "notice", id[1] = "member" => channel = Conversation[id[3]]
  PROVE  IInv'
<1> DEFINE row == Queued(NoBranch, channel, parent)
<1>1. /\ DOMAIN message' = DOMAIN message \cup {id}
      /\ \A x \in DOMAIN message : message'[x] = message[x]
      /\ id \notin DOMAIN message => message'[id] = row
  BY DEF Queue, Insert
<1>2. Grows
  BY <1>1 DEF Grows
<1>3. NewRows
  BY <1>1 DEF NewRows, Queued
<1>4. NewBranches
  BY DEF NewBranches
<1>5. TypeOK'
  <2>1. \A m \in DOMAIN message' :
          message'[m] \in [state : {"queued", "submitted"}, signed : Signed \cup {NoEvent},
                           branch : DOMAIN thread' \cup {NoBranch}, channel : Channels,
                           parent : DOMAIN message' \cup {NoMessage}]
    BY <1>1 DEF IInv, TypeOK, Queued
  <2>2. \A b \in DOMAIN thread' :
          thread'[b] \in [join : DOMAIN message', event : Signed \cup {NoEvent},
                          channel : Channels]
    BY <1>1 DEF IInv, TypeOK
  <2>3. work' \in {Idle} \cup [stage : {"sign", "save", "send", "submit"},
                               id : DOMAIN message', event : Signed \cup {NoEvent}]
    BY <1>1 DEF IInv, TypeOK
  <2>4. rest' \subseteq DOMAIN message'
    BY <1>1 DEF IInv, TypeOK
  <2> QED
    BY <2>1, <2>2, <2>3, <2>4 DEF IInv, TypeOK, bounds
<1> QED
  BY <1>2, <1>3, <1>4, <1>5, GrowKeeps

(* A message that replies in a branch, or opens it. *)
LEMMA QueueInBranch ==
  ASSUME IInv, NEW id, NEW branch, NEW join, NEW channel \in Channels, NEW own \in Channels,
         Queue(id, Queued(branch, own, NoMessage)),
         thread' = Insert(thread, branch, Opened(join, channel)),
         branch \notin DOMAIN thread => join = id,
         branch # NoBranch, branch[3] # FirstOne => channel = branch[3],
         LET in == IF branch \in DOMAIN thread THEN thread[branch].channel ELSE channel IN
           own \in {Notes, in} /\ (id[1] = "member" => in = Conversation[id[3]]),
         id[1] \notin {"feeder", "notice"}, id[1] = "member" => own = Conversation[id[3]],
         UNCHANGED <<rest, work, relays, cycle, switch, invited, live, bounds>>,
         treat' \in [Treats -> DOMAIN thread \cup {branch, NoBranch}]
  PROVE  IInv'
<1>1. /\ DOMAIN message' = DOMAIN message \cup {id}
      /\ \A x \in DOMAIN message : message'[x] = message[x]
      /\ id \notin DOMAIN message => message'[id] = Queued(branch, own, NoMessage)
  BY DEF Queue, Insert
<1>2. /\ DOMAIN thread' = DOMAIN thread \cup {branch}
      /\ \A x \in DOMAIN thread : thread'[x] = thread[x]
      /\ branch \notin DOMAIN thread => thread'[branch] = Opened(join, channel)
  BY DEF Insert
<1>3. Grows
  BY <1>1, <1>2 DEF Grows
<1>4. thread'[branch].channel =
        IF branch \in DOMAIN thread THEN thread[branch].channel ELSE channel
  BY <1>2 DEF Opened
<1>5. NewRows
  BY <1>1, <1>4 DEF NewRows, Queued
<1>6. NewBranches
  BY <1>2 DEF NewBranches, Opened
<1>7. TypeOK'
  <2>1. \A m \in DOMAIN message' :
          message'[m] \in [state : {"queued", "submitted"}, signed : Signed \cup {NoEvent},
                           branch : DOMAIN thread' \cup {NoBranch}, channel : Channels,
                           parent : DOMAIN message' \cup {NoMessage}]
    BY <1>1, <1>2 DEF IInv, TypeOK, Queued
  <2>2. \A b \in DOMAIN thread' :
          thread'[b] \in [join : DOMAIN message', event : Signed \cup {NoEvent},
                          channel : Channels]
    BY <1>1, <1>2 DEF IInv, TypeOK, Opened
  <2>3. work' \in {Idle} \cup [stage : {"sign", "save", "send", "submit"},
                               id : DOMAIN message', event : Signed \cup {NoEvent}]
    BY <1>1 DEF IInv, TypeOK
  <2>4. rest' \subseteq DOMAIN message'
    BY <1>1 DEF IInv, TypeOK
  <2> QED
    BY <1>2, <2>1, <2>2, <2>3, <2>4 DEF IInv, TypeOK, bounds
<1> QED
  BY <1>3, <1>5, <1>6, <1>7, GrowKeeps

(* The queueing actions. *)
LEMMA QueueMemberKeeps ==
  ASSUME IInv, NEW s \in Sources, QueueMember(s)
  PROVE  IInv'
<1> DEFINE id == <<"member", cycle, s>>
           branch == Branch(Author[s], Conversation[s])
<1>0. /\ Conversation[s] \in Channels
      /\ id[1] = "member" /\ id[3] = s
  BY SourcesAssumption DEF Channels
<1>1. CASE s \in Refused
  <2>1. Queue(id, Queued(NoBranch, Conversation[s], NoMessage))
        /\ UNCHANGED <<thread, rest, work, relays, treat, cycle, switch, invited, live, bounds>>
    BY <1>1 DEF QueueMember, queueVars
  <2>2. invited' \in Nat
    BY <2>1 DEF IInv, TypeOK
  <2> HIDE DEF id
  <2> QED
    BY <1>0, <2>1, <2>2, QueueAlone
<1>2. CASE s \notin Refused
  <2>1. /\ Queue(id, Queued(branch, Conversation[s], NoMessage))
        /\ thread' = Insert(thread, branch, Opened(id, Conversation[s]))
        /\ UNCHANGED <<rest, work, relays, treat, cycle, switch, invited, live, bounds>>
    BY <1>2 DEF QueueMember, queueVars
  <2>2. branch # NoBranch /\ branch[3] \in {FirstOne, Conversation[s]}
    BY DEF Branch, First, NoBranch
  <2>3. branch[3] # FirstOne => Conversation[s] = branch[3]
    BY <2>2
  <2>4. branch \in DOMAIN thread => thread[branch].channel = Conversation[s]
    <3>1. CASE branch = First(Author[s])
      <4>1. <<Author[s], cycle, Conversation[s]>> # First(Author[s])
        BY <1>0, StreamsAssumption DEF First, Channels, FirstOne, Notes
      <4> QED
        BY <3>1, <4>1 DEF Branch
    <3>2. CASE branch # First(Author[s])
      <4>1. branch = <<Author[s], cycle, Conversation[s]>>
        BY <3>2 DEF Branch
      <4>2. branch[3] # FirstOne /\ branch[3] = Conversation[s]
        BY <1>0, <4>1, StreamsAssumption DEF Channels, FirstOne, Notes
      <4> QED
        BY <4>2 DEF IInv, BranchInv
    <3> QED
      BY <3>1, <3>2
  <2>5. treat' \in [Treats -> DOMAIN thread \cup {branch, NoBranch}]
    BY <2>1 DEF IInv, TypeOK
  <2> HIDE DEF id, branch
  <2> QED
    BY <1>0, <2>1, <2>2, <2>3, <2>4, <2>5, QueueInBranch
<1> QED
  BY <1>1, <1>2

LEMMA PlanTreatKeeps ==
  ASSUME IInv, NEW t \in Treats, PlanTreat(t)
  PROVE  IInv'
<1> DEFINE branch == First(Recipient[t])
           anchor == <<"anchor", branch>>
<1>1. branch # NoBranch /\ branch[3] = FirstOne
  BY DEF First, NoBranch
<1>2. CASE branch \in DOMAIN thread
  <2>1. UNCHANGED <<thread, message, cycle, switch, invited, live, rest, work, relays, bounds>>
        /\ treat' = [treat EXCEPT ![t] = branch]
    BY <1>2 DEF PlanTreat
  <2>2. treat' \in [Treats -> DOMAIN thread' \cup {NoBranch}]
    BY <1>2, <2>1 DEF IInv, TypeOK
  <2>3. TypeOK'
    BY <2>1, <2>2 DEF IInv, TypeOK, bounds
  <2>4. Grows /\ NewRows /\ NewBranches
    BY <2>1 DEF Grows, NewRows, NewBranches
  <2> QED
    BY <2>3, <2>4, GrowKeeps
<1>3. CASE branch \notin DOMAIN thread
  <2>1. PICK channel \in Streams \cup {Notes} :
          /\ thread' = Insert(thread, branch, Opened(anchor, channel))
          /\ Queue(anchor, Queued(branch, Notes, NoMessage))
    BY <1>3 DEF PlanTreat
  <2>2. UNCHANGED <<rest, work, relays, cycle, switch, invited, live, bounds>>
        /\ treat' = [treat EXCEPT ![t] = branch]
    BY DEF PlanTreat
  <2>3. treat' \in [Treats -> DOMAIN thread \cup {branch, NoBranch}]
    BY <2>2 DEF IInv, TypeOK
  <2>4. anchor[1] \notin {"feeder", "notice"} /\ anchor[1] # "member"
    OBVIOUS
  <2>5. channel \in Channels /\ Notes \in Channels
    BY DEF Channels
  <2> HIDE DEF branch, anchor
  <2> QED
    BY <1>1, <1>3, <2>1, <2>2, <2>3, <2>4, <2>5, QueueInBranch
<1> QED
  BY <1>2, <1>3

LEMMA QueueTreatKeeps ==
  ASSUME IInv, NEW t \in Treats, QueueTreat(t)
  PROVE  IInv'
<1> DEFINE id == <<"treat", t>>
           branch == treat[t]
<1>1. branch \in DOMAIN thread /\ branch # NoBranch
  BY DEF QueueTreat, IInv, TypeOK
<1>2. id[1] = "treat"
  OBVIOUS
<1>3. /\ Queue(id, Queued(branch, Notes, NoMessage))
      /\ UNCHANGED <<thread, rest, work, relays, treat, cycle, switch, invited, live, bounds>>
  BY DEF QueueTreat, queueVars
<1>4. /\ DOMAIN message' = DOMAIN message \cup {id}
      /\ \A x \in DOMAIN message : message'[x] = message[x]
      /\ id \notin DOMAIN message => message'[id] = Queued(branch, Notes, NoMessage)
  BY <1>3 DEF Queue, Insert
<1> HIDE DEF id, branch
<1>5. Grows
  BY <1>3, <1>4 DEF Grows
<1>6. NewRows
  BY <1>2, <1>4 DEF NewRows, Queued
<1>7. NewBranches
  BY <1>3 DEF NewBranches
<1>8. TypeOK'
  <2>1. \A m \in DOMAIN message' :
          message'[m] \in [state : {"queued", "submitted"}, signed : Signed \cup {NoEvent},
                           branch : DOMAIN thread' \cup {NoBranch}, channel : Channels,
                           parent : DOMAIN message' \cup {NoMessage}]
    BY <1>1, <1>3, <1>4 DEF IInv, TypeOK, Queued, Channels
  <2>2. \A b \in DOMAIN thread' :
          thread'[b] \in [join : DOMAIN message', event : Signed \cup {NoEvent},
                          channel : Channels]
    BY <1>3, <1>4 DEF IInv, TypeOK
  <2>3. work' \in {Idle} \cup [stage : {"sign", "save", "send", "submit"},
                               id : DOMAIN message', event : Signed \cup {NoEvent}]
        /\ rest' \subseteq DOMAIN message'
    BY <1>3, <1>4 DEF IInv, TypeOK
  <2> QED
    BY <1>3, <2>1, <2>2, <2>3 DEF IInv, TypeOK, bounds
<1> QED
  BY <1>5, <1>6, <1>7, <1>8, GrowKeeps

LEMMA QueueFeederKeeps ==
  ASSUME IInv, NEW f \in Feedings, QueueFeeder(f) \/ QueueOutcome(f)
  PROVE  IInv'
<1> DEFINE trigger == <<"feeder", f>>
<1>1. trigger[1] = "feeder"
  OBVIOUS
<1>2. UNCHANGED <<thread, rest, work, relays, treat, cycle, switch, live, bounds>>
      /\ invited' \in Nat /\ live \in Channels
  BY DEF QueueFeeder, QueueOutcome, queueVars, IInv, TypeOK
<1>3. CASE QueueFeeder(f)
  <2>1. Queue(trigger, Queued(NoBranch, live, NoMessage))
    BY <1>3 DEF QueueFeeder
  <2> HIDE DEF trigger
  <2> QED
    BY <1>1, <1>2, <2>1, QueueAlone
<1>4. CASE QueueOutcome(f)
  <2> DEFINE replies == trigger \in DOMAIN message /\ message[trigger].channel # Notes
             channel == IF replies THEN message[trigger].channel ELSE live
             parent == IF replies THEN trigger ELSE NoMessage
             id == <<"outcome", f, channel>>
  <2>1. Queue(id, Queued(NoBranch, channel, parent)) /\ id[1] = "outcome"
    BY <1>4 DEF QueueOutcome
  <2>2. channel \in Channels /\ parent \in DOMAIN message \cup {NoMessage}
    BY <1>2, RowType DEF IInv
  <2> HIDE DEF trigger
  <2>3. parent # NoMessage => /\ message[parent].branch = NoBranch
                              /\ message[parent].channel = channel
    BY <1>1 DEF IInv, IdentityInv
  <2> HIDE DEF id, channel, parent
  <2> QED
    BY <1>2, <2>1, <2>2, <2>3, QueueAlone
<1> QED
  BY <1>3, <1>4

LEMMA InviteKeeps ==
  ASSUME IInv, Invite
  PROVE  IInv'
<1> DEFINE id == <<"invitation", live, invited + 1>>
<1>1. id[1] = "invitation"
  OBVIOUS
<1>2. /\ Queue(id, Queued(NoBranch, live, NoMessage))
      /\ UNCHANGED <<thread, rest, work, relays, treat, cycle, switch, live, bounds>>
      /\ invited' \in Nat /\ live \in Channels
  BY DEF Invite, IInv, TypeOK
<1> HIDE DEF id
<1> QED
  BY <1>1, <1>2, QueueAlone

(* A reading adds notices that wait for the one before in their destination. *)
LEMMA ObserveKeeps ==
  ASSUME IInv, NEW reading \in {"paused", "enabled"}, Observe(reading)
  PROVE  IInv'
<1>1. /\ UNCHANGED <<cycle, thread, treat, invited, live, rest, work, relays, bounds>>
      /\ switch' \in [state : {"unknown", "paused", "enabled"}, sequence : Nat]
  BY DEF Observe, IInv, TypeOK
<1>2. CASE message' = message
  <2>1. TypeOK'
    BY <1>1, <1>2 DEF IInv, TypeOK, bounds
  <2>2. Grows /\ NewRows /\ NewBranches
    BY <1>1, <1>2 DEF Grows, NewRows, NewBranches
  <2> QED
    BY <2>1, <2>2, GrowKeeps
<1>3. ASSUME NEW chats \in Chats(reading),
             message' = [id \in DOMAIN message \cup Notices(chats) |->
                           IF id \in DOMAIN message THEN message[id]
                           ELSE Queued(NoBranch, id[2], Previous(id[2]))]
      PROVE  IInv'
  <2>1. chats \subseteq Channels
    BY DEF Chats, Channels, IInv, TypeOK
  <2>2. ASSUME NEW id \in Notices(chats)
        PROVE  /\ id[1] = "notice" /\ id[2] \in Channels
    BY <2>1 DEF Notices, Channels
  <2>3. ASSUME NEW channel \in Channels, Previous(channel) # NoMessage
        PROVE  /\ Previous(channel) \in DOMAIN message
               /\ message[Previous(channel)].branch = NoBranch
               /\ message[Previous(channel)].channel = channel
    <3> DEFINE before == <<"notice", channel, switch.sequence>>
    <3>1. Previous(channel) = before /\ before \in DOMAIN message
      BY <2>3 DEF Previous
    <3>2. before[1] = "notice" /\ before[2] = channel
      OBVIOUS
    <3> HIDE DEF before
    <3> QED
      BY <3>1, <3>2 DEF IInv, IdentityInv
  <2>4. /\ DOMAIN message' = DOMAIN message \cup Notices(chats)
        /\ \A x \in DOMAIN message : message'[x] = message[x]
        /\ \A x \in Notices(chats) : x \notin DOMAIN message =>
             message'[x] = Queued(NoBranch, x[2], Previous(x[2]))
    BY <1>3
  <2>5. Grows /\ NewBranches
    BY <1>1, <2>4 DEF Grows, NewBranches
  <2>6. NewRows
    <3> SUFFICES ASSUME NEW m \in Notices(chats), m \notin DOMAIN message
                 PROVE  /\ message'[m].state = "queued" /\ message'[m].branch = NoBranch
                        /\ message'[m].parent # NoMessage =>
                             /\ message'[m].parent \in DOMAIN message
                             /\ message[message'[m].parent].branch = NoBranch
                             /\ message[message'[m].parent].channel = message'[m].channel
                        /\ m[1] = "notice" /\ message'[m].channel = m[2]
      BY <2>4 DEF NewRows
    <3> QED
      BY <2>2, <2>3, <2>4 DEF Queued
  <2>7. TypeOK'
    <3>1. ASSUME NEW m \in DOMAIN message'
          PROVE  message'[m] \in [state : {"queued", "submitted"}, signed : Signed \cup {NoEvent},
                                  branch : DOMAIN thread \cup {NoBranch}, channel : Channels,
                                  parent : DOMAIN message' \cup {NoMessage}]
      <4>1. CASE m \in DOMAIN message
        BY <2>4, <4>1 DEF IInv, TypeOK
      <4>2. CASE m \notin DOMAIN message
        BY <2>2, <2>3, <2>4, <4>2 DEF Queued
      <4> QED
        BY <4>1, <4>2
    <3>2. \A b \in DOMAIN thread' :
            thread'[b] \in [join : DOMAIN message', event : Signed \cup {NoEvent},
                            channel : Channels]
      BY <1>1, <2>4 DEF IInv, TypeOK
    <3>3. work' \in {Idle} \cup [stage : {"sign", "save", "send", "submit"},
                                 id : DOMAIN message', event : Signed \cup {NoEvent}]
          /\ rest' \subseteq DOMAIN message'
      BY <1>1, <2>4 DEF IInv, TypeOK
    <3> QED
      BY <1>1, <3>1, <3>2, <3>3 DEF IInv, TypeOK, bounds
  <2> QED
    BY <2>5, <2>6, <2>7, GrowKeeps
<1> QED
  BY <1>2, <1>3 DEF Observe

LEMMA OutsideKeeps ==
  ASSUME IInv, NewCycle \/ StreamChanges
  PROVE  IInv'
<1>1. UNCHANGED <<thread, message, treat, switch, invited, rest, work, relays, bounds>>
      /\ cycle' \in Nat /\ live' \in Channels
  BY DEF NewCycle, StreamChanges, IInv, TypeOK, Channels
<1>2. TypeOK'
  BY <1>1 DEF IInv, TypeOK, bounds
<1>3. Grows /\ NewRows /\ NewBranches
  BY <1>1 DEF Grows, NewRows, NewBranches
<1> QED
  BY <1>2, <1>3, GrowKeeps

-----------------------------------------------------------------------------
(* The worker.                                                             *)

(* What a step that leaves the rows and the relays alone keeps. *)
LEMMA RowsUntouched ==
  ASSUME IInv, UNCHANGED <<thread, message, relays>>
  PROVE  RelaysInv' /\ BranchInv' /\ RootInv' /\ ParentInv' /\ IdentityInv' /\ RepliesFound'
<1>1. \A m \in DOMAIN message : Channel(m)' = Channel(m) /\ (Sent(m) => Sent(m)')
  BY DEF Channel, Sent
<1>2. RelaysInv' /\ BranchInv' /\ IdentityInv' /\ RepliesFound'
  BY <1>1 DEF IInv, RelaysInv, BranchInv, IdentityInv, RepliesFound
<1>3. RootInv'
  BY <1>1, BranchType DEF IInv, RootInv
<1>4. ParentInv'
  BY <1>1 DEF IInv, ParentInv, Waiting
<1> QED
  BY <1>2, <1>3, <1>4

(* A pass, a visit, a signature, a failure and a crash. *)
LEMMA WorkKeeps ==
  ASSUME IInv, StartPass \/ (\E m \in rest : Visit(m)) \/ Sign \/ Fail \/ Crash
  PROVE  IInv'
<1>1. UNCHANGED <<thread, message, relays, queueVars, regime>>
  BY DEF StartPass, Visit, Sign, Fail, Crash, bounds
<1>2. TypeOK' /\ WorkInv'
  <2>1. CASE StartPass
    <3>1. TypeOK'
      BY <2>1 DEF StartPass, IInv, TypeOK, queueVars, bounds
    <3>2. WorkInv'
      BY <2>1 DEF StartPass, IInv, WorkInv
    <3> QED
      BY <3>1, <3>2
  <2>2. ASSUME NEW m \in rest, Visit(m) PROVE TypeOK' /\ WorkInv'
    <3>1. m \in DOMAIN message /\ message[m].signed \in Signed \cup {NoEvent}
      BY RowType DEF IInv, TypeOK
    <3>2. TypeOK'
      BY <2>2, <3>1 DEF Visit, IInv, TypeOK, queueVars, bounds
    <3>3. Ready(m)' = Ready(m)
      BY <1>1 DEF Ready, Rooted, Opens, Waiting
    <3>4. ASSUME ~Ready(m) PROVE WorkInv'
      BY <2>2, <3>4 DEF Visit, WorkInv
    <3>5. ASSUME Ready(m) PROVE WorkInv'
      <4>1. work' = [stage |-> IF message[m].signed = NoEvent THEN "sign" ELSE "send",
                     id |-> m, event |-> message[m].signed]
        BY <2>2, <3>5 DEF Visit
      <4>2. work'.id = m /\ work'.event = message[m].signed
            /\ work'.stage = IF message[m].signed = NoEvent THEN "sign" ELSE "send"
        BY <4>1
      <4> QED
        BY <1>1, <3>3, <3>5, <4>2 DEF WorkInv
    <3> QED
      BY <3>2, <3>4, <3>5
  <2>3. CASE Sign
    <3>1. Fresh(work.id) \in Signed /\ Fresh(work.id) # NoEvent
      BY DEF Fresh, Signed, Original, Another, NoEvent
    <3>2. work # Idle /\ work.stage = "sign"
      BY <2>3 DEF Sign, Idle
    <3>3. work.id \in DOMAIN message
      BY <3>2, WorkType DEF IInv
    <3>4. work' = [stage |-> "save", id |-> work.id, event |-> Fresh(work.id)]
      BY <2>3, <3>2 DEF Sign, IInv, TypeOK
    <3>5. TypeOK'
      BY <2>3, <3>1, <3>3, <3>4 DEF Sign, IInv, TypeOK, queueVars, bounds
    <3>6. Ready(work.id)' = Ready(work.id)
      BY <1>1, <3>4 DEF Ready, Rooted, Opens, Waiting
    <3>7. work'.stage = "save" /\ work'.id = work.id /\ work'.event # NoEvent
      BY <3>1, <3>4
    <3>8. Ready(work.id) /\ message[work.id].signed = NoEvent
      BY <3>2 DEF IInv, WorkInv
    <3> QED
      BY <1>1, <3>5, <3>6, <3>7, <3>8 DEF WorkInv
  <2>4. CASE Fail \/ Crash
    <3>1. TypeOK'
      BY <2>4, RegimesAssumption DEF Fail, Crash, IInv, TypeOK, queueVars, Regime
    <3>2. WorkInv'
      BY <2>4 DEF Fail, Crash, WorkInv
    <3> QED
      BY <3>1, <3>2
  <2> QED
    BY <2>1, <2>2, <2>3, <2>4
<1> QED
  BY <1>1, <1>2, RowsUntouched DEF IInv

(* Before the event is stored the relays have none of the message, so storing
   it changes nothing that they have. *)
LEMMA SaveKeeps ==
  ASSUME IInv, SaveSigned
  PROVE  IInv'
<1> DEFINE w == work.id
<1>1. /\ work # Idle /\ work.stage = "save" /\ w \in DOMAIN message
      /\ work.event \in Signed /\ work.event # NoEvent
  BY WorkType DEF SaveSigned, IInv, WorkInv, Idle, NoEvent
<1>2. Ready(w) /\ message[w].signed = NoEvent
  BY <1>1 DEF IInv, WorkInv
<1>3. /\ message' = [message EXCEPT ![w].signed = work.event]
      /\ UNCHANGED <<queueVars, thread, rest, relays, bounds>>
      /\ work' = [stage |-> "send", id |-> w, event |-> work.event]
  BY <1>1 DEF SaveSigned, IInv, TypeOK
<1>4. /\ DOMAIN message' = DOMAIN message
      /\ \A m \in DOMAIN message : m # w => message'[m] = message[m]
      /\ \A m \in DOMAIN message : /\ message'[m].branch = message[m].branch
                                   /\ message'[m].channel = message[m].channel
                                   /\ message'[m].parent = message[m].parent
                                   /\ message'[m].state = message[m].state
      /\ message'[w].signed = work.event
  BY <1>1, <1>3 DEF IInv, TypeOK
<1>5. TypeOK'
  <2>1. \A m \in DOMAIN message' :
          message'[m] \in [state : {"queued", "submitted"}, signed : Signed \cup {NoEvent},
                           branch : DOMAIN thread' \cup {NoBranch}, channel : Channels,
                           parent : DOMAIN message' \cup {NoMessage}]
    BY <1>1, <1>3, <1>4 DEF IInv, TypeOK
  <2> QED
    BY <1>1, <1>3, <1>4, <2>1 DEF IInv, TypeOK, queueVars, bounds
<1>6. \A m \in DOMAIN message : /\ Channel(m)' = Channel(m) /\ Opens(m)' = Opens(m)
                                /\ Waiting(m)' = Waiting(m)
  BY <1>3, <1>4 DEF Channel, Opens, Waiting
<1>7. \A r \in relays : r.id # w
  BY <1>2 DEF IInv, RelaysInv
<1>8. \A m \in DOMAIN message : Sent(m) => m # w /\ Sent(m)'
  BY <1>3, <1>4, <1>6, <1>7 DEF Sent
<1>9. RelaysInv'
  BY <1>3, <1>4, <1>6, <1>7 DEF IInv, RelaysInv
<1>10. WorkInv'
  <2>1. Ready(w)'
    <3>1. message[w].parent # NoMessage => message[w].parent \in DOMAIN message
      BY <1>1, RowType DEF IInv
    <3> QED
      BY <1>1, <1>2, <1>3, <1>4, <1>6, <3>1 DEF Ready, Rooted
  <2>2. work'.stage = "send" /\ work'.id = w /\ work'.event = work.event
    BY <1>3
  <2> QED
    BY <1>1, <1>4, <2>1, <2>2 DEF WorkInv
<1>11. BranchInv' /\ IdentityInv' /\ RepliesFound'
  BY <1>3, <1>4 DEF IInv, BranchInv, IdentityInv, RepliesFound
<1>12. RootInv'
  BY <1>3, <1>4, <1>8, BranchType DEF IInv, RootInv
<1>13. ParentInv'
  BY <1>3, <1>4, <1>6, <1>8, RowType DEF IInv, ParentInv
<1> QED
  BY <1>5, <1>9, <1>10, <1>11, <1>12, <1>13 DEF IInv

(* What is sent is the stored event; what it replies to has been sent. *)
LEMMA SendKeeps ==
  ASSUME IInv, Send
  PROVE  IInv'
<1> DEFINE w == work.id
           e == [id |-> w, event |-> work.event, channel |-> Channel(w), reply |-> ReplyTo(w)]
<1>1. /\ work # Idle /\ work.stage = "send" /\ w \in DOMAIN message
      /\ work.event \in Signed \cup {NoEvent}
  BY WorkType DEF Send, IInv, Idle
<1>2. Ready(w) /\ message[w].signed = work.event /\ work.event # NoEvent
  BY <1>1 DEF IInv, WorkInv
<1>3. /\ UNCHANGED <<queueVars, thread, message, rest, bounds>>
      /\ relays' = relays \cup {e}
      /\ work' = [stage |-> "submit", id |-> w, event |-> work.event]
  BY <1>1 DEF Send, IInv, TypeOK
<1>4. TypeOK'
  BY <1>1, <1>3 DEF IInv, TypeOK, queueVars, bounds
<1>5. \A m \in DOMAIN message : /\ Channel(m)' = Channel(m) /\ Opens(m)' = Opens(m)
                                /\ Waiting(m)' = Waiting(m) /\ Ready(m)' = Ready(m)
  BY <1>3 DEF Channel, Opens, Waiting, Ready, Rooted
<1>6. e.id = w /\ e.event = work.event /\ e.channel = Channel(w) /\ e.reply = ReplyTo(w)
  OBVIOUS
<1> HIDE DEF e
<1>7. \A m \in DOMAIN message : Sent(m) => Sent(m)'
  BY <1>3, <1>5 DEF Sent
<1>8. Sent(w)'
  BY <1>1, <1>2, <1>3, <1>5, <1>6 DEF Sent
<1>9. RelaysInv'
  BY <1>1, <1>2, <1>3, <1>5, <1>6 DEF IInv, RelaysInv
<1>10. WorkInv'
  <2>1. work'.stage = "submit" /\ work'.id = w /\ work'.event = work.event
    BY <1>3
  <2> QED
    BY <1>1, <1>2, <1>3, <1>8, <2>1 DEF WorkInv
<1>11. BranchInv' /\ IdentityInv'
  BY <1>3 DEF IInv, BranchInv, IdentityInv
<1>12. RootInv'
  BY <1>3, <1>7, BranchType DEF IInv, RootInv
<1>13. ParentInv'
  BY <1>3, <1>5, <1>7 DEF IInv, ParentInv
<1>14. e.reply # <<>> => \E q \in relays : e.reply = <<q.id, q.event>> /\ q.channel = e.channel
  <2> SUFFICES ASSUME ReplyTo(w) # <<>>
               PROVE  \E q \in relays : ReplyTo(w) = <<q.id, q.event>>
                                         /\ q.channel = Channel(w)
    BY <1>6
  <2>1. CASE message[w].branch # NoBranch
    <3> DEFINE b == message[w].branch
               j == thread[b].join
    <3>1. b \in DOMAIN thread /\ j \in DOMAIN message
      BY <1>1, <2>1, RowType, BranchType DEF IInv
    <3>2. ~Opens(w) /\ ReplyTo(w) = <<j, thread[b].event>>
      BY <2>1 DEF ReplyTo
    <3>3. thread[b].event # NoEvent
      BY <1>2, <2>1, <3>2 DEF Ready, Rooted
    <3>4. Sent(j) /\ message[j].signed = thread[b].event /\ message[j].branch = b
      BY <3>1, <3>3 DEF IInv, RootInv
    <3>5. Channel(j) = Channel(w)
      BY <1>1, <2>1, <3>1, <3>4 DEF Channel, IInv, BranchInv
    <3> QED
      BY <3>2, <3>4, <3>5 DEF Sent
  <2>2. CASE message[w].branch = NoBranch
    <3> DEFINE p == message[w].parent
    <3>1. p # NoMessage /\ ReplyTo(w) = <<p, message[p].signed>>
      BY <2>2 DEF ReplyTo
    <3>2. p \in DOMAIN message /\ ~Waiting(p)
      BY <1>1, <1>2, <3>1, RowType DEF IInv, Ready
    <3>3. Sent(p)
      BY <3>2 DEF IInv, ParentInv
    <3>4. message[p].branch = NoBranch /\ message[p].channel = message[w].channel
      BY <1>1, <3>1 DEF IInv, ParentInv
    <3>5. Channel(p) = Channel(w)
      BY <2>2, <3>4 DEF Channel
    <3> QED
      BY <3>1, <3>3, <3>5 DEF Sent
  <2> QED
    BY <2>1, <2>2
<1>15. RepliesFound'
  BY <1>3, <1>14 DEF IInv, RepliesFound
<1> QED
  BY <1>4, <1>9, <1>10, <1>11, <1>12, <1>13, <1>15 DEF IInv

(* What is recorded as submitted, and as the root of a branch, was sent. *)
LEMMA SubmitKeeps ==
  ASSUME IInv, Submit
  PROVE  IInv'
<1> DEFINE w == work.id
           b == message[w].branch
<1>1. /\ work # Idle /\ work.stage = "submit" /\ w \in DOMAIN message
  BY WorkType DEF Submit, IInv, Idle
<1>2. /\ message[w].signed = work.event /\ work.event # NoEvent /\ Sent(w)
      /\ work.event \in Signed
  BY <1>1, WorkType DEF IInv, WorkInv
<1>3. /\ message' = [message EXCEPT ![w].state = "submitted", ![w].signed = work.event]
      /\ thread' = IF Opens(w) THEN [thread EXCEPT ![b].event = work.event] ELSE thread
      /\ UNCHANGED <<queueVars, rest, relays, bounds>> /\ work' = Idle
  BY DEF Submit
<1>4. /\ DOMAIN message' = DOMAIN message
      /\ \A m \in DOMAIN message : m # w => message'[m] = message[m]
      /\ \A m \in DOMAIN message : /\ message'[m].branch = message[m].branch
                                   /\ message'[m].channel = message[m].channel
                                   /\ message'[m].parent = message[m].parent
                                   /\ message'[m].signed = message[m].signed
  BY <1>1, <1>2, <1>3 DEF IInv, TypeOK
<1>5. Opens(w) => b \in DOMAIN thread /\ thread[b].join = w
  BY <1>1, RowType DEF Opens, IInv
<1>6. /\ DOMAIN thread' = DOMAIN thread
      /\ \A c \in DOMAIN thread : /\ thread'[c].join = thread[c].join
                                  /\ thread'[c].channel = thread[c].channel
                                  /\ \/ thread'[c].event = thread[c].event
                                     \/ Opens(w) /\ c = b /\ thread'[c].event = work.event
  <2>1. CASE ~Opens(w)
    BY <1>3, <2>1
  <2>2. ASSUME Opens(w)
        PROVE  /\ DOMAIN thread' = DOMAIN thread
               /\ \A c \in DOMAIN thread : c # b => thread'[c] = thread[c]
               /\ thread'[b] = [thread[b] EXCEPT !.event = work.event]
    BY <1>3, <1>5, <2>2
  <2>3. ASSUME Opens(w)
        PROVE  /\ thread'[b].join = thread[b].join /\ thread'[b].channel = thread[b].channel
               /\ thread'[b].event = work.event
    BY <1>5, <2>2, <2>3 DEF IInv, TypeOK
  <2>4. CASE Opens(w)
    BY <2>2, <2>3, <2>4
  <2> QED
    BY <2>1, <2>4
<1>7. TypeOK'
  <2>1. \A m \in DOMAIN message' :
          message'[m] \in [state : {"queued", "submitted"}, signed : Signed \cup {NoEvent},
                           branch : DOMAIN thread' \cup {NoBranch}, channel : Channels,
                           parent : DOMAIN message' \cup {NoMessage}]
    BY <1>1, <1>2, <1>3, <1>4, <1>6 DEF IInv, TypeOK
  <2>2. \A c \in DOMAIN thread' :
          thread'[c] \in [join : DOMAIN message', event : Signed \cup {NoEvent},
                          channel : Channels]
    BY <1>2, <1>3, <1>4, <1>5 DEF IInv, TypeOK
  <2> QED
    BY <1>3, <1>4, <1>6, <2>1, <2>2 DEF IInv, TypeOK, queueVars, bounds
<1>8. \A m \in DOMAIN message : Channel(m)' = Channel(m) /\ (Sent(m) => Sent(m)')
  <2>1. \A m \in DOMAIN message : Channel(m)' = Channel(m)
    BY <1>4, <1>6, RowType DEF Channel, IInv
  <2> QED
    BY <1>3, <1>4, <2>1 DEF Sent
<1>9. RelaysInv' /\ RepliesFound'
  BY <1>3, <1>4, <1>8 DEF IInv, RelaysInv, RepliesFound
<1>10. WorkInv'
  BY <1>3 DEF WorkInv
<1>11. BranchInv' /\ IdentityInv'
  BY <1>4, <1>6, RowType DEF IInv, BranchInv, IdentityInv
<1>12. RootInv'
  <2> SUFFICES ASSUME NEW c \in DOMAIN thread, thread'[c].event # NoEvent,
                      NEW j \in DOMAIN message, thread[c].join = j
               PROVE  /\ Sent(j)' /\ message'[j].signed = thread'[c].event
                      /\ message'[j].branch = c
    <3> SUFFICES ASSUME NEW c \in DOMAIN thread', thread'[c].event # NoEvent
                 PROVE  /\ Sent(thread[c].join)'
                        /\ message'[thread'[c].join].signed = thread'[c].event
                        /\ message'[thread'[c].join].branch = c
      BY DEF RootInv
    <3>1. PICK j \in DOMAIN message : thread[c].join = j /\ thread'[c].join = j
      BY <1>6, BranchType DEF IInv
    <3> QED
      BY <1>6, <3>1 DEF Sent, Channel
  <2>1. CASE thread'[c].event = thread[c].event
    <3>1. Sent(j) /\ message[j].signed = thread[c].event /\ message[j].branch = c
      BY <2>1 DEF IInv, RootInv
    <3> QED
      BY <1>4, <1>8, <2>1, <3>1
  <2>2. CASE Opens(w) /\ c = b /\ thread'[c].event = work.event
    BY <1>1, <1>2, <1>4, <1>5, <1>8, <2>2
  <2> QED
    BY <1>6, <2>1, <2>2
<1>13. ParentInv'
  <2>1. \A m \in DOMAIN message : ~Waiting(m)' => Sent(m)'
    BY <1>2, <1>4, <1>8 DEF IInv, ParentInv, Waiting
  <2> QED
    BY <1>4, <2>1, RowType DEF IInv, ParentInv
<1> QED
  BY <1>7, <1>9, <1>10, <1>11, <1>12, <1>13 DEF IInv

-----------------------------------------------------------------------------
(* The invariant holds in every state. *)
LEMMA InitIInv == Init => IInv
<1> SUFFICES ASSUME Init PROVE IInv
  OBVIOUS
<1>1. DOMAIN thread = {} /\ DOMAIN message = {} /\ relays = {} /\ work = Idle
  BY DEF Init
<1>2. TypeOK
  BY <1>1, RegimesAssumption DEF Init, TypeOK, Regime, Channels
<1> QED
  BY <1>1, <1>2 DEF IInv, RelaysInv, WorkInv, BranchInv, RootInv, ParentInv, IdentityInv,
                    RepliesFound

LEMMA NextIInv ==
  ASSUME IInv, [Next]_vars
  PROVE  IInv'
<1>1. CASE Next
  <2>1. CASE \/ \E s \in Sources : QueueMember(s)
             \/ \E t \in Treats : PlanTreat(t) \/ QueueTreat(t)
             \/ \E f \in Feedings : QueueFeeder(f) \/ QueueOutcome(f)
             \/ \E reading \in {"paused", "enabled"} : Observe(reading)
             \/ Invite \/ NewCycle \/ StreamChanges
    BY <2>1, QueueMemberKeeps, PlanTreatKeeps, QueueTreatKeeps, QueueFeederKeeps,
       ObserveKeeps, InviteKeeps, OutsideKeeps
  <2>2. CASE Worker \/ Fail \/ Crash
    BY <2>2, WorkKeeps, SaveKeeps, SendKeeps, SubmitKeeps DEF Worker
  <2> QED
    BY <1>1, <2>1, <2>2 DEF Next
<1>2. CASE UNCHANGED vars
  <2>1. UNCHANGED <<thread, message, relays, work, rest, queueVars, bounds>>
    BY <1>2 DEF vars, queueVars, bounds
  <2>2. TypeOK'
    BY <2>1 DEF IInv, TypeOK, queueVars, bounds
  <2>3. Grows /\ NewRows /\ NewBranches
    BY <2>1 DEF Grows, NewRows, NewBranches
  <2> QED
    BY <2>2, <2>3, GrowKeeps
<1> QED
  BY <1>1, <1>2

(* Every reachable state satisfies the inductive invariant: the types, and
   what the worker, the rows and the relays know of each other. *)
THEOREM DeliveryInvariant == Spec => []IInv
  BY InitIInv, NextIInv, PTL DEF Spec

(* Every variable keeps its type and every row refers to rows that exist:
   threads to their joining message, messages to their thread and parent. *)
THEOREM DeliveryTypeCorrect == Spec => []TypeOK
<1>1. IInv => TypeOK
  BY DEF IInv
<1> QED
  BY <1>1, DeliveryInvariant, PTL

(* However often _publish signs and sends a message, and whatever fails in
   between, the relays see one event of it. *)
THEOREM DeliveryOneEvent == Spec => []OneEventPerMessage
<1>1. IInv => OneEventPerMessage
  BY DEF IInv, RelaysInv, OneEventPerMessage
<1> QED
  BY <1>1, DeliveryInvariant, PTL

(* What _publish replies to is an event that the relays have, in the same
   conversation. *)
THEOREM DeliveryRepliesFound == Spec => []RepliesFound
<1>1. IInv => RepliesFound
  BY DEF IInv
<1> QED
  BY <1>1, DeliveryInvariant, PTL

(* A member's message goes to the conversation it was queued for. *)
THEOREM DeliveryOwnConversation == Spec => []OwnConversation
<1>1. IInv => OwnConversation
  <2> SUFFICES ASSUME IInv, NEW r \in relays, r.id[1] = "member"
               PROVE  r.channel = Conversation[r.id[3]]
    BY DEF OwnConversation
  <2> DEFINE m == r.id
  <2>1. m \in DOMAIN message /\ r.channel = Channel(m)
    BY DEF IInv, RelaysInv
  <2>2. /\ message[m].channel = Conversation[m[3]]
        /\ message[m].branch # NoBranch =>
             thread[message[m].branch].channel = Conversation[m[3]]
    BY <2>1 DEF IInv, IdentityInv
  <2> QED
    BY <2>1, <2>2 DEF Channel
<1> QED
  BY <1>1, DeliveryInvariant, PTL
-----------------------------------------------------------------------------
(* The order of notices: a notice waits for the one before it in its          *)
(* destination, if there is one, and none is queued later before another.     *)

OrderInv ==
  \A m \in DOMAIN message : m[1] = "notice" =>
    /\ m[3] \in 1..switch.sequence
    /\ LET before == <<"notice", m[2], m[3] - 1>> IN
       before \in DOMAIN message => message[m].parent = before

NoticesInv == IInv /\ OrderInv /\ NoticesInOrder

(* Steps that queue no notice and send none. *)
LEMMA NoNewNotice ==
  ASSUME NoticesInv, UNCHANGED <<switch, relays>>,
         \A m \in DOMAIN message : m \in DOMAIN message' /\ message'[m].parent = message[m].parent,
         \A m \in DOMAIN message' : m \notin DOMAIN message => m[1] # "notice"
  PROVE  OrderInv' /\ NoticesInOrder'
<1>1. ASSUME NEW channel, NEW n, <<"notice", channel, n>> \in DOMAIN message'
      PROVE  <<"notice", channel, n>> \in DOMAIN message
  <2> DEFINE m == <<"notice", channel, n>>
  <2>1. m[1] = "notice"
    OBVIOUS
  <2> HIDE DEF m
  <2> QED
    BY <1>1, <2>1 DEF m
<1>2. OrderInv'
  BY <1>1 DEF NoticesInv, OrderInv
<1>3. NoticesInOrder'
  BY <1>1 DEF NoticesInv, NoticesInOrder
<1> QED
  BY <1>2, <1>3

(* What is queued for other reasons is no notice. *)
LEMMA QueueOthers ==
  ASSUME NoticesInv,
         \/ \E s \in Sources : QueueMember(s)
         \/ \E t \in Treats : PlanTreat(t) \/ QueueTreat(t)
         \/ \E f \in Feedings : QueueFeeder(f) \/ QueueOutcome(f)
         \/ Invite
  PROVE  OrderInv' /\ NoticesInOrder'
<1>1. ASSUME NEW id, NEW row, Queue(id, row), UNCHANGED <<switch, relays>>, id[1] # "notice"
      PROVE  OrderInv' /\ NoticesInOrder'
  <2>1. /\ DOMAIN message' = DOMAIN message \cup {id}
        /\ \A m \in DOMAIN message : message'[m] = message[m]
    BY <1>1 DEF Queue, Insert
  <2> QED
    BY <1>1, <2>1, NoNewNotice
<1>2. ASSUME UNCHANGED <<message, switch, relays>>
      PROVE  OrderInv' /\ NoticesInOrder'
  BY <1>2, NoNewNotice
<1>3. ASSUME NEW s \in Sources, QueueMember(s)
      PROVE  OrderInv' /\ NoticesInOrder'
  <2>0. PICK id : id = <<"member", cycle, s>>
    OBVIOUS
  <2>1. id = <<"member", cycle, s>> /\ id[1] # "notice"
    BY <2>0
  <2>2. (\E row : Queue(id, row)) /\ UNCHANGED <<switch, relays>>
    BY <1>3, <2>1 DEF QueueMember, queueVars
  <2> QED
    BY <1>1, <2>1, <2>2
<1>4. ASSUME NEW t \in Treats, PlanTreat(t)
      PROVE  OrderInv' /\ NoticesInOrder'
  <2>0. PICK id : id = <<"anchor", First(Recipient[t])>>
    OBVIOUS
  <2>1. id = <<"anchor", First(Recipient[t])>> /\ id[1] # "notice"
    BY <2>0
  <2>2. ((\E row : Queue(id, row)) \/ message' = message) /\ UNCHANGED <<switch, relays>>
    BY <1>4, <2>1 DEF PlanTreat
  <2> QED
    BY <1>1, <1>2, <2>1, <2>2
<1>5. ASSUME NEW t \in Treats, QueueTreat(t)
      PROVE  OrderInv' /\ NoticesInOrder'
  <2>0. PICK id : id = <<"treat", t>>
    OBVIOUS
  <2>1. id = <<"treat", t>> /\ id[1] # "notice"
    BY <2>0
  <2>2. (\E row : Queue(id, row)) /\ UNCHANGED <<switch, relays>>
    BY <1>5, <2>1 DEF QueueTreat, queueVars
  <2> QED
    BY <1>1, <2>1, <2>2
<1>6. ASSUME NEW f \in Feedings, QueueFeeder(f)
      PROVE  OrderInv' /\ NoticesInOrder'
  <2>0. PICK id : id = <<"feeder", f>>
    OBVIOUS
  <2>1. id = <<"feeder", f>> /\ id[1] # "notice"
    BY <2>0
  <2>2. (\E row : Queue(id, row)) /\ UNCHANGED <<switch, relays>>
    BY <1>6, <2>1 DEF QueueFeeder, queueVars
  <2> QED
    BY <1>1, <2>1, <2>2
<1>7. ASSUME NEW f \in Feedings, QueueOutcome(f)
      PROVE  OrderInv' /\ NoticesInOrder'
  <2>1. PICK id, channel : id = <<"outcome", f, channel>> /\ (\E row : Queue(id, row))
    BY <1>7 DEF QueueOutcome
  <2>2. id[1] # "notice" /\ UNCHANGED <<switch, relays>>
    BY <1>7, <2>1 DEF QueueOutcome, queueVars
  <2> QED
    BY <1>1, <2>1, <2>2
<1>8. ASSUME Invite
      PROVE  OrderInv' /\ NoticesInOrder'
  <2>0. PICK id : id = <<"invitation", live, invited + 1>>
    OBVIOUS
  <2>1. id = <<"invitation", live, invited + 1>> /\ id[1] # "notice"
    BY <2>0
  <2>2. (\E row : Queue(id, row)) /\ UNCHANGED <<switch, relays>>
    BY <1>8, <2>1 DEF Invite
  <2> QED
    BY <1>1, <2>1, <2>2
<1> QED
  BY <1>3, <1>4, <1>5, <1>6, <1>7, <1>8

(* A reading's notices come after all that are queued, and wait for the last. *)
LEMMA ObserveOrders ==
  ASSUME NoticesInv, NEW reading, Observe(reading)
  PROVE  OrderInv' /\ NoticesInOrder'
<1> DEFINE now == switch.sequence
<1>0. now \in Nat /\ switch'.sequence = now + 1 /\ UNCHANGED relays
  BY DEF Observe, NoticesInv, IInv, TypeOK
<1> DEFINE Adds(added) ==
             /\ \A m \in added : \E c : m = <<"notice", c, now + 1>>
             /\ DOMAIN message' = DOMAIN message \cup added
             /\ \A m \in DOMAIN message : message'[m] = message[m]
             /\ \A m \in added : m \notin DOMAIN message =>
                  message'[m].parent = Previous(m[2])
<1>1. PICK added : Adds(added)
  <2>1. ASSUME message' = message
        PROVE  Adds({})
    BY <2>1
  <2>2. ASSUME NEW chats,
               message' = [id \in DOMAIN message \cup Notices(chats) |->
                             IF id \in DOMAIN message THEN message[id]
                             ELSE Queued(NoBranch, id[2], Previous(id[2]))]
        PROVE  Adds(Notices(chats))
    BY <2>2 DEF Notices, Queued
  <2> HIDE DEF Adds
  <2> QED
    BY <2>1, <2>2 DEF Observe
<1>2. ASSUME NEW m \in DOMAIN message, m[1] = "notice"
      PROVE  m[3] \in 1..now
  BY <1>2 DEF NoticesInv, OrderInv
\* What is before a queued notice was queued before.
<1>3. ASSUME NEW channel, NEW n \in 1..(now + 1), <<"notice", channel, n - 1>> \in DOMAIN message'
      PROVE  <<"notice", channel, n - 1>> \in DOMAIN message
  <2>1. <<"notice", channel, n - 1>>[3] # now + 1
    BY <1>0
  <2>2. \A c : <<"notice", c, now + 1>>[3] = now + 1
    OBVIOUS
  <2> QED
    BY <1>1, <1>3, <2>1, <2>2
<1>4. OrderInv'
  <2> SUFFICES ASSUME NEW m \in DOMAIN message', m[1] = "notice"
               PROVE  /\ m[3] \in 1..(now + 1)
                      /\ <<"notice", m[2], m[3] - 1>> \in DOMAIN message' =>
                           message'[m].parent = <<"notice", m[2], m[3] - 1>>
    BY <1>0 DEF OrderInv
  <2>1. CASE m \in DOMAIN message
    <3>1. m[3] \in 1..now
      BY <1>2, <2>1
    <3>2. m[3] \in 1..(now + 1)
      BY <1>0, <3>1
    <3> QED
      BY <1>1, <1>3, <2>1, <3>2 DEF NoticesInv, OrderInv
  <2>2. CASE m \notin DOMAIN message
    <3>1. PICK c : m = <<"notice", c, now + 1>>
      BY <1>1, <2>2
    <3>2. m[2] = c /\ m[3] = now + 1 /\ (now + 1) - 1 = now /\ now + 1 \in 1..(now + 1)
      BY <1>0, <3>1
    <3>3. message'[m].parent = Previous(c)
      BY <1>1, <2>2, <3>2
    <3>4. <<"notice", c, now>> \in DOMAIN message' => <<"notice", c, now>> \in DOMAIN message
      BY <1>3, <3>2
    <3> QED
      BY <3>2, <3>3, <3>4 DEF Previous
  <2> QED
    BY <2>1, <2>2
<1>5. NoticesInOrder'
  <2> SUFFICES ASSUME NEW r \in relays, r.id[1] = "notice",
                      <<"notice", r.id[2], r.id[3] - 1>> \in DOMAIN message'
               PROVE  \E q \in relays : q.id = <<"notice", r.id[2], r.id[3] - 1>>
    BY <1>0 DEF NoticesInOrder
  <2>1. r.id[3] \in 1..now
    BY <1>2 DEF NoticesInv, IInv, RelaysInv
  <2>2. r.id[3] \in 1..(now + 1)
    BY <1>0, <2>1
  <2>3. <<"notice", r.id[2], r.id[3] - 1>> \in DOMAIN message
    BY <1>3, <2>2
  <2> QED
    BY <2>3 DEF NoticesInv, NoticesInOrder
<1> QED
  BY <1>4, <1>5

(* A notice is sent only when the one before has been submitted, hence sent. *)
LEMMA SendOrders ==
  ASSUME NoticesInv, Send
  PROVE  OrderInv' /\ NoticesInOrder'
<1> DEFINE w == work.id
<1>1. /\ work # Idle /\ w \in DOMAIN message
      /\ UNCHANGED <<message, switch>>
      /\ relays \subseteq relays' /\ \A r \in relays' : r \in relays \/ r.id = w
  BY WorkType DEF Send, queueVars, NoticesInv, IInv, Idle
<1>2. Ready(w)
  BY <1>1 DEF Send, NoticesInv, IInv, WorkInv
<1>3. OrderInv'
  BY <1>1 DEF NoticesInv, OrderInv
<1>4. ASSUME w[1] = "notice", <<"notice", w[2], w[3] - 1>> \in DOMAIN message
      PROVE  \E q \in relays : q.id = <<"notice", w[2], w[3] - 1>>
  <2> DEFINE before == <<"notice", w[2], w[3] - 1>>
  <2>1. before # NoMessage
    BY DEF NoMessage
  <2> HIDE DEF before
  <2>2. message[w].parent = before
    BY <1>1, <1>4 DEF NoticesInv, OrderInv, before
  <2>3. ~Waiting(before)
    BY <1>2, <2>1, <2>2 DEF Ready
  <2>4. Sent(before)
    BY <1>4, <2>3 DEF NoticesInv, IInv, ParentInv, before
  <2> QED
    BY <2>4 DEF Sent, before
<1>5. NoticesInOrder'
  BY <1>1, <1>4 DEF NoticesInv, NoticesInOrder
<1> QED
  BY <1>3, <1>5

LEMMA NextNotices ==
  ASSUME NoticesInv, [Next]_vars
  PROVE  NoticesInv'
<1>1. IInv'
  BY NextIInv DEF NoticesInv
<1>2. OrderInv' /\ NoticesInOrder'
  <2>1. ASSUME UNCHANGED <<message, switch, relays>>
        PROVE  OrderInv' /\ NoticesInOrder'
    BY <2>1, NoNewNotice
  <2>2. CASE SaveSigned \/ Submit
    <3>1. /\ UNCHANGED <<switch, relays>> /\ DOMAIN message' = DOMAIN message
          /\ \A m \in DOMAIN message : message'[m].parent = message[m].parent
      <4>1. UNCHANGED <<switch, relays>>
        BY <2>2 DEF SaveSigned, Submit, queueVars
      <4>2. ASSUME NEW m \in DOMAIN message
            PROVE  message'[m].parent = message[m].parent
        <5>1. message[m] \in [state : {"queued", "submitted"}, signed : Signed \cup {NoEvent},
                               branch : DOMAIN thread \cup {NoBranch}, channel : Channels,
                               parent : DOMAIN message \cup {NoMessage}]
          BY DEF NoticesInv, IInv, TypeOK
        <5> QED
          BY <2>2, <5>1 DEF SaveSigned, Submit
      <4>3. DOMAIN message' = DOMAIN message
        BY <2>2 DEF SaveSigned, Submit
      <4> QED
        BY <4>1, <4>2, <4>3
    <3> QED
      BY <3>1, NoNewNotice
  <2>3. CASE NewCycle \/ StreamChanges \/ StartPass \/ (\E m \in rest : Visit(m)) \/ Sign
             \/ Fail \/ Crash \/ UNCHANGED vars
    BY <2>1, <2>3 DEF NewCycle, StreamChanges, StartPass, Visit, Sign, Fail, Crash,
                      queueVars, vars
  <2> QED
    BY <2>2, <2>3, QueueOthers, ObserveOrders, SendOrders DEF Next, Worker
<1> QED
  BY <1>1, <1>2 DEF NoticesInv

(* A destination hears of the changes of the pause switch in the order in    *)
(* which they were observed: the relays have no notice without the one       *)
(* queued before it, however often sending fails and the process restarts.   *)
THEOREM DeliveryNoticesInOrder == Spec => []NoticesInOrder
<1>1. Init => NoticesInv
  <2>1. ASSUME Init
        PROVE  DOMAIN message = {} /\ relays = {}
    BY <2>1 DEF Init
  <2> QED
    BY <2>1, InitIInv DEF NoticesInv, OrderInv, NoticesInOrder
<1>2. NoticesInv /\ [Next]_vars => NoticesInv'
  BY NextNotices
<1>3. NoticesInv => NoticesInOrder
  BY DEF NoticesInv
<1> QED
  BY <1>1, <1>2, <1>3, PTL DEF Spec
=============================================================================
