---------------------------- MODULE MonitorProofs ----------------------------
(***************************************************************************)
(* Proofs about Monitor: the engagement subscription follows the tracked   *)
(* note, and the notes that arrive over three paths converge to the newest *)
(* one, for every set of notes and engagements and every regime.           *)
(***************************************************************************)
EXTENDS Monitor, FiniteSetTheorems, WellFoundedInduction, TLAPS

USE NotesAssumption, TargetAssumption, RegimesAssumption

NoteOrNone == Notes \cup {NoNote}
States == {"open", "deaf", "gone", "none"}
Feeds == [notes : States, streams : States, engagements : States, note : NoteOrNone]

\* What a task may be doing: only who writes carries the note it projected.
Simple(stage, events) == [stage : {stage}, event : events]
Jobs ==
  {Idle} \cup Simple("project", Notes) \cup Simple("admit", Engagements)
    \cup [stage : {"write"}, event : Notes, note : Notes]
    \cup Simple("refresh", Notes) \cup Simple("ask", Notes) \cup Simple("finish", Events)

TypeOK ==
  /\ saved \subseteq Notes /\ tracked \in NoteOrNone /\ done \subseteq Engagements
  /\ job \in [Tasks -> Jobs]
  /\ saving \subseteq NoteOrNone
  /\ conn \in {"down", "up", "stalled"} /\ feed \in Feeds
  /\ asking \in [Subscribers -> SUBSET NoteOrNone]
  /\ disturbed \in BOOLEAN /\ upsets \in Nat

\* Nothing went wrong on this socket and no refresh is due: what the subscribers
\* at work will ask with is tracked, and with none at work it has been asked.
SubscribersAgree ==
  Undisturbed /\ tracked # NoNote /\ (\A t \in Tasks : ~AtStage(t, "refresh")) =>
    /\ \A s \in Subscribers : asking[s] \subseteq {tracked}
    /\ asking = Nobody => feed.note = tracked

\* Every save counts as something gone wrong.
SavesCounted == upsets = 0 => saving = {}

\* A note is saved before the tracked one is projected.
SavedFirst == \A t \in Tasks : AtStage(t, "project") => job[t].event \in saved

\* Nothing failed and nobody has yet to project: what is about to be written
\* is the newest saved note, and with nothing to write it is tracked.
Projected ==
  upsets = 0 /\ saved # {} /\ (\A t \in Tasks : ~AtStage(t, "project")) =>
    /\ \A t \in Tasks : AtStage(t, "write") => job[t].note = Max(saved)
    /\ (\A t \in Tasks : ~AtStage(t, "write")) => tracked = Max(saved)

IInv ==
  TypeOK /\ SavesCounted /\ SavedFirst /\ SubscribersAgree /\ Projected

-----------------------------------------------------------------------------
(* The newest of some notes is one of them: as few notes as possible are     *)
(* newer than it, so there is none.                                          *)

LEMMA MaxIsMember ==
  ASSUME NEW S \in SUBSET Notes, S # {}
  PROVE  Max(S) \in S /\ \A n \in S : Max(S) >= n
<1> DEFINE Newer(x) == {y \in S : y > x}
           Sets == {Newer(x) : x \in S}
<1>1. IsFiniteSet(S) /\ S \subseteq Nat
  BY FS_Subset
<1>2. IsWellFoundedOn(StrictSubsetOrdering(S), SUBSET S)
  BY <1>1, FS_StrictSubsetOrderingWellFounded, FS_FiniteSubsetsOfFinite
<1>3. Sets \subseteq SUBSET S /\ Sets # {}
  <2>1. \A x \in S : Newer(x) \in Sets
    OBVIOUS
  <2> QED
    BY <2>1
<1>4. PICK few \in Sets : \A set \in Sets : ~ (<<set, few>> \in StrictSubsetOrdering(S))
  <2>1. PICK all, less : all = SUBSET S /\ less = StrictSubsetOrdering(S)
    OBVIOUS
  <2> HIDE DEF Sets
  <2>2. IsWellFoundedOn(less, all) /\ Sets \subseteq all /\ Sets # {}
    BY <1>2, <1>3, <2>1
  <2>3. \E few \in Sets : \A set \in Sets : ~ (<<set, few>> \in less)
    BY <2>2, WFMin
  <2> QED
    BY <2>1, <2>3
<1>5. PICK x \in S : few = Newer(x)
  OBVIOUS
<1>6. ASSUME NEW y \in S, y > x
      PROVE  FALSE
  <2>1. Newer(y) \subseteq Newer(x) /\ y \in Newer(x) /\ y \notin Newer(y)
    <3>1. y \in Nat /\ x \in Nat /\ ~ (y > y)
      BY <1>1
    <3>2. \A z \in S : z > y => z > x
      BY <1>1, <1>6, <3>1
    <3> QED
      BY <1>6, <3>1, <3>2
  <2>2. Newer(y) \in Sets /\ Newer(y) \in SUBSET S /\ Newer(x) \in SUBSET S
    OBVIOUS
  <2> HIDE DEF Newer, Sets
  <2> QED
    BY <1>4, <1>5, <2>1, <2>2 DEF StrictSubsetOrdering
<1>7. \A y \in S : x >= y
  BY <1>1, <1>6
<1> QED
  BY <1>7 DEF Max
-----------------------------------------------------------------------------
(* What the steps have in common.                                            *)

LEMMA InitIInv == Init => IInv
<1> SUFFICES ASSUME Init PROVE IInv
  OBVIOUS
<1>1. job \in [Tasks -> Jobs] /\ feed \in Feeds /\ asking \in [Subscribers -> SUBSET NoteOrNone]
  BY DEF Init, Jobs, NoFeed, Nobody, Feeds, States, NoteOrNone
<1>2. TypeOK
  BY <1>1 DEF Init, TypeOK, NoteOrNone
<1> QED
  BY <1>2 DEF Init, IInv, SavesCounted, SavedFirst, AtStage, Idle,
              SubscribersAgree, Undisturbed, Projected

\* Something goes wrong and is counted.
LEMMA UpsetCounts ==
  ASSUME TypeOK, Upset
  PROVE  upsets' \in Nat /\ upsets' # 0
BY DEF TypeOK, Upset

\* Who begins to subscribe has read the note n, and is beside somebody with
\* another one only on a socket that is disturbed from then on.
LEMMA BeginAgrees ==
  ASSUME TypeOK, NEW s \in Subscribers, NEW n \in NoteOrNone, BeginWith(s, n)
  PROVE  /\ asking' \in [Subscribers -> SUBSET NoteOrNone] /\ disturbed' \in BOOLEAN
         /\ tracked' = n => SubscribersAgree'
<1>1. asking' \in [Subscribers -> SUBSET NoteOrNone] /\ asking'[s] = {n}
      /\ \A u \in Subscribers : u # s => asking'[u] = asking[u]
  BY DEF TypeOK, BeginWith
<1>2. disturbed' \in BOOLEAN /\ (~disturbed' => \A u \in Subscribers : asking[u] \subseteq {n})
  BY DEF TypeOK, BeginWith
<1>3. asking' # Nobody
  BY <1>1 DEF Nobody
<1> QED
  BY <1>1, <1>2, <1>3 DEF SubscribersAgree, Undisturbed

\* A step that no subscriber takes part in, and after which no refresh is over.
LEMMA AgreeStays ==
  ASSUME SubscribersAgree, UNCHANGED <<tracked, conn, asking, disturbed>>,
         feed'.note = feed.note,
         \A t \in Tasks : AtStage(t, "refresh") => AtStage(t, "refresh")'
  PROVE  SubscribersAgree'
BY DEF SubscribersAgree, Undisturbed

\* A step of the socket or of a subscriber leaves rows and tasks alone.
LEMMA SocketStep ==
  ASSUME IInv, UNCHANGED <<rows, job, saving>>,
         conn' \in {"down", "up", "stalled"}, feed' \in Feeds,
         asking' \in [Subscribers -> SUBSET NoteOrNone], disturbed' \in BOOLEAN,
         upsets' \in Nat, upsets' = 0 => upsets = 0,
         SubscribersAgree'
  PROVE  IInv'
<1>1. UNCHANGED <<saved, tracked, done, job, saving>>
  BY DEF rows
<1>2. TypeOK' /\ SavesCounted' /\ Projected' /\ SavedFirst'
  BY <1>1 DEF IInv, TypeOK, SavesCounted, Projected, SavedFirst, AtStage
<1> QED
  BY <1>2 DEF IInv

LEMMA FeedTypes ==
  ASSUME TypeOK
  PROVE  /\ NoFeed \in Feeds
         /\ Disconnect => feed' \in Feeds
         /\ \A n \in NoteOrNone, made, lost \in SUBSET Kinds :
               Subscribed(n, made, lost) \in Feeds /\ Subscribed(n, made, lost).note = n
<1>1. NoFeed \in Feeds
  BY DEF NoFeed, Feeds, States, NoteOrNone
<1>2. Disconnect => feed' \in Feeds
  BY DEF TypeOK, Disconnect, Feeds, States, NoteOrNone
<1>3. ASSUME NEW n \in NoteOrNone, NEW made \in SUBSET Kinds, NEW lost \in SUBSET Kinds
      PROVE  Subscribed(n, made, lost) \in Feeds /\ Subscribed(n, made, lost).note = n
  BY DEF Subscribed, Feeds, States
<1> QED
  BY <1>1, <1>2, <1>3

\* A socket that breaks, stalls, is closed or loses a subscription.
LEMMA SocketKeeps ==
  ASSUME IInv, Drop \/ Stall \/ ForceReconnect \/ \E ended \in SUBSET Kinds : Closed(ended)
  PROVE  IInv'
<1>0. TypeOK /\ SubscribersAgree
  BY DEF IInv
<1>1. CASE Drop \/ ForceReconnect
  <2>1. Disconnect /\ (Upset \/ UNCHANGED upsets) /\ UNCHANGED <<rows, job, saving, asking>>
    BY <1>1 DEF Drop, ForceReconnect, opVars, bounds
  <2>2. feed' \in Feeds /\ conn' = "down" /\ disturbed' = FALSE
    BY <1>0, <2>1, FeedTypes DEF Disconnect
  <2>3. SubscribersAgree'
    BY <2>2 DEF SubscribersAgree, Undisturbed
  <2> QED
    BY <1>0, <2>1, <2>2, <2>3, UpsetCounts, SocketStep DEF TypeOK
<1>2. CASE Stall
  <2>1. Upset /\ UNCHANGED <<rows, job, saving, feed, asking, disturbed>>
        /\ conn = "up" /\ conn' = "stalled"
    BY <1>2 DEF Stall, opVars, askVars
  <2>2. SubscribersAgree'
    BY <1>0, <2>1 DEF SubscribersAgree, Undisturbed, AtStage, rows
  <2> QED
    BY <1>0, <2>1, <2>2, UpsetCounts, SocketStep DEF TypeOK
<1>3. ASSUME NEW ended \in SUBSET Kinds, Closed(ended)
      PROVE  IInv'
  <2>1. feed' \in Feeds /\ feed'.note = feed.note
    BY <1>0, <1>3 DEF Closed, TypeOK, Feeds, States, Kinds
  <2>2. Upset /\ UNCHANGED <<rows, job, saving, conn, asking, disturbed>>
    BY <1>3 DEF Closed, opVars, askVars
  <2>3. SubscribersAgree'
    BY <1>0, <2>1, <2>2, AgreeStays DEF AtStage, rows
  <2> QED
    BY <1>0, <2>1, <2>2, <2>3, UpsetCounts, SocketStep DEF TypeOK
<1> QED
  BY <1>1, <1>2, <1>3

\* A connection or the watchdog begins to subscribe with the tracked note.
LEMMA BeginKeeps ==
  ASSUME IInv, Connect \/ WatchSubscriptions
  PROVE  IInv'
<1>0. TypeOK
  BY DEF IInv
<1>1. PICK s \in Subscribers : BeginWith(s, tracked)
  BY DEF Connect, WatchSubscriptions, Begin, Subscribers
<1>2. /\ UNCHANGED <<rows, job, saving, feed, upsets>>
      /\ conn' \in {"down", "up", "stalled"} /\ tracked' = tracked /\ tracked \in NoteOrNone
  BY <1>0 DEF Connect, WatchSubscriptions, TypeOK, opVars, bounds, rows
<1>3. asking' \in [Subscribers -> SUBSET NoteOrNone] /\ disturbed' \in BOOLEAN
      /\ SubscribersAgree'
  BY <1>0, <1>1, <1>2, BeginAgrees
<1> QED
  BY <1>0, <1>2, <1>3, SocketStep DEF TypeOK

\* A subscriber asks with what it has read.  If that was the only note at hand
\* it is asked for now; if not, or if the subscriber fails, the socket counts
\* as disturbed.
LEMMA SubscribersKeep ==
  ASSUME IInv, NEW s \in Subscribers,
         \/ GiveUp(s) \/ AskFails(s)
         \/ \E lost \in SUBSET Kinds : Ask(s, lost)
  PROVE  IInv'
<1>0. TypeOK /\ SubscribersAgree
  BY DEF IInv
<1>1. /\ asking' = [asking EXCEPT ![s] = {}]
      /\ UNCHANGED <<rows, job, saving, conn>>
  BY DEF GiveUp, AskFails, Ask, opVars
<1>2. /\ asking' \in [Subscribers -> SUBSET NoteOrNone]
      /\ \A u \in Subscribers : asking'[u] \subseteq asking[u]
  BY <1>0, <1>1 DEF TypeOK
<1>3. CASE GiveUp(s)
  <2>1. feed' = NoFeed /\ conn' = "down" /\ UNCHANGED <<disturbed, upsets>>
    BY <1>3 DEF GiveUp, bounds
  <2>2. SubscribersAgree'
    BY <2>1 DEF SubscribersAgree, Undisturbed
  <2> QED
    BY <1>0, <1>1, <1>2, <2>1, <2>2, FeedTypes, SocketStep DEF TypeOK
<1>4. CASE AskFails(s)
  <2>1. Upset /\ disturbed' = TRUE
    BY <1>4 DEF AskFails
  <2>2. feed' \in Feeds
    <3>1. PICK n \in asking[s] :
            \/ UNCHANGED feed
            \/ \E made \in Prefixes : feed' = Subscribed(n, made, {})
      BY <1>4 DEF AskFails
    <3>2. n \in NoteOrNone /\ Prefixes \subseteq SUBSET Kinds /\ {} \in SUBSET Kinds
      BY <1>0, <3>1 DEF TypeOK, Prefixes, Kinds
    <3> QED
      BY <1>0, <3>1, <3>2, FeedTypes DEF TypeOK
  <2>3. SubscribersAgree'
    BY <2>1 DEF SubscribersAgree, Undisturbed
  <2> QED
    BY <1>0, <1>1, <1>2, <2>1, <2>2, <2>3, UpsetCounts, SocketStep DEF TypeOK
<1>5. ASSUME NEW lost \in SUBSET Kinds, Ask(s, lost)
      PROVE  IInv'
  <2>1. PICK n \in asking[s] : feed' = Subscribed(n, Kinds, lost)
    BY <1>5 DEF Ask
  <2>2. n \in NoteOrNone /\ feed' \in Feeds /\ feed'.note = n
    BY <1>0, <2>1, FeedTypes DEF TypeOK
  <2>3. (UNCHANGED upsets \/ Upset) /\ UNCHANGED disturbed
    BY <1>5 DEF Ask, bounds
  <2>4. SubscribersAgree'
    BY <1>0, <1>1, <1>2, <2>1, <2>2, <2>3
       DEF SubscribersAgree, Undisturbed, AtStage, rows
  <2> QED
    BY <1>0, <1>1, <1>2, <2>2, <2>3, <2>4, UpsetCounts, SocketStep DEF TypeOK
<1> QED
  BY <1>3, <1>4, <1>5
-----------------------------------------------------------------------------
(* The operator, and what is forgotten.                                      *)

\* Only what is in memory changes.
LEMMA MemoryKeeps ==
  ASSUME IInv, ClearActed \/ \E e \in Events : Forget(e)
  PROVE  IInv'
<1>1. UNCHANGED <<saved, tracked, done, job, saving, conn, feed, asking, disturbed, upsets>>
  BY DEF ClearActed, Forget, opVars, rows, socketVars, askVars, bounds
<1> QED
  BY <1>1 DEF IInv, TypeOK, SavesCounted, SavedFirst, SubscribersAgree, Undisturbed,
              Projected, AtStage

\* After a reset, a crash or a settings save nothing is promised of the notes
\* that were saved before, and with no tracked note nothing of the subscriptions.
LEMMA UpsetsKeep ==
  ASSUME IInv, Crash \/ Reset \/ ReadSettings
  PROVE  IInv'
<1>1. upsets' \in Nat /\ upsets' # 0 /\ TypeOK /\ SubscribersAgree
  BY UpsetCounts DEF IInv, Crash, Reset, ReadSettings
<1>2. Projected' /\ SavesCounted'
  BY <1>1 DEF Projected, SavesCounted
<1>3. CASE Crash
  <2>1. /\ job' = [t \in Tasks |-> Idle] /\ feed' = NoFeed /\ conn' = "down"
        /\ asking' = Nobody /\ disturbed' = FALSE /\ saving' = {}
        /\ UNCHANGED <<saved, tracked, done>>
    BY <1>3 DEF Crash, rows
  <2>2. job' \in [Tasks -> Jobs] /\ asking' \in [Subscribers -> SUBSET NoteOrNone]
    BY <2>1 DEF Jobs, Nobody
  <2>3. TypeOK'
    BY <1>1, <2>1, <2>2, FeedTypes DEF TypeOK
  <2>4. SavedFirst' /\ SubscribersAgree'
    BY <2>1 DEF SavedFirst, SubscribersAgree, Undisturbed, AtStage, Idle
  <2> QED
    BY <1>2, <2>3, <2>4 DEF IInv
<1>4. CASE Reset
  <2>1. /\ tracked' = NoNote /\ done' = {}
        /\ UNCHANGED <<saved, job, saving, conn, feed, asking, disturbed>>
    BY <1>4 DEF Reset, socketVars, askVars
  <2>2. TypeOK' /\ SavedFirst' /\ SubscribersAgree'
    BY <1>1, <2>1 DEF IInv, TypeOK, SavedFirst, AtStage, SubscribersAgree, NoteOrNone
  <2> QED
    BY <1>2, <2>2 DEF IInv
<1>5. CASE ReadSettings
  <2>1. /\ saving' = {tracked}
        /\ UNCHANGED <<saved, tracked, done, job, conn, feed, asking, disturbed>>
    BY <1>5 DEF ReadSettings, rows, socketVars, askVars
  <2>2. TypeOK' /\ SavedFirst'
    BY <1>1, <2>1 DEF IInv, TypeOK, SavedFirst, AtStage
  <2>3. SubscribersAgree'
    BY <1>1, <2>1, AgreeStays DEF AtStage
  <2> QED
    BY <1>2, <2>2, <2>3 DEF IInv
<1> QED
  BY <1>3, <1>4, <1>5

LEMMA WriteSettingsKeeps ==
  ASSUME IInv, WriteSettings
  PROVE  IInv'
<1>0. TypeOK
  BY DEF IInv
<1>1. PICK n \in saving :
        /\ tracked' = n
        /\ \/ BeginWith("save", n)
           \/ UNCHANGED asking /\ disturbed' = (conn # "down")
  BY DEF WriteSettings
<1>2. saving' = {} /\ UNCHANGED <<saved, done, job, conn, feed, upsets>>
  BY DEF WriteSettings, bounds
<1>3. upsets # 0 /\ n \in NoteOrNone
  BY <1>0, <1>1 DEF IInv, SavesCounted, TypeOK
<1>4. asking' \in [Subscribers -> SUBSET NoteOrNone] /\ disturbed' \in BOOLEAN
      /\ SubscribersAgree'
  <2>1. CASE BeginWith("save", n)
    <3>1. "save" \in Subscribers
      BY DEF Subscribers
    <3> QED
      BY <1>0, <1>1, <1>3, <2>1, <3>1, BeginAgrees
  <2>2. CASE UNCHANGED asking /\ disturbed' = (conn # "down")
    BY <1>0, <1>2, <2>2 DEF TypeOK, SubscribersAgree, Undisturbed
  <2> QED
    BY <1>1, <2>1, <2>2
<1>5. TypeOK' /\ SavedFirst'
  BY <1>0, <1>1, <1>2, <1>3, <1>4 DEF IInv, TypeOK, SavedFirst, AtStage
<1>6. SavesCounted' /\ Projected'
  BY <1>2, <1>3 DEF SavesCounted, Projected
<1> QED
  BY <1>4, <1>5, <1>6 DEF IInv
-----------------------------------------------------------------------------
(* Processing: one task goes on to the job j.                                *)

LEMMA JobChanges ==
  ASSUME TypeOK, NEW t \in Tasks, NEW j \in Jobs, job' = [job EXCEPT ![t] = j]
  PROVE  /\ job' \in [Tasks -> Jobs] /\ job'[t] = j
         /\ \A u \in Tasks : u # t => job'[u] = job[u]
BY DEF TypeOK

\* What the job of a task carries at each stage.
LEMMA JobTypes ==
  ASSUME TypeOK, NEW t \in Tasks
  PROVE  /\ AtStage(t, "project") => job[t] \in Simple("project", Notes)
         /\ AtStage(t, "admit") => job[t] \in Simple("admit", Engagements)
         /\ AtStage(t, "write") => job[t].event \in Notes /\ job[t].note \in Notes
         /\ AtStage(t, "refresh") => job[t] \in Simple("refresh", Notes)
         /\ AtStage(t, "ask") => job[t] \in Simple("ask", Notes)
         /\ AtStage(t, "finish") => job[t] \in Simple("finish", Events)
<1>1. job[t] \in Jobs
  BY DEF TypeOK
<1> QED
  BY <1>1 DEF AtStage, Jobs, Simple, Idle

\* A task takes up an event while nothing else changes but the saved notes.
LEMMA TakeUpKeeps ==
  ASSUME IInv, NEW t \in Tasks, NEW e \in Events, TakeUp(t, e), ~Busy(t),
         UNCHANGED <<tracked, done, saving, conn, feed, asking, disturbed, upsets>>
  PROVE  IInv'
<1>0. TypeOK /\ job[t] = Idle
  BY DEF IInv, Busy
<1>1. CASE e \in Notes /\ saved' = saved \cup {e}
           /\ job' = [job EXCEPT ![t] = [stage |-> "project", event |-> e]]
  <2>1. PICK j \in Jobs : j = [stage |-> "project", event |-> e]
    BY <1>1 DEF Jobs, Simple
  <2>2. /\ job' \in [Tasks -> Jobs] /\ job'[t] = j
        /\ \A u \in Tasks : u # t => job'[u] = job[u]
    BY <1>0, <1>1, <2>1, JobChanges
  <2>3. TypeOK' /\ SavesCounted' /\ SavedFirst'
    BY <1>1, <2>1, <2>2 DEF IInv, TypeOK, SavesCounted, SavedFirst, AtStage
  <2>4. SubscribersAgree'
    BY <1>0, <2>1, <2>2, AgreeStays DEF IInv, AtStage, Idle
  <2>5. Projected'
    BY <2>1, <2>2 DEF Projected, AtStage
  <2> QED
    BY <2>3, <2>4, <2>5 DEF IInv
<1>2. CASE e \in Engagements /\ saved' = saved
           /\ job' = [job EXCEPT ![t] = [stage |-> "admit", event |-> e]]
  <2>1. PICK j \in Jobs : j = [stage |-> "admit", event |-> e]
    BY <1>2 DEF Jobs, Simple
  <2>2. /\ job' \in [Tasks -> Jobs] /\ job'[t] = j
        /\ \A u \in Tasks : u # t => job'[u] = job[u]
    BY <1>0, <1>2, <2>1, JobChanges
  <2>3. TypeOK' /\ SavesCounted' /\ SavedFirst'
    BY <1>2, <2>1, <2>2 DEF IInv, TypeOK, SavesCounted, SavedFirst, AtStage
  <2>4. \A u \in Tasks : /\ AtStage(u, "refresh")' <=> AtStage(u, "refresh")
                         /\ AtStage(u, "project")' <=> AtStage(u, "project")
                         /\ AtStage(u, "write")' <=> AtStage(u, "write")
                         /\ AtStage(u, "write") => job'[u] = job[u]
    BY <1>0, <2>1, <2>2 DEF AtStage, Idle
  <2>5. SubscribersAgree'
    BY <2>4, AgreeStays DEF IInv
  <2>6. Projected'
    BY <1>2, <2>4 DEF IInv, Projected
  <2> QED
    BY <2>3, <2>5, <2>6 DEF IInv
<1> QED
  BY <1>1, <1>2 DEF TakeUp

LEMMA EventsKeep ==
  ASSUME IInv, NEW e \in Events, Deliver(e) \/ Poll(e) \/ Recover(e)
  PROVE  IInv'
<1>1. UNCHANGED <<tracked, done, saving, conn, feed, asking, disturbed, upsets>>
  BY DEF Deliver, Poll, Recover, opVars, socketVars, askVars, bounds
<1>2. \/ \E t \in Tasks : TakeUp(t, e) /\ ~Busy(t)
      \/ UNCHANGED <<saved, job>>
  BY DEF Deliver, Reading, Poll, Recover, Tasks
<1>3. CASE UNCHANGED <<saved, job>>
  BY <1>1, <1>3 DEF IInv, TypeOK, SavesCounted, SavedFirst,
                    SubscribersAgree, Undisturbed, Projected, AtStage
<1> QED
  BY <1>1, <1>2, <1>3, TakeUpKeeps

\* Under the lock: nobody else is about to write.
LEMMA ProjectKeeps ==
  ASSUME IInv, NEW t \in Tasks, Project(t)
  PROVE  IInv'
<1>0. TypeOK /\ AtStage(t, "project") /\ Max(saved) \in Notes
  BY MaxIsMember DEF IInv, TypeOK, SavedFirst, Project
<1>1. UNCHANGED <<saved, tracked, done, saving, conn, feed, asking, disturbed, upsets>>
  BY DEF Project, rows, opVars, socketVars, askVars, bounds
<1>2. PICK newest : newest = Max(saved)
  OBVIOUS
<1>3. PICK j \in Jobs :
        /\ job' = [job EXCEPT ![t] = j]
        /\ IF newest = tracked THEN j.stage = "finish"
                               ELSE j.stage = "write" /\ j.note = newest
  <2>1. PICK e \in Notes : e = job[t].event
    BY <1>0, JobTypes DEF Simple
  <2>2. job' = [job EXCEPT ![t] =
                  IF newest = tracked THEN [stage |-> "finish", event |-> e]
                  ELSE [stage |-> "write", event |-> e, note |-> newest]]
    BY <1>2, <2>1, Zenon DEF Project
  <2>3. [stage |-> "finish", event |-> e] \in Jobs
    BY DEF Jobs, Simple, Events
  <2>4. [stage |-> "write", event |-> e, note |-> newest] \in Jobs
    BY <1>0, <1>2 DEF Jobs
  <2> QED
    BY <2>2, <2>3, <2>4
<1>4. /\ job' \in [Tasks -> Jobs] /\ job'[t] = j
      /\ \A u \in Tasks : u # t => job'[u] = job[u]
  BY <1>0, <1>3, JobChanges
<1>5. TypeOK' /\ SavesCounted' /\ SavedFirst'
  BY <1>1, <1>3, <1>4 DEF IInv, TypeOK, SavesCounted, SavedFirst, AtStage
<1>6. SubscribersAgree'
  BY <1>0, <1>1, <1>3, <1>4, AgreeStays DEF IInv, AtStage
<1>7. Projected'
  <2>1. \A u \in Tasks : u # t => ~AtStage(u, "write")'
    BY <1>4 DEF Project, Locked, AtStage
  <2> QED
    BY <1>1, <1>2, <1>3, <1>4, <2>1 DEF Projected, AtStage
<1> QED
  BY <1>5, <1>6, <1>7 DEF IInv
\* The note that is written was the newest when the lock was taken, and since
\* then only tasks that have yet to project have saved one.
LEMMA WriteKeeps ==
  ASSUME IInv, NEW t \in Tasks, Write(t)
  PROVE  IInv'
<1>0. TypeOK /\ AtStage(t, "write")
  BY DEF IInv, Write
<1>1. tracked' = job[t].note /\ tracked' \in Notes
      /\ UNCHANGED <<saved, done, saving, conn, feed, asking, disturbed, upsets>>
  BY <1>0, JobTypes DEF Write, opVars, socketVars, askVars, bounds
<1>2. PICK j \in Jobs : job' = [job EXCEPT ![t] = j] /\ j.stage = "refresh"
  <2>1. PICK e \in Notes : e = job[t].event
    BY <1>0, JobTypes
  <2>2. job' = [job EXCEPT ![t] = [stage |-> "refresh", event |-> e]]
    BY <2>1, Zenon DEF Write
  <2>3. [stage |-> "refresh", event |-> e] \in Jobs
    BY DEF Jobs, Simple
  <2> QED
    BY <2>2, <2>3
<1>3. /\ job' \in [Tasks -> Jobs] /\ job'[t] = j
      /\ \A u \in Tasks : u # t => job'[u] = job[u]
  BY <1>0, <1>2, JobChanges
<1>4. TypeOK' /\ SavesCounted' /\ SavedFirst'
  BY <1>1, <1>2, <1>3 DEF IInv, TypeOK, SavesCounted, SavedFirst, AtStage,
                          NoteOrNone
<1>5. SubscribersAgree'
  BY <1>2, <1>3 DEF SubscribersAgree, AtStage
<1>6. Projected'
  <2>1. \A u \in Tasks : AtStage(u, "project") <=> AtStage(u, "project")'
    BY <1>0, <1>2, <1>3 DEF AtStage
  <2>2. \A u \in Tasks : AtStage(u, "write")' => AtStage(u, "write") /\ job'[u] = job[u]
    BY <1>2, <1>3 DEF AtStage
  <2> QED
    BY <1>0, <1>1, <2>1, <2>2 DEF IInv, Projected
<1> QED
  BY <1>4, <1>5, <1>6 DEF IInv

\* A task that has nothing to project or write goes on to the job j.
LEMMA OtherStepKeeps ==
  ASSUME IInv, NEW t \in Tasks, NEW j \in Jobs, job' = [job EXCEPT ![t] = j],
         j.stage \in {"idle", "finish", "ask"},
         UNCHANGED <<saved, tracked, saving, conn, feed>>,
         done' \subseteq Engagements, upsets' \in Nat,
         asking' \in [Subscribers -> SUBSET NoteOrNone], disturbed' \in BOOLEAN,
         upsets' # 0 \/ (upsets = 0 /\ ~AtStage(t, "project") /\ ~AtStage(t, "write")),
         \/ UNCHANGED <<asking, disturbed>> /\ (AtStage(t, "refresh") => conn = "down")
         \/ SubscribersAgree'
  PROVE  IInv'
<1>1. /\ job' \in [Tasks -> Jobs] /\ job'[t] = j
      /\ \A u \in Tasks : u # t => job'[u] = job[u]
  BY JobChanges DEF IInv
<1>2. TypeOK' /\ SavesCounted' /\ SavedFirst'
  BY <1>1 DEF IInv, TypeOK, SavesCounted, SavedFirst, AtStage
<1>3. SubscribersAgree'
  BY <1>1 DEF IInv, SubscribersAgree, Undisturbed, AtStage
<1>4. Projected'
  <2>1. CASE upsets' # 0
    BY <2>1 DEF Projected
  <2>2. CASE upsets' = 0
    <3>1. \A u \in Tasks : /\ AtStage(u, "project")' <=> AtStage(u, "project")
                           /\ AtStage(u, "write")' <=> AtStage(u, "write")
                           /\ AtStage(u, "write") => job'[u] = job[u]
      BY <1>1, <2>2 DEF AtStage
    <3> QED
      BY <2>2, <3>1 DEF IInv, Projected
  <2> QED
    BY <2>1, <2>2
<1> QED
  BY <1>2, <1>3, <1>4 DEF IInv

\* A refresh begins to subscribe, or is left out without a connection.
LEMMA RefreshKeeps ==
  ASSUME IInv, NEW t \in Tasks, Refresh(t)
  PROVE  IInv'
<1>0. TypeOK /\ AtStage(t, "refresh")
  BY DEF IInv, Refresh
<1>1. UNCHANGED <<saved, tracked, done, saving, conn, feed, upsets>>
  BY DEF Refresh, rows, opVars, bounds
<1>2. PICK e \in Notes : e = job[t].event
  BY <1>0, JobTypes DEF Simple
<1>3. PICK j \in Jobs :
        /\ job' = [job EXCEPT ![t] = j]
        /\ \/ j.stage = "ask" /\ BeginWith("append", tracked)
           \/ j.stage = "finish" /\ conn = "down" /\ UNCHANGED askVars
  <2>1. PICK ask \in Jobs : ask = [stage |-> "ask", event |-> e]
    BY DEF Jobs, Simple
  <2>2. PICK finish \in Jobs : finish = [stage |-> "finish", event |-> e]
    BY DEF Jobs, Simple, Events
  <2>3. \/ job' = [job EXCEPT ![t] = ask] /\ BeginWith("append", tracked)
        \/ job' = [job EXCEPT ![t] = finish] /\ conn = "down" /\ UNCHANGED askVars
    BY <1>2, <2>1, <2>2, Zenon DEF Refresh, Begin
  <2>4. ask.stage = "ask" /\ finish.stage = "finish"
    BY <2>1, <2>2
  <2> QED
    BY <2>3, <2>4
<1>4. ~AtStage(t, "project") /\ ~AtStage(t, "write") /\ done' \subseteq Engagements
      /\ upsets' \in Nat
  BY <1>0, <1>1 DEF AtStage, TypeOK
<1>5. CASE j.stage = "ask" /\ BeginWith("append", tracked)
  <2>1. "append" \in Subscribers /\ tracked \in NoteOrNone
    BY <1>0 DEF Subscribers, TypeOK
  <2>2. asking' \in [Subscribers -> SUBSET NoteOrNone] /\ disturbed' \in BOOLEAN
        /\ SubscribersAgree'
    BY <1>0, <1>1, <1>5, <2>1, BeginAgrees
  <2> QED
    BY <1>1, <1>3, <1>4, <1>5, <2>2, OtherStepKeeps
<1>6. CASE j.stage = "finish" /\ conn = "down" /\ UNCHANGED askVars
  BY <1>0, <1>1, <1>3, <1>4, <1>6, OtherStepKeeps DEF TypeOK, askVars
<1> QED
  BY <1>3, <1>5, <1>6

LEMMA OthersKeep ==
  ASSUME IInv, NEW t \in Tasks,
         Admit(t) \/ Finish(t) \/ FailUnderLock(t) \/ FailAdmission(t)
  PROVE  IInv'
<1>0. TypeOK
  BY DEF IInv
<1>1. Idle \in Jobs /\ Idle.stage = "idle"
      /\ \A e \in Events : [stage |-> "finish", event |-> e] \in Jobs
  BY DEF Jobs, Simple, Idle
<1>2. CASE Admit(t)
  <2>1. /\ AtStage(t, "admit") /\ job[t].event \in Engagements
        /\ UNCHANGED <<saved, tracked, saving, conn, feed, asking, disturbed, upsets>>
    BY <1>0, <1>2, JobTypes DEF Admit, Simple, opVars, socketVars, askVars, bounds
  <2>2. PICK e \in Engagements : e = job[t].event
    BY <2>1
  <2>3. \/ job' = [job EXCEPT ![t] = [stage |-> "finish", event |-> e]]
           /\ done' = done \cup {e}
        \/ job' = [job EXCEPT ![t] = Idle] /\ done' = done
    BY <1>2, <2>2 DEF Admit
  <2>4. PICK j \in Jobs : job' = [job EXCEPT ![t] = j] /\ j.stage \in {"idle", "finish"}
    <3>1. PICK k \in Jobs : k = [stage |-> "finish", event |-> e]
      BY <1>1, <2>2 DEF Events
    <3>2. k.stage = "finish"
      BY <3>1
    <3>3. job' = [job EXCEPT ![t] = k] \/ job' = [job EXCEPT ![t] = Idle]
      BY <2>3, <3>1
    <3> QED
      BY <1>1, <3>2, <3>3
  <2>5. done' \subseteq Engagements
    BY <1>0, <2>2, <2>3 DEF TypeOK
  <2>6. ~AtStage(t, "project") /\ ~AtStage(t, "write") /\ ~AtStage(t, "refresh")
        /\ upsets' \in Nat
    BY <1>0, <2>1 DEF AtStage, TypeOK
  <2> QED
    BY <1>0, <2>1, <2>4, <2>5, <2>6, OtherStepKeeps DEF TypeOK
<1>3. CASE Finish(t)
  <2>1. /\ job' = [job EXCEPT ![t] = Idle] /\ (AtStage(t, "finish") \/ AtStage(t, "ask"))
        /\ UNCHANGED <<saved, tracked, done, saving, conn, feed, asking, disturbed, upsets>>
    BY <1>3 DEF Finish, rows, opVars, askVars, bounds
  <2>2. ~AtStage(t, "project") /\ ~AtStage(t, "write") /\ ~AtStage(t, "refresh")
        /\ done' \subseteq Engagements /\ upsets' \in Nat
    BY <1>0, <2>1 DEF AtStage, TypeOK
  <2> QED
    BY <1>0, <1>1, <2>1, <2>2, OtherStepKeeps DEF TypeOK
<1>4. CASE FailUnderLock(t)
  <2>1. Upset /\ (AtStage(t, "project") \/ AtStage(t, "write"))
        /\ UNCHANGED <<saved, tracked, done, saving, conn, feed, asking, disturbed>>
    BY <1>4 DEF FailUnderLock, rows, opVars, socketVars, askVars
  <2>2. PICK e \in Notes : e = job[t].event
    BY <1>0, <2>1, JobTypes DEF Simple
  <2>3. job' = [job EXCEPT ![t] = [stage |-> "finish", event |-> e]]
    BY <1>4, <2>2, Zenon DEF FailUnderLock
  <2>4. PICK j \in Jobs : job' = [job EXCEPT ![t] = j] /\ j.stage = "finish"
    <3>1. PICK k \in Jobs : k = [stage |-> "finish", event |-> e]
      BY <1>1 DEF Events
    <3>2. k.stage = "finish"
      BY <3>1
    <3> QED
      BY <2>3, <3>1, <3>2
  <2>5. ~AtStage(t, "refresh") /\ upsets' \in Nat /\ upsets' # 0
        /\ done' \subseteq Engagements
    BY <1>0, <2>1, UpsetCounts DEF AtStage, TypeOK
  <2> QED
    BY <1>0, <2>1, <2>4, <2>5, OtherStepKeeps DEF TypeOK
<1>5. CASE FailAdmission(t)
  <2>1. Upset /\ AtStage(t, "admit") /\ job' = [job EXCEPT ![t] = Idle]
        /\ UNCHANGED <<saved, tracked, done, saving, conn, feed, asking, disturbed>>
    BY <1>5 DEF FailAdmission, rows, opVars, socketVars, askVars
  <2>2. ~AtStage(t, "refresh") /\ upsets' \in Nat /\ upsets' # 0
        /\ done' \subseteq Engagements
    BY <1>0, <2>1, UpsetCounts DEF AtStage, TypeOK
  <2> QED
    BY <1>0, <1>1, <2>1, <2>2, OtherStepKeeps DEF TypeOK
<1> QED
  BY <1>2, <1>3, <1>4, <1>5
-----------------------------------------------------------------------------
\* The invariant that the theorems rest on holds in every reachable state:
\* types, the notes that are saved before they are projected, and what the
\* steps under the lock owe each other.
THEOREM MonitorInvariant == Spec => []IInv
<1>1. Init => IInv
  BY InitIInv
<1>2. IInv /\ [Next]_vars => IInv'
  <2> SUFFICES ASSUME IInv, [Next]_vars PROVE IInv'
    OBVIOUS
  <2>1. CASE UNCHANGED vars
    <3>1. UNCHANGED <<saved, tracked, done, job, saving, conn, feed, asking, disturbed, upsets>>
      BY <2>1 DEF vars
    <3> QED
      BY <3>1 DEF IInv, TypeOK, SavesCounted, SavedFirst, SubscribersAgree, Undisturbed,
                  Projected, AtStage
  <2>2. CASE Drop \/ Stall \/ ForceReconnect \/ \E ended \in SUBSET Kinds : Closed(ended)
    BY <2>2, SocketKeeps
  <2>3. CASE Connect \/ WatchSubscriptions
    BY <2>3, BeginKeeps
  <2>4. CASE \/ \E s \in Subscribers : GiveUp(s) \/ AskFails(s)
             \/ \E s \in Subscribers, lost \in SUBSET Kinds : Ask(s, lost)
    BY <2>4, SubscribersKeep
  <2>5. CASE ClearActed \/ \E e \in Events : Forget(e)
    BY <2>5, MemoryKeeps
  <2>6. CASE Crash \/ Reset \/ ReadSettings
    BY <2>6, UpsetsKeep
  <2>7. CASE WriteSettings
    BY <2>7, WriteSettingsKeeps
  <2>8. CASE \E e \in Events : Deliver(e) \/ Poll(e) \/ Recover(e)
    BY <2>8, EventsKeep
  <2>9. CASE \E t \in Tasks : Project(t)
    BY <2>9, ProjectKeeps
  <2>10. CASE \E t \in Tasks : Write(t)
    BY <2>10, WriteKeeps
  <2>11. CASE \E t \in Tasks : Refresh(t)
    BY <2>11, RefreshKeeps
  <2>12. CASE \E t \in Tasks : Admit(t) \/ Finish(t) \/ FailUnderLock(t) \/ FailAdmission(t)
    BY <2>12, OthersKeep
  <2>13. /\ {} \in SUBSET Kinds
         /\ \A k \in Kinds : {k} \in SUBSET Kinds
    OBVIOUS
  <2> QED
    BY <2>1, <2>2, <2>3, <2>4, <2>5, <2>6, <2>7, <2>8, <2>9, <2>10, <2>11, <2>12, <2>13
       DEF Next, TaskStep, SubscriberStep
<1> QED
  BY <1>1, <1>2, PTL DEF Spec

\* SubscriptionFollows for every set of notes and every way of failing: on a
\* socket on which no subscriber failed, two never went different ways and no
\* save put back a row unseen, once no refresh is due and nobody is about to
\* ask, the engagements with the tracked note have been asked for
\* (_append_today, trigger_immediate_refresh, the watchdog, reconnects).
THEOREM MonitorSubscriptionFollows == Spec => []SubscriptionFollows
<1>1. IInv => SubscriptionFollows
  BY DEF IInv, SubscribersAgree, SubscriptionFollows
<1> QED
  BY <1>1, MonitorInvariant, PTL

\* AppendsConverge for every number of notes, arriving in any order over the
\* three paths: the projection under the owner's lock leaves the newest saved
\* note tracked once no append is under way.
THEOREM MonitorAppendsConverge == Spec => []AppendsConverge
<1>1. IInv => AppendsConverge
  BY DEF IInv, Projected, AppendsConverge, AtStage
<1> QED
  BY <1>1, MonitorInvariant, PTL
=============================================================================
