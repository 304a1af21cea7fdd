-------------------------------- MODULE Locks --------------------------------
(***************************************************************************)
(* The locks of the program, and the order in which its tasks take them.   *)
(* Every coroutine that holds a lock while it waits for another is here as *)
(* a path: the sequence of locks it takes and frees.  asyncio's locks are  *)
(* not reentrant and serve their waiters in the order of arrival; a        *)
(* transaction holds the lock of the database connection until it commits, *)
(* and its statements, as well as nested transactions, use that connection.*)
(***************************************************************************)
EXTENDS Integers, Sequences, FiniteSets

CONSTANTS
  Tasks,   \* the coroutines that are busy together
  Casts    \* bound: the paths that they take in one behaviour

\* totals (zap_totals), admission (headbutt), day (membership day), database
\* (connection), writes (single statements of crud), targets (splits),
\* transfers (send_splits), treats and worker (treats), tracking
\* (subscriptions, per owner), updates (chat_updates).
Locks == {"totals", "admission", "day", "database", "writes", "targets",
          "transfers", "treats", "worker", "tracking", "updates"}
Nobody == "nobody"

-----------------------------------------------------------------------------
(* The paths.  Statements that follow each other take the same locks: one   *)
(* stands for all of them.                                                 *)

Within(lock, inner) ==
  <<[op |-> "take", lock |-> lock]>> \o inner \o <<[op |-> "free", lock |-> lock]>>

\* A statement on a connection of its own, and a transaction.
Query == Within("database", <<>>)
Transaction(statements) == Within("database", statements)

\* Fault: a statement inside a transaction takes the writers' lock as well.
LockedWrite(inTransaction) ==
  Within("writes", IF inTransaction THEN <<>> ELSE Query)

\* A single write waits for the other writers; inside a transaction the
\* connection that it has is enough.
Write(inTransaction) == IF inTransaction THEN <<>> ELSE Within("writes", Query)

\* The split targets are computed and written, or reset.
Recompute == Within("targets", Query)

\* Fault: whoever has the admission lock asks for it again.
CheckedDay(admissionHeld) == Within("admission", Within("day", Query \o Recompute))

\* ensure_membership_day, with pending split work.
MembershipDay(admissionHeld) ==
  LET day == Within("day", Query \o Recompute) IN
  IF admissionHeld THEN day ELSE Within("admission", day)

\* A message about a member is queued; recipients are frozen or claimed.
WithTreats == Within("treats", Transaction(<<>>))

\* The callbacks of an admission: payouts, targets, the message or the notice
\* of a failure.
AfterCommit == Transaction(Write(TRUE)) \o Recompute \o Write(FALSE) \o WithTreats

\* attempt_headbutt; its callbacks run after both locks are free.
Admission ==
  Within("admission", MembershipDay(TRUE) \o Transaction(Write(TRUE))) \o AfterCommit

\* The observation of an engagement; targets are refreshed after it.
Observation == Within("admission", MembershipDay(TRUE) \o Transaction(<<>>)) \o Recompute

\* _append_today; a settings save may reset the targets after its commit.
Tracking == Within("tracking", Transaction(Write(TRUE)) \o Recompute)

\* A threshold is moved: the day first, then the transfer.
Transfer == MembershipDay(FALSE) \o Within("transfers", WithTreats)

\* A zap keeps the totals lock to the end of its callbacks.
Path ==
  [zap       |-> Within("totals", Admission),
   social    |-> Observation \o Admission,
   track     |-> Tracking,
   operator  |-> Transaction(Write(TRUE)) \o Write(FALSE),
   reset     |-> Within("admission",
                        Within("day", Transaction(<<>>) \o Recompute)),
   rebuild   |-> Within("totals", Transaction(<<>>)),
   recompute |-> Recompute,
   transfer  |-> Transfer,
   split     |-> WithTreats,
   midnight  |-> MembershipDay(FALSE),
   deliver   |-> Within("worker", Transaction(<<>>)),
   chat      |-> Within("updates", Transaction(<<>>))]

Paths == DOMAIN Path

ASSUME CastsAssumption == Nobody \notin Tasks /\ Casts \subseteq [Tasks -> Paths]

-----------------------------------------------------------------------------
VARIABLES
  path,    \* the path of each task
  done,    \* how much of it is done; Idle between two rounds
  holder,  \* who has each lock
  waiters  \* who waits for it, in the order of arrival

vars == <<path, done, holder, waiters>>

Idle == -1

Init ==
  /\ path \in Casts
  /\ done = [t \in Tasks |-> Idle]
  /\ holder = [l \in Locks |-> Nobody]
  /\ waiters = [l \in Locks |-> <<>>]

Waits(t) == \E l \in Locks : \E i \in 1..Len(waiters[l]) : waiters[l][i] = t

\* The step that task t is at.
At(t, op) == done[t] # Idle /\ Path[path[t]][done[t] + 1].op = op
Lock(t) == Path[path[t]][done[t] + 1].lock
After(t) == IF done[t] + 1 = Len(Path[path[t]]) THEN Idle ELSE done[t] + 1

\* A task begins its path, which starts with a lock.
Start(t) ==
  /\ done[t] = Idle
  /\ done' = [done EXCEPT ![t] = 0]
  /\ UNCHANGED <<path, holder, waiters>>

\* It takes a free lock.
Take(t) ==
  /\ At(t, "take") /\ holder[Lock(t)] = Nobody
  /\ holder' = [holder EXCEPT ![Lock(t)] = t]
  /\ done' = [done EXCEPT ![t] = After(t)]
  /\ UNCHANGED <<path, waiters>>

\* It waits behind those who came before.
Wait(t) ==
  /\ At(t, "take") /\ holder[Lock(t)] # Nobody /\ ~Waits(t)
  /\ waiters' = [waiters EXCEPT ![Lock(t)] = Append(@, t)]
  /\ UNCHANGED <<path, done, holder>>

\* Locks are handed over to the first who waits; t goes on at next.
HandOver(t, locks, next) ==
  LET awaited == {l \in locks : waiters[l] # <<>>}
      first == [l \in awaited |-> Head(waiters[l])] IN
  /\ holder' = [l \in Locks |-> IF l \in awaited THEN first[l]
                                ELSE IF l \in locks THEN Nobody ELSE holder[l]]
  /\ waiters' = [l \in Locks |-> IF l \in awaited THEN Tail(waiters[l]) ELSE waiters[l]]
  /\ done' = [u \in Tasks |-> IF u = t THEN next
                              ELSE IF \E l \in awaited : first[l] = u THEN After(u)
                              ELSE done[u]]
  /\ UNCHANGED path

Free(t) == At(t, "free") /\ HandOver(t, {Lock(t)}, After(t))

\* A statement, a relay or another service fails: the exception frees what
\* the task holds.
Fail(t) ==
  /\ done[t] # Idle /\ ~Waits(t)
  /\ HandOver(t, {l \in Locks : holder[l] = t}, Idle)

Next == \E t \in Tasks : Start(t) \/ Take(t) \/ Wait(t) \/ Free(t) \/ Fail(t)

\* asyncio runs every task that can run.  Nobody has to start a path.
Fairness == \A t \in Tasks : WF_vars(Take(t) \/ Wait(t) \/ Free(t))

Spec == Init /\ [][Next]_vars /\ Fairness

-----------------------------------------------------------------------------
\* Nobody waits for ever: whatever the other tasks are doing, and wherever they
\* fail, a path that was begun comes to its end.
EveryPathEnds == \A t \in Tasks : done[t] # Idle ~> done[t] = Idle

\* No tasks wait for each other in a circle, and none for itself.
NoCircle ==
  \A group \in SUBSET Tasks : group # {} =>
    \E t \in group : ~\E l \in Locks :
      /\ holder[l] \in group
      /\ \E i \in 1..Len(waiters[l]) : waiters[l][i] = t
=============================================================================
