----------------------------- MODULE LocksProofs -----------------------------
(***************************************************************************)
(* Proofs about Locks: no tasks ever wait for each other in a circle, for  *)
(* any number of tasks on any of the paths, because every path takes its   *)
(* locks in one order.                                                     *)
(***************************************************************************)
EXTENDS Locks, SequenceTheorems, TLAPS

USE CastsAssumption

\* The order: who has a lock waits only for locks further down.  What no path
\* takes together may share a place.
Order ==
  [totals |-> 1, tracking |-> 1, worker |-> 1, updates |-> 1, admission |-> 2, day |-> 3,
   transfers |-> 3, targets |-> 4, treats |-> 4, writes |-> 4, database |-> 5]

Steps == [op : {"take", "free"}, lock : Locks]

Takes(step, l) == step.op = "take" /\ step.lock = l
Frees(step, l) == step.op = "free" /\ step.lock = l

\* The locks that the first k steps of s have taken and not freed.
Held(s, k) == {l \in Locks : \E i \in 1..k : Takes(s[i], l) /\ \A j \in i..k : ~Frees(s[j], l)}

\* A sequence of steps takes only locks after place r, each after those that it
\* holds already, and ends with none.
Ordered(s, r) ==
  /\ s \in Seq(Steps)
  /\ \A i \in 1..Len(s) : s[i].op = "take" =>
       /\ Order[s[i].lock] > r
       /\ \A l \in Held(s, i - 1) : Order[l] < Order[s[i].lock]
  /\ Held(s, Len(s)) = {}

TypeOK ==
  /\ path \in [Tasks -> Paths]
  /\ done \in [Tasks -> Int]
  /\ \A t \in Tasks : done[t] # Idle => done[t] \in 0..Len(Path[path[t]]) - 1
  /\ holder \in [Locks -> Tasks \cup {Nobody}]
  /\ waiters \in [Locks -> Seq(Tasks)]

\* Who has a lock is on the way between taking and freeing it.
HolderInv ==
  \A l \in Locks : holder[l] # Nobody =>
    done[holder[l]] # Idle /\ l \in Held(Path[path[holder[l]]], done[holder[l]])

\* Who waits for a lock is about to take it and waits for it once, and somebody
\* has it.
WaiterInv ==
  \A l \in Locks :
    /\ \A i \in 1..Len(waiters[l]) : At(waiters[l][i], "take") /\ Lock(waiters[l][i]) = l
    /\ \A i, j \in 1..Len(waiters[l]) : waiters[l][i] = waiters[l][j] => i = j
    /\ waiters[l] # <<>> => holder[l] # Nobody

IInv == TypeOK /\ HolderInv /\ WaiterInv

-----------------------------------------------------------------------------
(* The paths: sequences of steps are put together in order.                  *)

LEMMA OrderType == Order \in [Locks -> 1..5]
BY DEF Order, Locks

LEMMA OrderedType ==
  ASSUME NEW s, NEW r \in Nat, Ordered(s, r)
  PROVE  /\ s \in Seq(Steps) /\ Len(s) \in Nat
         /\ \A i \in 1..Len(s) : s[i] \in Steps
<1>1. s \in Seq(Steps)
  BY DEF Ordered
<1> QED
  BY <1>1, LenProperties, ElementOfSeq

\* What comes after more comes after less.
LEMMA Weaker ==
  ASSUME NEW s, NEW r \in Nat, NEW q \in Nat, q <= r, Ordered(s, r)
  PROVE  Ordered(s, q)
<1>1. \A i \in 1..Len(s) : s[i].lock \in Locks
  BY OrderedType DEF Steps
<1>2. \A i \in 1..Len(s) : Order[s[i].lock] > r => Order[s[i].lock] > q
  BY <1>1, OrderType
<1> QED
  BY <1>2 DEF Ordered

LEMMA EmptyOrdered == \A r \in Nat : Ordered(<<>>, r)
BY EmptySeq DEF Ordered, Held

\* Two sequences one after the other: the second begins with no locks.
LEMMA ThenOrdered ==
  ASSUME NEW r \in Nat, NEW s, NEW t, Ordered(s, r), Ordered(t, r)
  PROVE  Ordered(s \o t, r)
<1>1. PICK u, n, m : u = s \o t /\ n = Len(s) /\ m = Len(t)
  OBVIOUS
<1>2. /\ s \in Seq(Steps) /\ t \in Seq(Steps) /\ n \in Nat /\ m \in Nat
      /\ u \in Seq(Steps) /\ Len(u) = n + m
      /\ \A i \in 1..n + m : u[i] = IF i <= n THEN s[i] ELSE t[i - n]
  BY <1>1, OrderedType, ConcatProperties
<1>3. \A k \in 0..n : Held(u, k) \subseteq Held(s, k)
  <2> SUFFICES ASSUME NEW k \in 0..n, NEW l \in Held(u, k)
               PROVE  l \in Held(s, k)
    OBVIOUS
  <2>1. PICK i \in 1..k : l \in Locks /\ Takes(u[i], l) /\ \A j \in i..k : ~Frees(u[j], l)
    BY DEF Held
  <2>2. \A j \in i..k : u[j] = s[j]
    BY <1>2
  <2>3. i \in i..k
    BY <1>2
  <2> QED
    BY <2>1, <2>2, <2>3 DEF Held
<1>4. \A k \in 0..m : Held(u, n + k) \subseteq Held(t, k)
  <2> SUFFICES ASSUME NEW k \in 0..m, NEW l \in Held(u, n + k)
               PROVE  l \in Held(t, k)
    OBVIOUS
  <2>1. PICK i \in 1..n + k :
          l \in Locks /\ Takes(u[i], l) /\ \A j \in i..n + k : ~Frees(u[j], l)
    BY DEF Held
  <2>2. CASE i <= n
    <3>1. Takes(s[i], l) /\ \A j \in i..n : ~Frees(s[j], l)
      <4>1. \A j \in i..n : u[j] = s[j] /\ j \in i..n + k
        BY <1>2, <2>2
      <4> QED
        BY <1>2, <2>1, <2>2, <4>1
    <3>2. l \in Held(s, n)
      BY <1>2, <2>1, <2>2, <3>1 DEF Held
    <3> QED
      BY <1>1, <3>2 DEF Ordered
  <2>3. CASE i > n
    <3>1. i - n \in 1..k /\ t[i - n] = u[i]
      BY <1>2, <2>3
    <3>2. \A j \in (i - n)..k : n + j \in i..n + k /\ t[j] = u[n + j]
      BY <1>2, <2>3
    <3> QED
      BY <2>1, <3>1, <3>2 DEF Held
  <2> QED
    BY <1>2, <2>2, <2>3
<1>5. ASSUME NEW i \in 1..n + m, u[i].op = "take"
      PROVE  /\ Order[u[i].lock] > r
             /\ \A l \in Held(u, i - 1) : Order[l] < Order[u[i].lock]
  <2>1. CASE i <= n
    <3>1. u[i] = s[i] /\ i \in 1..n /\ i - 1 \in 0..n
      BY <1>2, <2>1
    <3> QED
      BY <1>1, <1>3, <1>5, <3>1 DEF Ordered
  <2>2. CASE i > n
    <3>1. u[i] = t[i - n] /\ i - n \in 1..m /\ (i - n) - 1 \in 0..m
          /\ n + ((i - n) - 1) = i - 1
      BY <1>2, <2>2
    <3>2. Held(u, i - 1) \subseteq Held(t, (i - n) - 1)
      BY <1>4, <3>1
    <3> QED
      BY <1>1, <1>5, <3>1, <3>2 DEF Ordered
  <2> QED
    BY <1>2, <2>1, <2>2
<1>6. Held(u, n + m) = {}
  <2>1. Held(t, m) = {}
    BY <1>1 DEF Ordered
  <2>2. m \in 0..m
    BY <1>2
  <2> QED
    BY <1>4, <2>1, <2>2
<1> QED
  BY <1>1, <1>2, <1>5, <1>6 DEF Ordered

\* A lock around a sequence that takes only later ones.
LEMMA WithinOrdered ==
  ASSUME NEW r \in Nat, NEW lock \in Locks, NEW s, Order[lock] > r, Ordered(s, Order[lock])
  PROVE  Ordered(Within(lock, s), r) /\ Within(lock, s) # <<>>
<1>1. PICK u, n, take, free :
        /\ u = Within(lock, s) /\ n = Len(s)
        /\ take = [op |-> "take", lock |-> lock] /\ free = [op |-> "free", lock |-> lock]
  OBVIOUS
<1>2. Order[lock] \in Nat /\ take \in Steps /\ free \in Steps
  BY <1>1, OrderType DEF Steps
<1>3. /\ s \in Seq(Steps) /\ n \in Nat
      /\ u \in Seq(Steps) /\ Len(u) = n + 2
      /\ u[1] = take /\ u[n + 2] = free
      /\ \A i \in 1..n : u[i + 1] = s[i]
  <2>1. s \in Seq(Steps) /\ n \in Nat
    BY <1>1, <1>2, OrderedType
  <2>2. <<take>> \in Seq(Steps) /\ <<free>> \in Seq(Steps)
        /\ Len(<<take>>) = 1 /\ Len(<<free>>) = 1 /\ <<take>>[1] = take /\ <<free>>[1] = free
    BY <1>2
  <2>3. PICK v : v = <<take>> \o s
    OBVIOUS
  <2>4. v \in Seq(Steps) /\ Len(v) = n + 1
        /\ v[1] = take /\ \A i \in 1..n : v[i + 1] = s[i]
    BY <1>1, <2>1, <2>2, <2>3, ConcatProperties
  <2>5. u = v \o <<free>>
    BY <1>1, <2>3 DEF Within
  <2>6. u \in Seq(Steps) /\ Len(u) = n + 2
        /\ \A i \in 1..n + 2 : u[i] = IF i <= n + 1 THEN v[i] ELSE <<free>>[i - (n + 1)]
    BY <2>1, <2>2, <2>4, <2>5, ConcatProperties
  <2> QED
    BY <2>1, <2>2, <2>4, <2>6
<1>4. \A k \in 0..n : Held(u, k + 1) \subseteq {lock} \cup Held(s, k)
  <2> SUFFICES ASSUME NEW k \in 0..n, NEW l \in Held(u, k + 1), l # lock
               PROVE  l \in Held(s, k)
    OBVIOUS
  <2>1. PICK i \in 1..k + 1 :
          l \in Locks /\ Takes(u[i], l) /\ \A j \in i..k + 1 : ~Frees(u[j], l)
    BY DEF Held
  <2>2. i # 1
    BY <1>1, <1>3, <2>1 DEF Takes
  <2>3. i - 1 \in 1..k /\ s[i - 1] = u[i]
    BY <1>3, <2>2
  <2>4. \A j \in (i - 1)..k : j + 1 \in i..k + 1 /\ s[j] = u[j + 1]
    BY <1>3, <2>2
  <2> QED
    BY <2>1, <2>3, <2>4 DEF Held
<1>5. Held(u, 0) = {}
  BY DEF Held
<1>6. Held(s, n) = {} /\ \A i \in 1..n : s[i].op = "take" =>
        Order[s[i].lock] > Order[lock] /\ \A l \in Held(s, i - 1) : Order[l] < Order[s[i].lock]
  BY <1>1 DEF Ordered
<1>7. Held(u, n + 2) = {}
  <2> SUFFICES ASSUME NEW l \in Held(u, n + 2)
               PROVE  FALSE
    OBVIOUS
  <2>1. PICK i \in 1..n + 2 :
          l \in Locks /\ Takes(u[i], l) /\ \A j \in i..n + 2 : ~Frees(u[j], l)
    BY DEF Held
  <2>2. i # n + 2 /\ l # lock
    BY <1>1, <1>3, <2>1 DEF Takes, Frees
  <2>3. l \in Held(u, n + 1)
    BY <1>3, <2>1, <2>2 DEF Held
  <2>4. n \in 0..n
    BY <1>3
  <2>5. l \in {lock} \cup Held(s, n)
    BY <1>4, <2>3, <2>4
  <2> QED
    BY <1>6, <2>2, <2>5
<1>8. ASSUME NEW i \in 1..n + 2, u[i].op = "take"
      PROVE  /\ Order[u[i].lock] > r
             /\ \A l \in Held(u, i - 1) : Order[l] < Order[u[i].lock]
  <2>1. CASE i = 1
    BY <1>1, <1>3, <1>5, <2>1
  <2>2. CASE i = n + 2
    BY <1>1, <1>3, <1>8, <2>2
  <2>3. CASE i # 1 /\ i # n + 2
    <3>1. i - 1 \in 1..n /\ u[i] = s[i - 1] /\ (i - 1) - 1 \in 0..n
      BY <1>3, <2>3
    <3>2. Order[u[i].lock] > Order[lock] /\ u[i].lock \in Locks
          /\ \A l \in Held(s, (i - 1) - 1) : Order[l] < Order[u[i].lock]
      <4>1. s[i - 1] \in Steps /\ s[i - 1].op = "take"
        BY <1>1, <1>2, <1>8, <3>1, OrderedType
      <4> QED
        BY <1>6, <3>1, <4>1 DEF Steps
    <3>3. Held(u, i - 1) \subseteq {lock} \cup Held(s, (i - 1) - 1)
      <4>1. ((i - 1) - 1) + 1 = i - 1
        OBVIOUS
      <4> QED
        BY <1>4, <3>1, <4>1
    <3>4. Order[u[i].lock] > r
      BY <1>2, <3>2, OrderType
    <3> QED
      BY <1>2, <3>2, <3>3, <3>4, OrderType
  <2> QED
    BY <2>1, <2>2, <2>3
<1>9. u # <<>>
  BY <1>3
<1> QED
  BY <1>1, <1>3, <1>7, <1>8, <1>9 DEF Ordered

LEMMA ThenNotEmpty ==
  ASSUME NEW s \in Seq(Steps), NEW t \in Seq(Steps), s # <<>>
  PROVE  s \o t # <<>>
BY ConcatEqualIffEmpty, ConcatSimplifications

\* A part of a path that is not empty and takes only locks after place r.
Part(s, r) == Ordered(s, r) /\ s # <<>>

LEMMA PartThen ==
  ASSUME NEW r \in Nat, NEW s, NEW t, Part(s, r), Ordered(t, r)
  PROVE  Part(s \o t, r)
BY ThenOrdered, ThenNotEmpty, OrderedType DEF Part

\* Every path takes its locks in the order, and frees them all.
LEMMA PathsOrdered ==
  ASSUME NEW p \in Paths
  PROVE  Part(Path[p], 0)
<1>1. /\ Order["totals"] = 1 /\ Order["tracking"] = 1 /\ Order["worker"] = 1
      /\ Order["updates"] = 1 /\ Order["admission"] = 2 /\ Order["day"] = 3
      /\ Order["transfers"] = 3 /\ Order["targets"] = 4 /\ Order["treats"] = 4
      /\ Order["writes"] = 4 /\ Order["database"] = 5
  BY DEF Order
<1>2. /\ "totals" \in Locks /\ "tracking" \in Locks /\ "worker" \in Locks
      /\ "updates" \in Locks /\ "admission" \in Locks /\ "day" \in Locks
      /\ "transfers" \in Locks /\ "targets" \in Locks /\ "treats" \in Locks
      /\ "writes" \in Locks /\ "database" \in Locks
  BY DEF Locks
<1>3. \A s : /\ Part(s, 4) => Part(s, 3)
             /\ Part(s, 3) => Part(s, 2)
             /\ Part(s, 2) => Part(s, 1)
             /\ Part(s, 1) => Part(s, 0)
  BY Weaker DEF Part
<1>4. \A s : /\ Part(s, 1) => /\ Part(Within("totals", s), 0)
                             /\ Part(Within("tracking", s), 0)
                             /\ Part(Within("worker", s), 0)
                             /\ Part(Within("updates", s), 0)
             /\ Part(s, 2) => Part(Within("admission", s), 1)
             /\ Part(s, 3) => /\ Part(Within("day", s), 2)
                             /\ Part(Within("transfers", s), 2)
             /\ Part(s, 4) => /\ Part(Within("targets", s), 3)
                             /\ Part(Within("treats", s), 3)
                             /\ Part(Within("writes", s), 3)
  <2> SUFFICES ASSUME NEW s
               PROVE  /\ Part(s, 1) => /\ Part(Within("totals", s), 0)
                                       /\ Part(Within("tracking", s), 0)
                                       /\ Part(Within("worker", s), 0)
                                       /\ Part(Within("updates", s), 0)
                      /\ Part(s, 2) => Part(Within("admission", s), 1)
                      /\ Part(s, 3) => /\ Part(Within("day", s), 2)
                                       /\ Part(Within("transfers", s), 2)
                      /\ Part(s, 4) => /\ Part(Within("targets", s), 3)
                                       /\ Part(Within("treats", s), 3)
                                       /\ Part(Within("writes", s), 3)
    OBVIOUS
  <2>1. ASSUME NEW lock \in Locks, NEW r \in Nat, NEW q \in Nat,
               q = Order[lock], q > r, Part(s, q)
        PROVE  Part(Within(lock, s), r)
    BY <2>1, WithinOrdered DEF Part
  <2> QED
    BY <1>1, <1>2, <2>1
<1>5. \A s, t : /\ Part(s, 3) /\ Part(t, 3) => Part(s \o t, 3)
                /\ Part(s, 2) /\ Part(t, 2) => Part(s \o t, 2)
                /\ Part(s, 1) /\ Part(t, 1) => Part(s \o t, 1)
  BY PartThen DEF Part
<1>6. Part(Query, 4)
  BY <1>1, <1>2, EmptyOrdered, WithinOrdered DEF Query, Part
<1>7. Transaction(<<>>) = Query /\ Write(TRUE) = <<>>
  BY DEF Query, Transaction, Write
<1>8. Part(Query, 3) /\ Part(Query, 2) /\ Part(Query, 1)
  BY <1>3, <1>6
<1>9. Part(Recompute, 3)
  BY <1>4, <1>6 DEF Recompute
<1>10. Part(Write(FALSE), 3)
  <2>1. Write(FALSE) = Within("writes", Query)
    BY DEF Write
  <2> QED
    BY <1>4, <1>6, <2>1
<1>11. Part(WithTreats, 3)
  BY <1>4, <1>6, <1>7 DEF WithTreats
<1>12. Part(MembershipDay(TRUE), 2)
  <2>1. MembershipDay(TRUE) = Within("day", Query \o Recompute)
    BY DEF MembershipDay
  <2> QED
    BY <1>4, <1>5, <1>8, <1>9, <2>1
<1>13. Part(MembershipDay(FALSE), 1)
  <2>1. MembershipDay(FALSE) = Within("admission", MembershipDay(TRUE))
    BY DEF MembershipDay
  <2> QED
    BY <1>4, <1>12, <2>1
<1>14. Part(AfterCommit, 3)
  BY <1>5, <1>7, <1>8, <1>9, <1>10, <1>11 DEF AfterCommit
<1>15. Part(Within("admission", MembershipDay(TRUE) \o Query), 1)
  BY <1>4, <1>5, <1>8, <1>12
<1>16. Part(Admission, 1) /\ Part(Observation, 1)
  <2>1. Part(AfterCommit, 1) /\ Part(Recompute, 1)
    BY <1>3, <1>9, <1>14
  <2>2. Admission = Within("admission", MembershipDay(TRUE) \o Query) \o AfterCommit
    BY <1>7 DEF Admission
  <2>3. Observation = Within("admission", MembershipDay(TRUE) \o Query) \o Recompute
    BY <1>7 DEF Observation
  <2> QED
    BY <1>5, <1>15, <2>1, <2>2, <2>3
<1>17. Part(Tracking, 0)
  <2>1. Tracking = Within("tracking", Query \o Recompute)
    BY <1>7 DEF Tracking
  <2>2. Part(Query \o Recompute, 1)
    BY <1>3, <1>5, <1>8, <1>9
  <2> QED
    BY <1>4, <2>1, <2>2
<1>18. Part(Transfer, 1)
  <2>1. Part(Within("transfers", WithTreats), 1)
    BY <1>3, <1>4, <1>11
  <2> QED
    BY <1>5, <1>13, <2>1 DEF Transfer
<1> HIDE DEF Query
<1>19. Paths = {"zap", "social", "track", "operator", "reset", "rebuild", "recompute",
                "transfer", "split", "midnight", "deliver", "chat"}
  BY DEF Paths, Path
<1>20. CASE p = "zap"
  <2>1. Path[p] = Within("totals", Admission)
    BY <1>20 DEF Path
  <2> QED
    BY <1>4, <1>16, <2>1
<1>21. CASE p = "social"
  <2>1. Path[p] = Observation \o Admission
    BY <1>21 DEF Path
  <2> QED
    BY <1>3, <1>5, <1>16, <2>1
<1>22. CASE p = "track"
  <2>1. Path[p] = Tracking
    BY <1>22 DEF Path
  <2> QED
    BY <1>17, <2>1
<1>23. CASE p = "operator"
  <2>1. Path[p] = Transaction(Write(TRUE)) \o Write(FALSE)
    BY <1>23 DEF Path
  <2>2. Part(Query \o Write(FALSE), 1)
    BY <1>3, <1>5, <1>8, <1>10
  <2> QED
    BY <1>3, <1>7, <2>1, <2>2
<1>24. CASE p = "reset"
  <2>1. Path[p] = Within("admission", Within("day", Transaction(<<>>) \o Recompute))
    BY <1>24 DEF Path
  <2>2. Path[p] = MembershipDay(FALSE)
    BY <1>7, <2>1 DEF MembershipDay
  <2> QED
    BY <1>3, <1>13, <2>2
<1>25. CASE p = "rebuild"
  <2>1. Path[p] = Within("totals", Transaction(<<>>))
    BY <1>25 DEF Path
  <2> QED
    BY <1>4, <1>7, <1>8, <2>1
<1>26. CASE p = "recompute"
  <2>1. Path[p] = Recompute
    BY <1>26 DEF Path
  <2> QED
    BY <1>3, <1>9, <2>1
<1>27. CASE p = "transfer"
  <2>1. Path[p] = Transfer
    BY <1>27 DEF Path
  <2> QED
    BY <1>3, <1>18, <2>1
<1>28. CASE p = "split"
  <2>1. Path[p] = WithTreats
    BY <1>28 DEF Path
  <2> QED
    BY <1>3, <1>11, <2>1
<1>29. CASE p = "midnight"
  <2>1. Path[p] = MembershipDay(FALSE)
    BY <1>29 DEF Path
  <2> QED
    BY <1>3, <1>13, <2>1
<1>30. CASE p = "deliver"
  <2>1. Path[p] = Within("worker", Transaction(<<>>))
    BY <1>30 DEF Path
  <2> QED
    BY <1>4, <1>7, <1>8, <2>1
<1>31. CASE p = "chat"
  <2>1. Path[p] = Within("updates", Transaction(<<>>))
    BY <1>31 DEF Path
  <2> QED
    BY <1>4, <1>7, <1>8, <2>1
<1> QED
  BY <1>19, <1>20, <1>21, <1>22, <1>23, <1>24, <1>25, <1>26, <1>27, <1>28, <1>29, <1>30, <1>31
-----------------------------------------------------------------------------
(* Where a task is on its path.                                              *)

LEMMA PathTypes ==
  ASSUME TypeOK, NEW t \in Tasks
  PROVE  /\ Path[path[t]] \in Seq(Steps) /\ Len(Path[path[t]]) \in Nat \ {0}
         /\ \A i \in 1..Len(Path[path[t]]) : Path[path[t]][i] \in Steps
         /\ Held(Path[path[t]], Len(Path[path[t]])) = {}
<1>1. Part(Path[path[t]], 0)
  BY PathsOrdered DEF TypeOK
<1> QED
  BY <1>1, OrderedType, EmptySeq DEF Part, Ordered

\* The step that a task is at.
LEMMA StepType ==
  ASSUME TypeOK, NEW t \in Tasks, done[t] # Idle
  PROVE  /\ done[t] \in Nat /\ done[t] + 1 \in 1..Len(Path[path[t]])
         /\ Path[path[t]][done[t] + 1] \in Steps /\ Lock(t) \in Locks
<1>1. done[t] \in Nat /\ done[t] + 1 \in 1..Len(Path[path[t]])
  BY PathTypes DEF TypeOK
<1> QED
  BY <1>1, PathTypes DEF Lock, Steps

LEMMA HeldGrows ==
  ASSUME NEW s, NEW k \in Nat, NEW l \in Locks,
         (l \in Held(s, k) /\ ~Frees(s[k + 1], l)) \/ Takes(s[k + 1], l)
  PROVE  l \in Held(s, k + 1)
<1>1. CASE Takes(s[k + 1], l)
  <2>1. \A j \in (k + 1)..(k + 1) : j = k + 1
    OBVIOUS
  <2>2. k + 1 \in 1..k + 1
    OBVIOUS
  <2>3. \A j \in (k + 1)..(k + 1) : ~Frees(s[j], l)
    BY <1>1, <2>1 DEF Takes, Frees
  <2> QED
    BY <1>1, <2>2, <2>3 DEF Held
<1>2. CASE l \in Held(s, k) /\ ~Frees(s[k + 1], l)
  <2>1. PICK i \in 1..k : Takes(s[i], l) /\ \A j \in i..k : ~Frees(s[j], l)
    BY <1>2 DEF Held
  <2>2. i \in 1..k + 1 /\ \A j \in i..k + 1 : j \in i..k \/ j = k + 1
    OBVIOUS
  <2>3. \A j \in i..k + 1 : ~Frees(s[j], l)
    BY <1>2, <2>1, <2>2
  <2> QED
    BY <2>1, <2>2, <2>3 DEF Held
<1> QED
  BY <1>1, <1>2

\* Who has a lock after a step has not come to the end.
LEMMA AfterStep ==
  ASSUME TypeOK, NEW t \in Tasks, done[t] # Idle
  PROVE  /\ After(t) \in Int
         /\ After(t) # Idle => After(t) \in 0..Len(Path[path[t]]) - 1
         /\ \A l \in Held(Path[path[t]], done[t] + 1) :
              After(t) # Idle /\ l \in Held(Path[path[t]], After(t))
<1>1. PICK s, k, n : s = Path[path[t]] /\ k = done[t] /\ n = Len(Path[path[t]])
  OBVIOUS
<1>2. n \in Nat /\ k \in Nat /\ k + 1 \in 1..n /\ Held(s, n) = {}
  BY <1>1, StepType, PathTypes
<1>3. After(t) = IF k + 1 = n THEN Idle ELSE k + 1
  BY <1>1 DEF After
<1>4. CASE k + 1 = n
  BY <1>1, <1>2, <1>3, <1>4 DEF Idle
<1>5. CASE k + 1 # n
  <2>1. After(t) = k + 1 /\ k + 1 \in 0..n - 1 /\ k + 1 # Idle
    BY <1>2, <1>3, <1>5 DEF Idle
  <2> QED
    BY <1>1, <1>2, <2>1
<1> QED
  BY <1>4, <1>5

\* A task that takes a lock l has it from then on, and keeps the others.
LEMMA AfterTake ==
  ASSUME TypeOK, NEW t \in Tasks, At(t, "take"), NEW l \in Locks,
         l = Lock(t) \/ l \in Held(Path[path[t]], done[t])
  PROVE  After(t) # Idle /\ l \in Held(Path[path[t]], After(t))
<1>1. done[t] # Idle /\ done[t] \in Nat
  BY StepType DEF At
<1>2. PICK step : step = Path[path[t]][done[t] + 1] /\ step.op = "take"
  BY DEF At
<1>3. Takes(step, l) \/ (l \in Held(Path[path[t]], done[t]) /\ ~Frees(step, l))
  BY <1>2 DEF Lock, Takes, Frees
<1>4. l \in Held(Path[path[t]], done[t] + 1)
  BY <1>1, <1>2, <1>3, HeldGrows
<1> QED
  BY <1>1, <1>4, AfterStep
-----------------------------------------------------------------------------
(* Each step preserves the invariant.                                        *)

LEMMA InitIInv == Init => IInv
<1> SUFFICES ASSUME Init PROVE IInv
  OBVIOUS
<1>1. TypeOK
  BY EmptySeq DEF Init, TypeOK, Idle
<1>2. HolderInv
  BY DEF Init, HolderInv
<1>3. WaiterInv
  BY EmptySeq DEF Init, WaiterInv
<1> QED
  BY <1>1, <1>2, <1>3 DEF IInv

\* A task that stands still is at the same step.
LEMMA SameStep ==
  ASSUME NEW u \in Tasks, done'[u] = done[u], path' = path
  PROVE  (At(u, "take")' <=> At(u, "take")) /\ Lock(u)' = Lock(u)
BY DEF At, Lock

LEMMA StartKeeps ==
  ASSUME IInv, NEW t \in Tasks, Start(t)
  PROVE  IInv'
<1>0. TypeOK /\ path' = path /\ holder' = holder /\ waiters' = waiters /\ done[t] = Idle
  BY DEF IInv, Start
<1>1. done' \in [Tasks -> Int] /\ done'[t] = 0 /\ \A u \in Tasks : u # t => done'[u] = done[u]
  BY <1>0 DEF Start, TypeOK
<1>2. TypeOK'
  <2>1. 0 \in 0..Len(Path[path[t]]) - 1
    BY <1>0, PathTypes
  <2> QED
    BY <1>0, <1>1, <2>1 DEF TypeOK
<1>3. HolderInv'
  <2>1. \A l \in Locks : holder[l] # t
    BY <1>0 DEF IInv, HolderInv
  <2> QED
    BY <1>0, <1>1, <2>1 DEF IInv, HolderInv, TypeOK
<1>4. WaiterInv'
  <2>1. \A l \in Locks : \A i \in 1..Len(waiters[l]) :
          waiters[l][i] # t /\ waiters[l][i] \in Tasks
    BY <1>0, ElementOfSeq DEF IInv, WaiterInv, At, TypeOK
  <2>2. \A l \in Locks : \A i \in 1..Len(waiters[l]) :
          At(waiters[l][i], "take")' /\ Lock(waiters[l][i])' = l
    <3> SUFFICES ASSUME NEW l \in Locks, NEW i \in 1..Len(waiters[l])
                 PROVE  At(waiters[l][i], "take")' /\ Lock(waiters[l][i])' = l
      OBVIOUS
    <3>1. PICK u \in Tasks : u = waiters[l][i] /\ u # t
      BY <2>1
    <3>2. At(u, "take")' /\ Lock(u)' = l
      BY <1>0, <1>1, <3>1, SameStep DEF IInv, WaiterInv
    <3> QED
      BY <1>0, <3>1, <3>2
  <2> QED
    BY <1>0, <2>2 DEF IInv, WaiterInv
<1> QED
  BY <1>2, <1>3, <1>4 DEF IInv

\* Whoever waits is a task, and one that does not move goes on waiting.
LEMMA WaitersStay ==
  ASSUME IInv, path' = path, NEW l \in Locks, NEW i \in 1..Len(waiters[l]),
         NEW u \in Tasks, u = waiters[l][i], done'[u] = done[u]
  PROVE  At(u, "take")' /\ Lock(u)' = l
BY SameStep DEF IInv, WaiterInv

LEMMA TakeKeeps ==
  ASSUME IInv, NEW t \in Tasks, Take(t)
  PROVE  IInv'
<1>0. PICK l : l = Lock(t)
  OBVIOUS
<1>1. /\ TypeOK /\ At(t, "take") /\ done[t] # Idle /\ l \in Locks /\ holder[l] = Nobody
      /\ path' = path /\ waiters' = waiters
      /\ holder' = [holder EXCEPT ![l] = t] /\ done' = [done EXCEPT ![t] = After(t)]
  BY <1>0, StepType DEF IInv, Take, At
<1>2. /\ done'[t] = After(t) /\ (\A u \in Tasks : u # t => done'[u] = done[u])
      /\ holder'[l] = t /\ (\A m \in Locks : m # l => holder'[m] = holder[m])
  BY <1>1 DEF TypeOK
<1>3. TypeOK'
  BY <1>1, <1>2, AfterStep DEF TypeOK
<1>4. HolderInv'
  <2> SUFFICES ASSUME NEW m \in Locks, holder'[m] # Nobody
               PROVE  /\ done'[holder'[m]] # Idle
                      /\ m \in Held(Path[path[holder'[m]]], done'[holder'[m]])
    BY <1>1 DEF HolderInv
  <2>1. PICK u \in Tasks : u = holder'[m]
    BY <1>3 DEF TypeOK
  <2>2. CASE u = t
    <3>1. m = l \/ m \in Held(Path[path[t]], done[t])
      BY <1>2, <2>1, <2>2 DEF IInv, HolderInv
    <3> QED
      BY <1>0, <1>1, <1>2, <2>1, <2>2, <3>1, AfterTake
  <2>3. CASE u # t
    BY <1>2, <2>1, <2>3 DEF IInv, HolderInv
  <2> QED
    BY <2>2, <2>3
<1>5. WaiterInv'
  <2>1. ASSUME NEW m \in Locks, NEW i \in 1..Len(waiters[m])
        PROVE  At(waiters[m][i], "take")' /\ Lock(waiters[m][i])' = m
    <3>1. PICK u \in Tasks : u = waiters[m][i]
      BY <1>1, ElementOfSeq DEF TypeOK
    <3>2. u # t
      <4>1. Lock(u) = m /\ waiters[m] # <<>> /\ holder[m] # Nobody
        BY <3>1, EmptySeq DEF IInv, WaiterInv
      <4> QED
        BY <1>0, <1>1, <4>1
    <3>3. At(u, "take")' /\ Lock(u)' = m
      BY <1>1, <1>2, <3>1, <3>2, WaitersStay
    <3> QED
      BY <1>1, <3>1, <3>3
  <2>2. \A m \in Locks : holder[m] # Nobody => holder'[m] # Nobody
    BY <1>1, <1>2
  <2> QED
    BY <1>1, <2>1, <2>2 DEF IInv, WaiterInv
<1> QED
  BY <1>3, <1>4, <1>5 DEF IInv

LEMMA WaitKeeps ==
  ASSUME IInv, NEW t \in Tasks, Wait(t)
  PROVE  IInv'
<1>0. PICK l, queue : l = Lock(t) /\ queue = waiters[l]
  OBVIOUS
<1>1. /\ TypeOK /\ At(t, "take") /\ l \in Locks /\ holder[l] # Nobody /\ ~Waits(t)
      /\ path' = path /\ done' = done /\ holder' = holder
      /\ waiters' = [waiters EXCEPT ![l] = Append(queue, t)]
  BY <1>0, StepType DEF IInv, Wait, At
<1>2. /\ queue \in Seq(Tasks) /\ Len(queue) \in Nat
      /\ waiters'[l] = Append(queue, t) /\ (\A m \in Locks : m # l => waiters'[m] = waiters[m])
  BY <1>0, <1>1, LenProperties DEF TypeOK
<1>3. /\ waiters'[l] \in Seq(Tasks) /\ Len(waiters'[l]) = Len(queue) + 1
      /\ waiters'[l][Len(queue) + 1] = t
      /\ \A i \in 1..Len(queue) : waiters'[l][i] = queue[i]
  BY <1>2, AppendProperties
<1>4. TypeOK'
  BY <1>1, <1>2, <1>3 DEF TypeOK
<1>5. HolderInv'
  BY <1>1 DEF IInv, HolderInv
<1>6. WaiterInv'
  <2> SUFFICES ASSUME NEW m \in Locks
               PROVE  /\ \A i \in 1..Len(waiters'[m]) :
                           At(waiters'[m][i], "take") /\ Lock(waiters'[m][i]) = m
                      /\ \A i, j \in 1..Len(waiters'[m]) :
                           waiters'[m][i] = waiters'[m][j] => i = j
                      /\ waiters'[m] # <<>> => holder'[m] # Nobody
    BY <1>1 DEF WaiterInv, At, Lock
  <2>0. /\ \A i \in 1..Len(waiters[m]) :
             At(waiters[m][i], "take") /\ Lock(waiters[m][i]) = m /\ waiters[m][i] # t
        /\ \A i, j \in 1..Len(waiters[m]) : waiters[m][i] = waiters[m][j] => i = j
        /\ waiters[m] # <<>> => holder[m] # Nobody
    BY <1>1 DEF IInv, WaiterInv, Waits
  <2>1. CASE m # l
    BY <1>1, <1>2, <2>0, <2>1
  <2>2. CASE m = l
    <3>1. \A i \in 1..Len(queue) + 1 : i \in 1..Len(queue) \/ i = Len(queue) + 1
      BY <1>2
    <3>2. \A i \in 1..Len(queue) + 1 :
            At(waiters'[l][i], "take") /\ Lock(waiters'[l][i]) = l
      BY <1>0, <1>1, <1>3, <2>0, <2>2, <3>1
    <3>3. \A i, j \in 1..Len(queue) + 1 : waiters'[l][i] = waiters'[l][j] => i = j
      BY <1>0, <1>3, <2>0, <2>2, <3>1
    <3> QED
      BY <1>1, <1>3, <2>2, <3>2, <3>3
  <2> QED
    BY <2>1, <2>2
<1> QED
  BY <1>4, <1>5, <1>6 DEF IInv

\* Locks are handed over: who was first in a queue has moved, and only they.
LEMMA HandOverKeeps ==
  ASSUME IInv, NEW t \in Tasks, NEW locks \in SUBSET Locks, NEW next \in Int,
         HandOver(t, locks, next), \A l \in Locks, i \in Nat :
           i \in 1..Len(waiters[l]) => waiters[l][i] # t,
         next # Idle => next \in 0..Len(Path[path[t]]) - 1,
         \A l \in Locks \ locks : holder[l] = t =>
           next # Idle /\ l \in Held(Path[path[t]], next)
  PROVE  IInv'
<1>1. PICK awaited : awaited = {l \in locks : waiters[l] # <<>>}
  OBVIOUS
<1>2. TypeOK /\ path' = path
  BY DEF IInv, HandOver
<1>3. PICK first : first = [l \in awaited |-> Head(waiters[l])]
  OBVIOUS
<1>4. /\ holder' = [l \in Locks |-> IF l \in awaited THEN first[l]
                                    ELSE IF l \in locks THEN Nobody ELSE holder[l]]
      /\ waiters' = [l \in Locks |-> IF l \in awaited THEN Tail(waiters[l]) ELSE waiters[l]]
      /\ done' = [u \in Tasks |-> IF u = t THEN next
                                  ELSE IF \E l \in awaited : first[l] = u THEN After(u)
                                  ELSE done[u]]
  BY <1>1, <1>3 DEF HandOver
\* The queues that are served.
<1>5. \A l \in awaited :
        /\ l \in Locks /\ first[l] \in Tasks /\ first[l] # t /\ first[l] = waiters[l][1]
        /\ At(first[l], "take") /\ Lock(first[l]) = l
        /\ waiters'[l] \in Seq(Tasks) /\ Len(waiters'[l]) = Len(waiters[l]) - 1
        /\ Len(waiters[l]) \in Nat \ {0}
        /\ \A i \in 1..Len(waiters'[l]) : waiters'[l][i] = waiters[l][i + 1]
  <2> SUFFICES ASSUME NEW l \in awaited
               PROVE  /\ l \in Locks /\ first[l] \in Tasks /\ first[l] # t
                      /\ first[l] = waiters[l][1]
                      /\ At(first[l], "take") /\ Lock(first[l]) = l
                      /\ waiters'[l] \in Seq(Tasks) /\ Len(waiters'[l]) = Len(waiters[l]) - 1
                      /\ Len(waiters[l]) \in Nat \ {0}
                      /\ \A i \in 1..Len(waiters'[l]) : waiters'[l][i] = waiters[l][i + 1]
    OBVIOUS
  <2>1. l \in Locks /\ waiters[l] \in Seq(Tasks) /\ waiters[l] # <<>>
    BY <1>1, <1>2 DEF TypeOK
  <2>2. Len(waiters[l]) \in Nat \ {0} /\ 1 \in 1..Len(waiters[l])
    BY <2>1, EmptySeq
  <2>3. first[l] = waiters[l][1] /\ first[l] \in Tasks
    BY <1>3, <2>1, <2>2, ElementOfSeq
  <2>4. waiters'[l] = Tail(waiters[l])
    BY <1>4, <2>1
  <2>5. At(first[l], "take") /\ Lock(first[l]) = l /\ first[l] # t
    BY <2>1, <2>2, <2>3 DEF IInv, WaiterInv
  <2> QED
    BY <2>1, <2>2, <2>3, <2>4, <2>5, HeadTailProperties
<1>6. \A l \in Locks \ awaited : waiters'[l] = waiters[l]
  BY <1>4
<1>7. \A u \in Tasks : u # t =>
        \/ At(u, "take") /\ Lock(u) \in awaited /\ first[Lock(u)] = u /\ done'[u] = After(u)
        \/ (\A l \in awaited : first[l] # u) /\ done'[u] = done[u]
  <2> SUFFICES ASSUME NEW u \in Tasks, u # t, NEW l \in awaited, first[l] = u
               PROVE  /\ At(u, "take") /\ Lock(u) \in awaited /\ first[Lock(u)] = u
                      /\ done'[u] = After(u)
    BY <1>4
  <2>1. done'[u] = After(u)
    BY <1>4
  <2>2. At(u, "take") /\ Lock(u) = l
    BY <1>5
  <2> QED
    BY <2>1, <2>2
<1>8. done'[t] = next
  BY <1>4
<1>9. \A u \in Tasks : /\ done'[u] \in Int
                       /\ done'[u] # Idle => done'[u] \in 0..Len(Path[path[u]]) - 1
  <2> SUFFICES ASSUME NEW u \in Tasks
               PROVE  /\ done'[u] \in Int
                      /\ done'[u] # Idle => done'[u] \in 0..Len(Path[path[u]]) - 1
    OBVIOUS
  <2>1. CASE u = t
    BY <1>8, <2>1
  <2>2. CASE u # t /\ At(u, "take") /\ done'[u] = After(u)
    <3>1. done[u] # Idle
      BY <2>2 DEF At
    <3> QED
      BY <1>2, <2>2, <3>1, AfterStep
  <2>3. CASE done'[u] = done[u]
    BY <1>2, <2>3 DEF TypeOK
  <2> QED
    BY <1>7, <2>1, <2>2, <2>3
<1>10. holder' \in [Locks -> Tasks \cup {Nobody}]
  BY <1>2, <1>4, <1>5 DEF TypeOK
<1>11. waiters' \in [Locks -> Seq(Tasks)]
  <2>1. \A l \in Locks : waiters'[l] \in Seq(Tasks)
    BY <1>2, <1>5, <1>6 DEF TypeOK
  <2> QED
    BY <1>4, <2>1
<1>12. TypeOK'
  <2>1. done' \in [Tasks -> Int]
    BY <1>4, <1>9
  <2> QED
    BY <1>2, <1>9, <1>10, <1>11, <2>1 DEF TypeOK
<1>13. HolderInv'
  <2> SUFFICES ASSUME NEW l \in Locks, holder'[l] # Nobody
               PROVE  /\ done'[holder'[l]] # Idle
                      /\ l \in Held(Path[path[holder'[l]]], done'[holder'[l]])
    BY <1>2 DEF HolderInv
  <2>1. PICK u \in Tasks : u = holder'[l]
    BY <1>10
  <2>2. CASE l \in awaited
    <3>1. u = first[l] /\ u # t /\ At(u, "take") /\ Lock(u) = l
      BY <1>4, <1>5, <2>1, <2>2
    <3>2. done'[u] = After(u)
      BY <1>7, <2>2, <3>1
    <3> QED
      BY <1>2, <2>1, <3>1, <3>2, AfterTake
  <2>3. CASE l \notin awaited
    <3>1. l \in Locks \ locks /\ holder[l] = u
      BY <1>4, <2>1, <2>3
    <3>2. CASE u = t
      BY <1>8, <2>1, <3>1, <3>2
    <3>3. CASE u # t
      <4>1. done[u] # Idle /\ l \in Held(Path[path[u]], done[u])
        BY <2>1, <3>1 DEF IInv, HolderInv
      <4>2. CASE done'[u] = done[u]
        BY <2>1, <4>1, <4>2
      <4>3. CASE At(u, "take") /\ done'[u] = After(u)
        BY <1>2, <2>1, <4>1, <4>3, AfterTake
      <4> QED
        BY <1>7, <3>3, <4>2, <4>3
    <3> QED
      BY <3>2, <3>3
  <2> QED
    BY <2>2, <2>3
<1>14. ASSUME NEW l \in Locks, NEW i \in 1..Len(waiters[l]), l \in awaited => i # 1,
              NEW u \in Tasks, u = waiters[l][i]
       PROVE  At(u, "take")' /\ Lock(u)' = l
  <2>1. u # t /\ At(u, "take") /\ Lock(u) = l
    BY <1>14 DEF IInv, WaiterInv
  <2>2. done'[u] = done[u]
    <3> SUFFICES ASSUME l \in awaited, first[l] = u
                 PROVE  FALSE
      BY <1>7, <2>1
    <3>1. waiters[l][1] = waiters[l][i] /\ 1 \in 1..Len(waiters[l])
      BY <1>5, <1>14
    <3> QED
      BY <1>14, <3>1 DEF IInv, WaiterInv
  <2> QED
    BY <1>2, <1>14, <2>2, WaitersStay
<1>15. WaiterInv'
  <2> SUFFICES ASSUME NEW l \in Locks
               PROVE  /\ \A i \in 1..Len(waiters'[l]) :
                           At(waiters[l][i], "take")' /\ Lock(waiters[l][i])' = l
                      /\ \A i, j \in 1..Len(waiters'[l]) :
                           waiters'[l][i] = waiters'[l][j] => i = j
                      /\ waiters'[l] # <<>> => holder'[l] # Nobody
    BY DEF WaiterInv
  <2>1. PICK shift : shift = IF l \in awaited THEN 1 ELSE 0
    OBVIOUS
  <2>2. \A i \in 1..Len(waiters'[l]) :
          /\ i + shift \in 1..Len(waiters[l]) /\ waiters'[l][i] = waiters[l][i + shift]
          /\ l \in awaited => i + shift # 1
    <3>1. Len(waiters[l]) \in Nat
      BY <1>2, LenProperties DEF TypeOK
    <3>2. CASE l \in awaited
      BY <1>5, <2>1, <3>1, <3>2
    <3>3. CASE l \notin awaited
      BY <1>6, <2>1, <3>1, <3>3
    <3> QED
      BY <3>2, <3>3
  <2>3. ASSUME NEW i \in 1..Len(waiters'[l])
        PROVE  At(waiters[l][i], "take")' /\ Lock(waiters[l][i])' = l
    <3>1. PICK u \in Tasks : u = waiters'[l][i]
      BY <1>12, ElementOfSeq DEF TypeOK
    <3>2. At(u, "take")' /\ Lock(u)' = l
      BY <1>14, <2>2, <3>1
    <3> QED
      BY <3>1, <3>2
  <2>4. \A i, j \in 1..Len(waiters'[l]) : waiters'[l][i] = waiters'[l][j] => i = j
    <3> SUFFICES ASSUME NEW i \in 1..Len(waiters'[l]), NEW j \in 1..Len(waiters'[l]),
                        waiters'[l][i] = waiters'[l][j]
                 PROVE  i = j
      OBVIOUS
    <3>1. i + shift = j + shift
      BY <2>2 DEF IInv, WaiterInv
    <3> QED
      BY <2>1, <3>1
  <2>5. waiters'[l] # <<>> => holder'[l] # Nobody
    <3>1. CASE l \in awaited
      BY <1>4, <1>5, <3>1
    <3>2. CASE l \notin awaited
      BY <1>1, <1>4, <1>6, <3>2 DEF IInv, WaiterInv
    <3> QED
      BY <3>1, <3>2
  <2> QED
    BY <2>3, <2>4, <2>5
<1> QED
  BY <1>12, <1>13, <1>15 DEF IInv

LEMMA FreeKeeps ==
  ASSUME IInv, NEW t \in Tasks, Free(t)
  PROVE  IInv'
<1>0. PICK l, step : l = Lock(t) /\ step = Path[path[t]][done[t] + 1]
  OBVIOUS
<1>1. /\ TypeOK /\ At(t, "free") /\ done[t] # Idle /\ done[t] \in Nat
      /\ l \in Locks /\ HandOver(t, {l}, After(t))
  BY <1>0, StepType DEF IInv, Free, At
<1>2. \A m \in Locks, i \in Nat : i \in 1..Len(waiters[m]) => waiters[m][i] # t
  BY <1>1 DEF IInv, WaiterInv, At
<1>3. ASSUME NEW m \in Locks \ {l}, holder[m] = t
      PROVE  After(t) # Idle /\ m \in Held(Path[path[t]], After(t))
  <2>1. m \in Held(Path[path[t]], done[t])
    BY <1>1, <1>3 DEF IInv, HolderInv
  <2>2. ~Frees(Path[path[t]][done[t] + 1], m)
    BY <1>0, <1>3 DEF Lock, Frees
  <2>3. m \in Held(Path[path[t]], done[t] + 1)
    BY <1>1, <2>1, <2>2, HeldGrows
  <2> QED
    BY <1>1, <2>3, AfterStep
<1>4. After(t) \in Int /\ (After(t) # Idle => After(t) \in 0..Len(Path[path[t]]) - 1)
  BY <1>1, AfterStep
<1> QED
  BY <1>1, <1>2, <1>3, <1>4, HandOverKeeps

LEMMA FailKeeps ==
  ASSUME IInv, NEW t \in Tasks, Fail(t)
  PROVE  IInv'
<1>1. PICK locks \in SUBSET Locks : locks = {l \in Locks : holder[l] = t}
  OBVIOUS
<1>2. HandOver(t, locks, Idle)
  BY <1>1 DEF Fail
<1>3. \A l \in Locks, i \in Nat : i \in 1..Len(waiters[l]) => waiters[l][i] # t
  BY DEF Fail, Waits
<1>4. Idle \in Int /\ \A l \in Locks \ locks : holder[l] # t
  BY <1>1 DEF Idle
<1> QED
  BY <1>2, <1>3, <1>4, HandOverKeeps
-----------------------------------------------------------------------------
\* Whoever has a lock is on the part of its path between taking and freeing
\* it, and whoever waits is in one queue, about to take the lock (asyncio.Lock).
THEOREM LocksInvariant == Spec => []IInv
<1>1. Init => IInv
  BY InitIInv
<1>2. IInv /\ [Next]_vars => IInv'
  <2> SUFFICES ASSUME IInv, [Next]_vars PROVE IInv'
    OBVIOUS
  <2>1. CASE UNCHANGED vars
    BY <2>1 DEF vars, IInv, TypeOK, HolderInv, WaiterInv, At, Lock
  <2>2. CASE Next
    BY <2>2, StartKeeps, TakeKeeps, WaitKeeps, FreeKeeps, FailKeeps DEF Next
  <2> QED
    BY <2>1, <2>2
<1> QED
  BY <1>1, <1>2, PTL DEF Spec

\* Who waits for a lock has only locks that come before it.
LEMMA WaitsForLater ==
  ASSUME IInv, NEW t \in Tasks, At(t, "take"), NEW l \in Locks, holder[l] = t
  PROVE  Lock(t) \in Locks /\ Order[l] < Order[Lock(t)]
<1>1. PICK s, k : s = Path[path[t]] /\ k = done[t]
  OBVIOUS
<1>2. k # Idle /\ k \in Nat /\ k + 1 \in 1..Len(s) /\ Lock(t) \in Locks
  BY <1>1, StepType DEF IInv, At
<1>3. s[k + 1].op = "take" /\ Lock(t) = s[k + 1].lock
  BY <1>1 DEF At, Lock
<1>4. Ordered(s, 0)
  BY <1>1, PathsOrdered DEF IInv, TypeOK, Part
<1>5. l \in Held(s, k)
  BY <1>1, CastsAssumption DEF IInv, HolderInv
<1>6. (k + 1) - 1 = k
  BY <1>2
<1> QED
  BY <1>2, <1>3, <1>4, <1>5, <1>6 DEF Ordered

LEMMA OrderedWaits == IInv => NoCircle
<1> SUFFICES ASSUME IInv, NEW group \in SUBSET Tasks, group # {},
                    \A t \in group : \E l \in Locks :
                      holder[l] \in group /\ \E i \in 1..Len(waiters[l]) : waiters[l][i] = t
             PROVE  FALSE
  BY DEF NoCircle
<1>1. \A t \in group : At(t, "take") /\ Lock(t) \in Locks /\ holder[Lock(t)] \in group
  BY DEF IInv, WaiterInv
<1>2. PICK rank : rank = [t \in group |-> Order[Lock(t)]]
  OBVIOUS
<1>3. rank \in [group -> 1..5]
  BY <1>1, <1>2, OrderType
<1>4. \A t \in group : \E u \in group : rank[t] < rank[u]
  <2> SUFFICES ASSUME NEW t \in group
               PROVE  \E u \in group : rank[t] < rank[u]
    OBVIOUS
  <2>1. PICK u \in group : u = holder[Lock(t)]
    BY <1>1
  <2>2. Order[Lock(t)] < Order[Lock(u)]
    BY <1>1, <2>1, WaitsForLater
  <2> QED
    BY <1>2, <2>2
<1>5. ASSUME NEW n \in Nat, \E t \in group : rank[t] >= n
      PROVE  \E t \in group : rank[t] >= n + 1
  <2>1. PICK t \in group : rank[t] >= n
    BY <1>5
  <2>2. PICK u \in group : rank[t] < rank[u]
    BY <1>4, Zenon
  <2>3. rank[u] >= n + 1
    BY <1>3, <2>1, <2>2
  <2> QED
    BY <2>3
<1>6. \E t \in group : rank[t] >= 0
  BY <1>3
<1>7. \E t \in group : rank[t] >= 6
  <2>1. \E t \in group : rank[t] >= 1
    BY <1>5, <1>6
  <2>2. \E t \in group : rank[t] >= 2
    BY <1>5, <2>1
  <2>3. \E t \in group : rank[t] >= 3
    BY <1>5, <2>2
  <2>4. \E t \in group : rank[t] >= 4
    BY <1>5, <2>3
  <2>5. \E t \in group : rank[t] >= 5
    BY <1>5, <2>4
  <2> QED
    BY <1>5, <2>5
<1> QED
  BY <1>3, <1>7

\* NoCircle for any number of tasks on any of the paths: nobody waits for
\* itself, and no tasks wait for each other in a circle (headbutt, membership
\* day, zap totals, splits, treats, send_splits, subscriptions, crud).
THEOREM LocksNoCircle == Spec => []NoCircle
BY LocksInvariant, OrderedWaits, PTL
=============================================================================
