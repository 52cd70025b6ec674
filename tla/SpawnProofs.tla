---------------------------- MODULE SpawnProofs ----------------------------
(***************************************************************************)
(* The run queues and the calls of hart 0, for any number of harts, any    *)
(* number of tasks and any calls of spawn.                                 *)
(*                                                                         *)
(* The invariant says of every hart what its label promises.  The queues   *)
(* are sorted because only hart 0 gets through an enqueue: a hart that     *)
(* respawns a daemon waits for the lock it holds itself.                   *)
(***************************************************************************)
EXTENDS Scheduler, SequenceTheorems, WellFoundedInduction, TLAPS

Labels == {"prompt", "register", "scan", "enqueue", "ipi", "kill", "cputest",
           "wfi", "check", "own", "steal", "mark", "markState", "run", "respawn"}

Attributes == [priority : 0 .. 4, affinity : Harts \cup {NoHart}, daemon : BOOLEAN]

Locals == [pid : 0 .. MaxPid, i : 0 .. NumHarts, min : Int, target : Harts]

SchedType ==
  /\ nextPid \in 1 .. MaxPid + 1
  /\ tcb \in [Pids -> Attributes]
  /\ state \in [Pids -> {"None", "Ready", "Running", "Zombie"}]
  /\ queues \in [Harts -> Seq(Pids)]
  /\ pc \in [Harts -> Labels]
  /\ loc \in [Harts -> Locals]
  /\ hand \in [Harts -> 0 .. MaxPid]

(* What each hart is at: hart 0 in the shell, the others in the idle loop. *)
(* A hart that respawns a daemon has `tasks` locked, and stays so.         *)
HartsInv ==
  /\ pc[0] \in {"prompt", "register", "scan", "enqueue", "ipi", "kill", "cputest"}
  /\ hand[0] = NoPid
  /\ pc[0] \in {"prompt", "register", "kill", "cputest"} => loc[0].i = 0
  /\ pc[0] = "kill" => loc[0].pid \in Pids
  /\ \A h \in Secondary :
       /\ pc[h] \in {"wfi", "check", "own", "steal", "mark", "markState", "run",
                     "respawn", "register"}
       /\ pc[h] \in {"respawn", "register"} <=> tasksLock = h
       /\ pc[h] # "steal" => loc[h].i = 0
       /\ hand[h] = NoPid <=> pc[h] \in {"wfi", "check", "own", "steal"}
  /\ \A h \in Harts :
       /\ pc[h] \in {"scan", "steal"} => loc[h].i \in Harts
       /\ pc[h] \in {"register", "scan", "enqueue"} => loc[h].pid \in Pids

(* The tasks in the queues, in the hands of harts and in the making are    *)
(* different ones, all of PIDs handed out.                                 *)
Queued(h) == Range(queues[h])
Made(h) == IF pc[h] \in {"register", "scan", "enqueue"} THEN loc[h].pid ELSE NoPid

PlacesInv ==
  /\ \A h \in Harts : \A p \in Queued(h) \cup {hand[h], Made(h)} : p < nextPid
  /\ \A g, h \in Harts : g # h => Queued(g) \cap Queued(h) = {}
  /\ \A g, h \in Harts : hand[g] \notin Queued(h) /\ Made(g) \notin Queued(h)
  /\ \A g, h \in Harts : g # h /\ hand[g] # NoPid => hand[g] # hand[h]
  /\ \A g, h \in Harts : Made(g) # NoPid => Made(g) # hand[h]
  /\ \A g, h \in Harts : g # h /\ Made(g) # NoPid => Made(g) # Made(h)

(* A runnable task is somewhere, and in the registry once it is there. *)
ReadyInv ==
  \A p \in Pids : state[p] = "Ready" =>
    /\ \E h \in Harts : p \in Queued(h) \/ hand[h] = p \/ Made(h) = p
    /\ \A h \in Harts : hand[h] = p => pc[h] \in {"mark", "markState"}
    /\ p \in registry \/ \E h \in Harts : pc[h] = "register" /\ loc[h].pid = p

(* The task hart 0 is about to enqueue has a greater PID than all queued. *)
NewestInv ==
  \A h \in Harts : \A p \in Queued(h) : Made(0) # NoPid => p < Made(0)

SchedInv ==
  SchedType /\ HartsInv /\ PlacesInv /\ ReadyInv /\ NewestInv /\ QueuesInOrder

-----------------------------------------------------------------------------
(* RunQueue *)

(* A set of natural numbers that is not empty has a least element. *)
LEMMA LeastIsLeast ==
  ASSUME NEW S \in SUBSET Nat, S # {}
  PROVE  Least(S) \in S /\ \A y \in S : Least(S) <= y
<1>1. PICK x \in S : \A y \in S : ~(<<y, x>> \in OpToRel(<, Nat))
  BY NatLessThanWellFounded, WFMin
<1>2. \A y \in Nat, z \in Nat : y < z => <<y, z>> \in OpToRel(<, Nat)
  BY DEF OpToRel
<1>3. ASSUME NEW y \in S PROVE x <= y
  <2>1. x \in Nat /\ y \in Nat /\ ~(y < x)
    BY <1>1, <1>2
  <2> QED
    BY <2>1
<1> QED
  BY <1>3, Zenon DEF Least

(* The list kept in order by RunQueue: greater priority first, then the    *)
(* smaller PID.                                                            *)
Before(p, q) == \/ tcb[p].priority > tcb[q].priority
                \/ tcb[p].priority = tcb[q].priority /\ p < q
Ordered(q) == \A i, j \in DOMAIN q : i < j => Before(q[i], q[j])

(* Where RunQueue::enqueue inserts. *)
Lower(q, p) == {i \in DOMAIN q : tcb[q[i]].priority < tcb[p].priority}
Slot(q, p) == IF Lower(q, p) = {} THEN Len(q) + 1 ELSE Least(Lower(q, p))

(* A task has one of the five priorities. *)
LEMMA PriorityIsInt ==
  ASSUME tcb \in [Pids -> Attributes]
  PROVE  \A p \in Pids : tcb[p].priority \in Int
<1> SUFFICES ASSUME NEW p \in Pids PROVE tcb[p].priority \in Int
  OBVIOUS
<1>1. tcb[p].priority \in 0 .. 4
  BY DEF Attributes
<1> QED
  BY <1>1

(* The slot is behind the tasks of no lower priority and before the first  *)
(* of lower priority.                                                      *)
LEMMA SlotIsFirst ==
  ASSUME NEW q \in Seq(Pids), NEW p \in Pids, tcb \in [Pids -> Attributes]
  PROVE  /\ Slot(q, p) \in 1 .. Len(q) + 1
         /\ \A i \in 1 .. Slot(q, p) - 1 : tcb[q[i]].priority >= tcb[p].priority
         /\ Slot(q, p) <= Len(q) => tcb[q[Slot(q, p)]].priority < tcb[p].priority
<1>1. Len(q) \in Nat /\ DOMAIN q = 1 .. Len(q) /\ \A i \in 1 .. Len(q) : q[i] \in Pids
  OBVIOUS
<1>2. \A r \in Pids : tcb[r].priority \in Int
  BY PriorityIsInt
<1>3. CASE Lower(q, p) = {}
  <2>1. Slot(q, p) = Len(q) + 1
    BY <1>3 DEF Slot
  <2>2. \A i \in 1 .. Len(q) : tcb[q[i]].priority >= tcb[p].priority
    BY <1>1, <1>2, <1>3 DEF Lower
  <2> QED
    BY <1>1, <2>1, <2>2
<1>4. CASE Lower(q, p) # {}
  <2>1. Lower(q, p) \in SUBSET Nat
    BY <1>1 DEF Lower
  <2>2. /\ Slot(q, p) \in Lower(q, p)
        /\ \A y \in Lower(q, p) : Slot(q, p) <= y
    BY <1>4, <2>1, LeastIsLeast DEF Slot
  <2>3. /\ Slot(q, p) \in 1 .. Len(q)
        /\ tcb[q[Slot(q, p)]].priority < tcb[p].priority
    BY <1>1, <2>2 DEF Lower
  <2>4. ASSUME NEW i \in 1 .. Slot(q, p) - 1
        PROVE  tcb[q[i]].priority >= tcb[p].priority
    <3>1. i \in DOMAIN q /\ i \notin Lower(q, p)
      BY <1>1, <2>2, <2>3
    <3> QED
      BY <1>1, <1>2, <3>1 DEF Lower
  <2> QED
    BY <1>1, <2>3, <2>4
<1> QED
  BY <1>3, <1>4

(* VecDeque::insert *)
LEMMA VecInsertIs ==
  ASSUME NEW S, NEW q \in Seq(S), NEW k \in 1 .. Len(q) + 1, NEW e \in S
  PROVE  /\ VecInsert(q, k, e) \in Seq(S) /\ Len(VecInsert(q, k, e)) = Len(q) + 1
         /\ \A j \in 1 .. k - 1 : VecInsert(q, k, e)[j] = q[j]
         /\ VecInsert(q, k, e)[k] = e
         /\ \A j \in k + 1 .. Len(q) + 1 : VecInsert(q, k, e)[j] = q[j - 1]
<1> DEFINE a == SubSeq(q, 1, k - 1)
           b == SubSeq(q, k, Len(q))
           c == <<e>>
<1>1. Len(q) \in Nat /\ k \in Nat /\ \A i \in 1 .. Len(q) : q[i] \in S
  OBVIOUS
<1>2. a \in Seq(S) /\ Len(a) = k - 1 /\ \A j \in 1 .. k - 1 : a[j] = q[j]
  BY <1>1, SubSeqProperties
<1>3. /\ b \in Seq(S) /\ Len(b) = Len(q) - k + 1
      /\ \A j \in 1 .. Len(q) - k + 1 : b[j] = q[k + j - 1]
  BY <1>1, SubSeqProperties
<1>4. c \in Seq(S) /\ Len(c) = 1 /\ c[1] = e
  OBVIOUS
<1> HIDE DEF a, b, c
<1> DEFINE d == a \o c
<1>5. /\ d \in Seq(S) /\ Len(d) = k
      /\ \A j \in 1 .. k - 1 : d[j] = q[j]
      /\ d[k] = e
  <2>1. /\ d \in Seq(S) /\ Len(d) = Len(a) + Len(c)
        /\ \A i \in 1 .. Len(a) + Len(c) :
             d[i] = IF i <= Len(a) THEN a[i] ELSE c[i - Len(a)]
    BY <1>2, <1>4, ConcatProperties, Zenon
  <2> HIDE DEF d
  <2>2. Len(a) + Len(c) = k /\ k - Len(a) = 1
    BY <1>1, <1>2, <1>4
  <2>3. d[k] = e
    BY <1>1, <1>2, <1>4, <2>1, <2>2
  <2>4. ASSUME NEW j \in 1 .. k - 1 PROVE d[j] = q[j]
    BY <1>1, <1>2, <2>1, <2>2
  <2> QED
    BY <2>1, <2>2, <2>3, <2>4
<1> HIDE DEF d
<1> DEFINE r == d \o b
<1>6. /\ r \in Seq(S) /\ Len(r) = Len(q) + 1
      /\ \A j \in 1 .. k : r[j] = d[j]
      /\ \A j \in k + 1 .. Len(q) + 1 : r[j] = b[j - k]
  <2>1. /\ r \in Seq(S) /\ Len(r) = Len(d) + Len(b)
        /\ \A i \in 1 .. Len(d) + Len(b) :
             r[i] = IF i <= Len(d) THEN d[i] ELSE b[i - Len(d)]
    BY <1>3, <1>5, ConcatProperties
  <2> HIDE DEF r
  <2>2. Len(d) + Len(b) = Len(q) + 1 /\ Len(d) = k
    BY <1>1, <1>3, <1>5
  <2>3. ASSUME NEW j \in 1 .. k PROVE r[j] = d[j]
    BY <1>1, <2>1, <2>2
  <2>4. ASSUME NEW j \in k + 1 .. Len(q) + 1 PROVE r[j] = b[j - k]
    BY <1>1, <2>1, <2>2
  <2> QED
    BY <2>1, <2>2, <2>3, <2>4
<1>7. r = VecInsert(q, k, e)
  BY DEF r, d, a, b, c, VecInsert
<1> HIDE DEF r
<1>8. /\ \A j \in 1 .. k - 1 : r[j] = q[j]
      /\ r[k] = e
  BY <1>1, <1>5, <1>6
<1>9. ASSUME NEW j \in k + 1 .. Len(q) + 1 PROVE r[j] = q[j - 1]
  <2>1. j - k \in 1 .. Len(q) - k + 1 /\ k + (j - k) - 1 = j - 1
    BY <1>1
  <2> QED
    BY <1>3, <1>6, <2>1, Zenon
<1> QED
  BY <1>6, <1>7, <1>8, <1>9

(* VecDeque::remove *)
LEMMA VecRemoveIs ==
  ASSUME NEW S, NEW q \in Seq(S), NEW k \in 1 .. Len(q)
  PROVE  /\ VecRemove(q, k) \in Seq(S) /\ Len(VecRemove(q, k)) = Len(q) - 1
         /\ \A j \in 1 .. k - 1 : VecRemove(q, k)[j] = q[j]
         /\ \A j \in k .. Len(q) - 1 : VecRemove(q, k)[j] = q[j + 1]
<1> DEFINE a == SubSeq(q, 1, k - 1)
           b == SubSeq(q, k + 1, Len(q))
<1>1. Len(q) \in Nat /\ k \in Nat /\ \A i \in 1 .. Len(q) : q[i] \in S
  OBVIOUS
<1>2. a \in Seq(S) /\ Len(a) = k - 1 /\ \A j \in 1 .. k - 1 : a[j] = q[j]
  BY <1>1, SubSeqProperties
<1>3. /\ b \in Seq(S) /\ Len(b) = Len(q) - k
      /\ \A j \in 1 .. Len(q) - k : b[j] = q[k + j]
  BY <1>1, SubSeqProperties
<1> HIDE DEF a, b
<1> DEFINE r == a \o b
<1>4. /\ r \in Seq(S) /\ Len(r) = Len(q) - 1
      /\ \A j \in 1 .. k - 1 : r[j] = a[j]
      /\ \A j \in k .. Len(q) - 1 : r[j] = b[j - (k - 1)]
  <2>1. /\ r \in Seq(S) /\ Len(r) = Len(a) + Len(b)
        /\ \A i \in 1 .. Len(a) + Len(b) :
             r[i] = IF i <= Len(a) THEN a[i] ELSE b[i - Len(a)]
    BY <1>2, <1>3, ConcatProperties, Zenon
  <2> HIDE DEF r
  <2>2. Len(a) + Len(b) = Len(q) - 1 /\ Len(a) = k - 1
    BY <1>1, <1>2, <1>3
  <2>3. ASSUME NEW j \in 1 .. k - 1 PROVE r[j] = a[j]
    BY <1>1, <2>1, <2>2
  <2>4. ASSUME NEW j \in k .. Len(q) - 1 PROVE r[j] = b[j - (k - 1)]
    BY <1>1, <2>1, <2>2
  <2> QED
    BY <2>1, <2>2, <2>3, <2>4
<1>5. r = VecRemove(q, k)
  BY DEF r, a, b, VecRemove
<1> HIDE DEF r
<1>6. ASSUME NEW j \in k .. Len(q) - 1 PROVE r[j] = q[j + 1]
  <2>1. j - (k - 1) \in 1 .. Len(q) - k /\ k + (j - (k - 1)) = j + 1
    BY <1>1
  <2> QED
    BY <1>3, <1>4, <2>1
<1> QED
  BY <1>2, <1>4, <1>5, <1>6

(* RunQueue::enqueue adds the task and keeps the order, when the task is   *)
(* newer than all in the queue.                                            *)
LEMMA EnqueueOrdered ==
  ASSUME NEW q \in Seq(Pids), NEW p \in Pids, tcb \in [Pids -> Attributes],
         Ordered(q), \A x \in Range(q) : x < p
  PROVE  LET r == Enqueue(q, p)
         IN  r \in Seq(Pids) /\ Range(r) = Range(q) \cup {p} /\ Ordered(r)
<1> DEFINE k == Slot(q, p)
           r == Enqueue(q, p)
<1>1. /\ Len(q) \in Nat /\ DOMAIN q = 1 .. Len(q)
      /\ \A i \in 1 .. Len(q) : q[i] \in Pids /\ q[i] < p
  BY DEF Range
<1>2. \A x \in Pids : tcb[x].priority \in Int
  BY PriorityIsInt
<1>3. /\ k \in 1 .. Len(q) + 1
      /\ \A i \in 1 .. k - 1 : tcb[q[i]].priority >= tcb[p].priority
      /\ k <= Len(q) => tcb[q[k]].priority < tcb[p].priority
  BY SlotIsFirst
<1>4. r = VecInsert(q, k, p)
  BY DEF Enqueue, Slot, Lower
<1> HIDE DEF k, r
<1>5. /\ r \in Seq(Pids) /\ Len(r) = Len(q) + 1
      /\ \A j \in 1 .. k - 1 : r[j] = q[j]
      /\ r[k] = p
      /\ \A j \in k + 1 .. Len(q) + 1 : r[j] = q[j - 1]
  <2>1. /\ VecInsert(q, k, p) \in Seq(Pids) /\ Len(VecInsert(q, k, p)) = Len(q) + 1
        /\ \A j \in 1 .. k - 1 : VecInsert(q, k, p)[j] = q[j]
        /\ VecInsert(q, k, p)[k] = p
        /\ \A j \in k + 1 .. Len(q) + 1 : VecInsert(q, k, p)[j] = q[j - 1]
    BY <1>3, VecInsertIs
  <2> QED
    BY <1>4, <2>1
<1>6. DOMAIN r = 1 .. Len(q) + 1
  BY <1>5
<1>7. Range(r) = Range(q) \cup {p}
  <2>1. ASSUME NEW x \in Range(r) PROVE x \in Range(q) \cup {p}
    <3>1. PICK j \in 1 .. Len(q) + 1 : x = r[j]
      BY <1>6 DEF Range
    <3>2. CASE j < k
      <4>1. j \in 1 .. k - 1 /\ j \in 1 .. Len(q)
        BY <1>1, <1>3, <3>2
      <4> QED
        BY <1>1, <1>5, <3>1, <4>1 DEF Range
    <3>3. CASE j = k
      BY <1>5, <3>1, <3>3
    <3>4. CASE j > k
      <4>1. j - 1 \in 1 .. Len(q) /\ x = q[j - 1]
        BY <1>1, <1>3, <1>5, <3>1, <3>4
      <4> QED
        BY <1>1, <4>1 DEF Range
    <3> QED
      BY <1>1, <1>3, <3>1, <3>2, <3>3, <3>4
  <2>2. ASSUME NEW x \in Range(q) PROVE x \in Range(r)
    <3>1. PICK j \in 1 .. Len(q) : x = q[j]
      BY <1>1 DEF Range
    <3>2. CASE j < k
      <4>1. j \in 1 .. k - 1 /\ j \in 1 .. Len(q) + 1
        BY <1>1, <1>3, <3>2
      <4>2. r[j] = x
        BY <1>5, <3>1, <4>1
      <4> QED BY <1>6, <4>1, <4>2 DEF Range
    <3>3. CASE j >= k
      <4>1. j + 1 \in k + 1 .. Len(q) + 1 /\ r[j + 1] = q[j]
        BY <1>1, <1>3, <1>5, <3>3
      <4> QED
        BY <1>1, <1>3, <1>6, <3>1, <4>1 DEF Range
    <3> QED
      BY <1>1, <1>3, <3>2, <3>3
  <2>3. p \in Range(r)
    BY <1>3, <1>5, <1>6 DEF Range
  <2> QED
    BY <2>1, <2>2, <2>3
<1>8. Ordered(r)
  <2> SUFFICES ASSUME NEW i \in 1 .. Len(q) + 1, NEW j \in 1 .. Len(q) + 1, i < j
               PROVE  Before(r[i], r[j])
    BY <1>6 DEF Ordered
  <2>1. \A a, b \in 1 .. Len(q) : a < b => Before(q[a], q[b])
    BY <1>1 DEF Ordered
  <2>2. CASE j < k
    BY <1>1, <1>3, <1>5, <2>1, <2>2
  <2>3. CASE j = k
    <3>1. i \in 1 .. k - 1 /\ r[i] = q[i] /\ r[j] = p
      BY <1>1, <1>3, <1>5, <2>3
    <3> QED
      BY <1>1, <1>2, <1>3, <3>1 DEF Before
  <2>4. CASE j > k
    <3>1. r[j] = q[j - 1] /\ j - 1 \in 1 .. Len(q) /\ k \in 1 .. Len(q)
      BY <1>1, <1>3, <1>5, <2>4
    <3>2. CASE i < k
      <4>1. r[i] = q[i] /\ i \in 1 .. Len(q) /\ i < j - 1
        BY <1>1, <1>3, <1>5, <2>4, <3>2
      <4> QED
        BY <2>1, <3>1, <4>1
    <3>3. CASE i = k
      <4>1. tcb[q[k]].priority < tcb[p].priority
        BY <1>3, <3>1
      <4>2. tcb[q[j - 1]].priority <= tcb[q[k]].priority
        <5>1. CASE k = j - 1
          BY <5>1, <1>1, <1>2, <3>1
        <5>2. CASE k < j - 1
          BY <5>2, <1>1, <1>2, <2>1, <3>1 DEF Before
        <5> QED
          BY <5>1, <5>2, <1>3, <2>4, <3>1
      <4> QED
        BY <1>1, <1>2, <1>5, <3>1, <3>3, <4>1, <4>2 DEF Before
    <3>4. CASE i > k
      <4>1. r[i] = q[i - 1] /\ i - 1 \in 1 .. Len(q) /\ i - 1 < j - 1
        BY <1>1, <1>3, <1>5, <3>4
      <4> QED
        BY <2>1, <3>1, <4>1
    <3> QED
      BY <1>3, <3>2, <3>3, <3>4
  <2> QED
    BY <1>3, <2>2, <2>3, <2>4
<1> QED
  BY <1>5, <1>7, <1>8 DEF r

(* The queues in order, queue by queue. *)
LEMMA InOrderIs == QueuesInOrder <=> \A h \in Harts : Ordered(queues[h])
  BY DEF QueuesInOrder, Ordered, Before

(* The tasks of an ordered queue are all different. *)
LEMMA OrderedIsInjective ==
  ASSUME NEW q \in Seq(Pids), tcb \in [Pids -> Attributes], Ordered(q)
  PROVE  \A i, j \in 1 .. Len(q) : q[i] = q[j] => i = j
<1> SUFFICES ASSUME NEW i \in 1 .. Len(q), NEW j \in 1 .. Len(q), q[i] = q[j], i < j
             PROVE  FALSE
  OBVIOUS
<1>1. q[i] \in Pids /\ q[i] \in Int /\ Before(q[i], q[j])
  BY MaxPidAssumption DEF Ordered, Pids
<1>2. tcb[q[i]].priority \in Int
  BY <1>1, PriorityIsInt
<1> QED
  BY <1>1, <1>2 DEF Before

(* RunQueue::dequeue takes the task at the position out, and no other. *)
LEMMA RemoveOrdered ==
  ASSUME NEW q \in Seq(Pids), NEW k \in 1 .. Len(q), tcb \in [Pids -> Attributes],
         Ordered(q)
  PROVE  /\ VecRemove(q, k) \in Seq(Pids)
         /\ Range(VecRemove(q, k)) = Range(q) \ {q[k]}
         /\ Ordered(VecRemove(q, k))
<1> DEFINE r == VecRemove(q, k)
<1>1. /\ r \in Seq(Pids) /\ Len(r) = Len(q) - 1
      /\ \A j \in 1 .. k - 1 : r[j] = q[j]
      /\ \A j \in k .. Len(q) - 1 : r[j] = q[j + 1]
  BY VecRemoveIs
<1> HIDE DEF r
<1>2. Len(q) \in Nat /\ DOMAIN q = 1 .. Len(q) /\ DOMAIN r = 1 .. Len(q) - 1
  BY <1>1
<1>3. \A i, j \in 1 .. Len(q) : q[i] = q[j] => i = j
  BY OrderedIsInjective
<1> DEFINE f(j) == IF j < k THEN j ELSE j + 1
<1>4. \A j \in 1 .. Len(q) - 1 : f(j) \in 1 .. Len(q) /\ f(j) # k /\ r[j] = q[f(j)]
  BY <1>1, <1>2
<1>5. \A i, j \in 1 .. Len(q) - 1 : i < j => f(i) < f(j)
  BY <1>2
<1>6. ASSUME NEW i \in 1 .. Len(q), i # k
      PROVE  \E j \in 1 .. Len(q) - 1 : f(j) = i
  <2>1. CASE i < k
    <3>1. i \in 1 .. Len(q) - 1 /\ f(i) = i
      BY <2>1, <1>2
    <3> QED
      BY <3>1
  <2>2. CASE i > k
    <3>1. i - 1 \in 1 .. Len(q) - 1 /\ f(i - 1) = i
      BY <2>2, <1>2
    <3> QED
      BY <3>1
  <2> QED
    BY <1>2, <1>6, <2>1, <2>2
<1> HIDE DEF f
<1>7. Range(r) = Range(q) \ {q[k]}
  <2>1. ASSUME NEW x \in Range(r) PROVE x \in Range(q) \ {q[k]}
    <3>1. PICK j \in 1 .. Len(q) - 1 : x = r[j]
      BY <1>2 DEF Range
    <3> QED
      BY <1>2, <1>3, <1>4, <3>1 DEF Range
  <2>2. ASSUME NEW x \in Range(q), x # q[k] PROVE x \in Range(r)
    <3>1. PICK i \in 1 .. Len(q) : x = q[i]
      BY <1>2 DEF Range
    <3>2. PICK j \in 1 .. Len(q) - 1 : f(j) = i
      BY <1>6, <2>2, <3>1
    <3> QED
      BY <1>2, <1>4, <3>1, <3>2, Zenon DEF Range
  <2> QED
    BY <2>1, <2>2
<1>8. Ordered(r)
  BY <1>2, <1>4, <1>5 DEF Ordered
<1> QED
  BY <1>1, <1>7, <1>8 DEF r

(* RunQueue::steal takes the last task out. *)
LEMMA StealOrdered ==
  ASSUME NEW q \in Seq(Pids), tcb \in [Pids -> Attributes], Ordered(q), CanSteal(q)
  PROVE  /\ AfterSteal(q) \in Seq(Pids) /\ q[Len(q)] \in Range(q)
         /\ Range(AfterSteal(q)) = Range(q) \ {q[Len(q)]}
         /\ Ordered(AfterSteal(q))
<1> DEFINE n == Len(q)
           r == AfterSteal(q)
<1>1. n \in Nat /\ n > 1 /\ DOMAIN q = 1 .. n
  BY DEF CanSteal
<1>2. r \in Seq(Pids) /\ DOMAIN r = 1 .. n - 1 /\ \A i \in 1 .. n - 1 : r[i] = q[i]
  <2>1. \A i \in 1 .. n - 1 : q[i] \in Pids
    BY <1>1
  <2>2. r = SubSeq(q, 1, n - 1)
    BY DEF AfterSteal
  <2> HIDE DEF r
  <2>3. /\ r \in Seq(Pids) /\ Len(r) = n - 1
        /\ \A i \in 1 .. n - 1 : r[i] = q[1 + i - 1]
    BY <1>1, <2>1, <2>2, SubSeqProperties
  <2> QED
    BY <1>1, <2>3
<1> HIDE DEF r
<1>3. \A i, j \in 1 .. n : q[i] = q[j] => i = j
  BY OrderedIsInjective
<1> HIDE DEF n
<1>4. q[n] \in Range(q)
  BY <1>1 DEF Range
<1>5. Range(r) = Range(q) \ {q[n]}
  <2>1. ASSUME NEW x \in Range(r) PROVE x \in Range(q) \ {q[n]}
    <3>1. PICK j \in 1 .. n - 1 : x = r[j]
      BY <1>2 DEF Range
    <3>2. x = q[j] /\ j \in 1 .. n /\ j # n
      BY <1>1, <1>2, <3>1
    <3> QED
      BY <1>1, <1>3, <3>2 DEF Range
  <2>2. ASSUME NEW x \in Range(q), x # q[n] PROVE x \in Range(r)
    <3>1. PICK j \in 1 .. n : x = q[j]
      BY <1>1 DEF Range
    <3>2. j \in 1 .. n - 1
      BY <1>1, <2>2, <3>1
    <3> QED
      BY <1>2, <3>1, <3>2 DEF Range
  <2> QED
    BY <2>1, <2>2
<1>6. Ordered(r)
  <2>1. \A i \in 1 .. n - 1 : i \in 1 .. n
    BY <1>1
  <2> QED
    BY <1>1, <1>2, <2>1 DEF Ordered
<1> QED
  BY <1>1, <1>2, <1>4, <1>5, <1>6 DEF r, n

(* RunQueue::dequeue finds a position of the queue, or none. *)
LEMMA FirstRunnableIs ==
  ASSUME NEW q \in Seq(Pids)
  PROVE  FirstRunnable(q) = 0 \/ FirstRunnable(q) \in 1 .. Len(q)
<1> DEFINE I == {i \in DOMAIN q : state[q[i]] = "Ready"}
<1>1. FirstRunnable(q) = IF I = {} THEN 0 ELSE Least(I)
  BY DEF FirstRunnable
<1>2. I \in SUBSET Nat
  OBVIOUS
<1>3. I # {} => Least(I) \in I
  BY <1>2, LeastIsLeast, Zenon
<1> QED
  BY <1>1, <1>3

-----------------------------------------------------------------------------
(* Hart 0 is a hart, and no hart is NoHart. *)
LEMMA HartFacts ==
  /\ 0 \in Harts /\ NoHart \notin Harts /\ 0 \notin Secondary
  /\ \A h \in Harts : h = 0 \/ h \in Secondary
  /\ Secondary \subseteq Harts
  BY NumHartsAssumption DEF Harts, Secondary, NoHart

(* PID 0 is no task's. *)
LEMMA PidFacts ==
  /\ NoPid \notin Pids /\ \A p \in 0 .. MaxPid : p = NoPid \/ p \in Pids
  /\ \A p \in Pids : p \in Int /\ p \in 0 .. MaxPid /\ p # NoPid /\ p > 0
  BY MaxPidAssumption DEF Pids, NoPid

(* A new task's locals. *)
LEMMA NoLocalsType == NoLocals \in Locals /\ NoLocals.i = 0
  BY NumHartsAssumption, MaxPidAssumption DEF NoLocals, Locals, Harts, NoPid

(* What a hart makes is a task of the program, or none. *)
LEMMA MadeIsPid ==
  ASSUME SchedType, NEW h \in Harts
  PROVE  Made(h) \in 0 .. MaxPid
  BY PidFacts, MaxPidAssumption DEF SchedType, Locals, Made, NoPid

(* A step that puts no task into a queue or a hand leaves the places       *)
(* different and the queues in order.                                      *)
LEMMA SamePlaces ==
  ASSUME SchedType, PlacesInv, NewestInv, QueuesInOrder,
         UNCHANGED <<queues, nextPid, tcb>>,
         \A h \in Harts : hand'[h] = hand[h] \/ hand'[h] = NoPid,
         \A h \in Harts : Made(h)' = Made(h) \/ Made(h)' = NoPid
  PROVE  PlacesInv' /\ NewestInv' /\ QueuesInOrder'
<1>1. \A h \in Harts : Queued(h)' = Queued(h) /\ NoPid \notin Queued(h)
  <2> SUFFICES ASSUME NEW h \in Harts
               PROVE  Queued(h)' = Queued(h) /\ NoPid \notin Queued(h)
    OBVIOUS
  <2>1. queues[h] \in Seq(Pids)
    BY DEF SchedType
  <2> QED
    BY <2>1, PidFacts DEF Queued, Range
<1>2. NoPid < nextPid
  BY MaxPidAssumption DEF SchedType, NoPid
<1>3. PlacesInv'
  <2>1. \A h \in Harts : \A p \in (Queued(h) \cup {hand[h], Made(h)})' : p < nextPid'
    BY <1>1, <1>2 DEF PlacesInv
  <2>2. \A g, h \in Harts : g # h => Queued(g)' \cap Queued(h)' = {}
    BY <1>1 DEF PlacesInv
  <2>3. \A g, h \in Harts : hand'[g] \notin Queued(h)' /\ Made(g)' \notin Queued(h)'
    BY <1>1 DEF PlacesInv
  <2>4. \A g, h \in Harts : g # h /\ hand'[g] # NoPid => hand'[g] # hand'[h]
    BY DEF PlacesInv
  <2>5. \A g, h \in Harts : Made(g)' # NoPid => Made(g)' # hand'[h]
    BY DEF PlacesInv
  <2>6. \A g, h \in Harts : g # h /\ Made(g)' # NoPid => Made(g)' # Made(h)'
    BY DEF PlacesInv
  <2> QED
    BY <2>1, <2>2, <2>3, <2>4, <2>5, <2>6 DEF PlacesInv
<1>4. NewestInv'
  BY <1>1, HartFacts DEF NewestInv
<1>5. QueuesInOrder'
  BY DEF QueuesInOrder
<1> QED
  BY <1>3, <1>4, <1>5

(* A step that makes no task runnable and takes no runnable task away. *)
LEMMA ReadyStays ==
  ASSUME ReadyInv, UNCHANGED queues,
         \A p \in Pids : state'[p] = "Ready" =>
                           state[p] = "Ready" /\ (p \in registry => p \in registry'),
         \A h \in Harts : Made(h)' = Made(h),
         \A h \in Harts : pc[h] = "register" =>
                            \/ pc'[h] = "register" /\ loc'[h].pid = loc[h].pid
                            \/ loc[h].pid \in registry',
         \A h \in Harts : \/ hand'[h] \notin Pids
                          \/ hand'[h] = hand[h] /\ state'[hand[h]] # "Ready"
                          \/ hand'[h] = hand[h] /\ pc'[h] = pc[h]
                          \/ hand'[h] = hand[h] /\ pc'[h] \in {"mark", "markState"},
         \A h \in Harts : hand'[h] = hand[h] \/ state'[hand[h]] # "Ready"
  PROVE  ReadyInv'
<1> SUFFICES ASSUME NEW p \in Pids, state'[p] = "Ready"
             PROVE  /\ \E h \in Harts : p \in Queued(h)' \/ hand'[h] = p \/ Made(h)' = p
                    /\ \A h \in Harts : hand'[h] = p => pc'[h] \in {"mark", "markState"}
                    /\ \/ p \in registry'
                       \/ \E h \in Harts : pc'[h] = "register" /\ loc'[h].pid = p
  BY DEF ReadyInv
<1>1. state[p] = "Ready"
  OBVIOUS
<1>2. \E h \in Harts : p \in Queued(h)' \/ hand'[h] = p \/ Made(h)' = p
  BY <1>1 DEF ReadyInv, Queued
<1>3. \A h \in Harts : hand'[h] = p => pc'[h] \in {"mark", "markState"}
  BY <1>1 DEF ReadyInv
<1>4. p \in registry' \/ \E h \in Harts : pc'[h] = "register" /\ loc'[h].pid = p
  BY <1>1 DEF ReadyInv
<1> QED
  BY <1>2, <1>3, <1>4

-----------------------------------------------------------------------------
(* next_pid.fetch_add and Task::new, by hart 0 or by a hart that respawns. *)
LEMMA NewTaskInv ==
  ASSUME SchedInv, NEW h \in Harts, NEW c \in Attributes, NewTask(h, c),
         IF h = 0 THEN pc[h] = "prompt" ELSE pc[h] = "respawn"
  PROVE  SchedInv'
<1>1. /\ nextPid \in Pids /\ nextPid' = nextPid + 1
      /\ tcb' = [tcb EXCEPT ![nextPid] = c]
      /\ state' = [state EXCEPT ![nextPid] = "Ready"]
      /\ loc' = [loc EXCEPT ![h].pid = nextPid]
      /\ pc' = [pc EXCEPT ![h] = "register"]
      /\ UNCHANGED <<registry, tasksLock, queues, hand>>
  BY DEF NewTask, Goto
<1>2. /\ pc' \in [Harts -> Labels] /\ pc'[h] = "register"
      /\ \A g \in Harts : g # h => pc'[g] = pc[g]
  <2>1. "register" \in Labels
    BY DEF Labels
  <2> QED
    BY <1>1, <2>1 DEF SchedInv, SchedType
<1>3. /\ loc' \in [Harts -> Locals] /\ loc'[h].pid = nextPid /\ loc'[h].i = loc[h].i
      /\ \A g \in Harts : g # h => loc'[g] = loc[g]
  <2>1. loc[h] \in Locals /\ nextPid \in 0 .. MaxPid
    BY <1>1, PidFacts DEF SchedInv, SchedType
  <2>2. [loc[h] EXCEPT !.pid = nextPid] \in Locals
    BY <2>1 DEF Locals
  <2>3. loc' = [loc EXCEPT ![h] = [loc[h] EXCEPT !.pid = nextPid]]
    BY <1>1
  <2>4. loc'[h] = [loc[h] EXCEPT !.pid = nextPid]
    BY <2>3 DEF SchedInv, SchedType
  <2>5. loc'[h].pid = nextPid /\ loc'[h].i = loc[h].i
    BY <2>1, <2>4 DEF Locals
  <2> QED
    BY <2>2, <2>3, <2>5 DEF SchedInv, SchedType
<1>4. /\ Made(h) = NoPid /\ Made(h)' = nextPid
      /\ \A g \in Harts : g # h => Made(g)' = Made(g)
  BY <1>2, <1>3 DEF Made
<1>5. \A g \in Harts : Queued(g)' = Queued(g)
  BY <1>1 DEF Queued
<1>6. \A g \in Harts : \A p \in Queued(g) \cup {hand[g], Made(g)} : p < nextPid /\ p # nextPid
  <2>1. \A g \in Harts : Queued(g) \subseteq Pids /\ hand[g] \in 0 .. MaxPid
                         /\ Made(g) \in 0 .. MaxPid
    BY MadeIsPid DEF SchedInv, SchedType, Queued, Range
  <2> QED
    BY <1>1, <2>1, PidFacts DEF SchedInv, PlacesInv
<1>7. SchedType'
  <2>1. nextPid' \in 1 .. MaxPid + 1
    BY <1>1, MaxPidAssumption DEF Pids
  <2>2. tcb' \in [Pids -> Attributes] /\ state' \in [Pids -> {"None", "Ready", "Running", "Zombie"}]
    BY <1>1 DEF SchedInv, SchedType
  <2> QED
    BY <1>1, <1>2, <1>3, <2>1, <2>2 DEF SchedInv, SchedType
<1>8. HartsInv'
  <2>1. h \in Secondary => /\ tasksLock = h /\ hand[h] # NoPid /\ loc[h].i = 0
    BY HartFacts DEF SchedInv, HartsInv
  <2>2. h = 0 => loc[0].i = 0
    BY DEF SchedInv, HartsInv
  <2>3. /\ pc'[0] \in {"prompt", "register", "scan", "enqueue", "ipi", "kill", "cputest"}
        /\ hand'[0] = NoPid
        /\ pc'[0] \in {"prompt", "register", "kill", "cputest"} => loc'[0].i = 0
        /\ pc'[0] = "kill" => loc'[0].pid \in Pids
    BY <1>1, <1>2, <1>3, <2>2, HartFacts DEF SchedInv, HartsInv
  <2>4. ASSUME NEW g \in Secondary
        PROVE /\ pc'[g] \in {"wfi", "check", "own", "steal", "mark", "markState", "run",
                             "respawn", "register"}
              /\ pc'[g] \in {"respawn", "register"} <=> tasksLock' = g
              /\ pc'[g] # "steal" => loc'[g].i = 0
              /\ hand'[g] = NoPid <=> pc'[g] \in {"wfi", "check", "own", "steal"}
    BY <1>1, <1>2, <1>3, <2>1, HartFacts DEF SchedInv, HartsInv
  <2>5. ASSUME NEW g \in Harts
        PROVE /\ pc'[g] \in {"scan", "steal"} => loc'[g].i \in Harts
              /\ pc'[g] \in {"register", "scan", "enqueue"} => loc'[g].pid \in Pids
    BY <1>1, <1>2, <1>3 DEF SchedInv, HartsInv
  <2> QED
    BY <2>3, <2>4, <2>5 DEF HartsInv
<1>9. PlacesInv'
  <2>1. \A g \in Harts : \A p \in (Queued(g) \cup {hand[g], Made(g)})' : p < nextPid'
    <3>1. nextPid \in Int /\ nextPid < nextPid'
      BY <1>1, PidFacts
    <3>2. \A g \in Harts : \A p \in Queued(g) \cup {hand[g], Made(g)} : p \in Int
      BY MadeIsPid, PidFacts, MaxPidAssumption DEF SchedInv, SchedType, Queued, Range
    <3> QED
      BY <1>1, <1>4, <1>5, <1>6, <3>1, <3>2
  <2>2. \A f, g \in Harts : f # g => Queued(f)' \cap Queued(g)' = {}
    BY <1>5 DEF SchedInv, PlacesInv
  <2>3. \A f, g \in Harts : hand'[f] \notin Queued(g)' /\ Made(f)' \notin Queued(g)'
    BY <1>1, <1>4, <1>5, <1>6 DEF SchedInv, PlacesInv
  <2>4. \A f, g \in Harts : f # g /\ hand'[f] # NoPid => hand'[f] # hand'[g]
    BY <1>1 DEF SchedInv, PlacesInv
  <2>5. \A f, g \in Harts : Made(f)' # NoPid => Made(f)' # hand'[g]
    BY <1>1, <1>4, <1>6 DEF SchedInv, PlacesInv
  <2>6. \A f, g \in Harts : f # g /\ Made(f)' # NoPid => Made(f)' # Made(g)'
    BY <1>1, <1>4, <1>6 DEF SchedInv, PlacesInv
  <2> QED
    BY <2>1, <2>2, <2>3, <2>4, <2>5, <2>6 DEF PlacesInv
<1>10. ReadyInv'
  <2> SUFFICES ASSUME NEW p \in Pids, state'[p] = "Ready"
               PROVE  /\ \E g \in Harts : p \in Queued(g)' \/ hand'[g] = p \/ Made(g)' = p
                      /\ \A g \in Harts : hand'[g] = p => pc'[g] \in {"mark", "markState"}
                      /\ \/ p \in registry'
                         \/ \E g \in Harts : pc'[g] = "register" /\ loc'[g].pid = p
    BY DEF ReadyInv
  <2>1. CASE p = nextPid
    <3>1. \A g \in Harts : hand'[g] # p
      BY <1>1, <1>6, <2>1
    <3> QED
      BY <1>2, <1>3, <1>4, <2>1, <3>1
  <2>2. CASE p # nextPid
    <3>1. state[p] = "Ready"
      BY <1>1, <2>2 DEF SchedInv, SchedType
    <3>2. \A g \in Harts : hand'[g] = p => pc'[g] \in {"mark", "markState"}
      BY <1>1, <1>2, <3>1 DEF SchedInv, ReadyInv
    <3>3. \E g \in Harts : p \in Queued(g)' \/ hand'[g] = p \/ Made(g)' = p
      BY <1>1, <1>4, <1>5, <3>1, PidFacts DEF SchedInv, ReadyInv
    <3>4. \/ p \in registry'
          \/ \E g \in Harts : pc'[g] = "register" /\ loc'[g].pid = p
      BY <1>1, <1>2, <1>3, <3>1 DEF SchedInv, ReadyInv
    <3> QED
      BY <3>2, <3>3, <3>4
  <2> QED
    BY <2>1, <2>2
<1>11. NewestInv'
  BY <1>4, <1>5, <1>6, HartFacts DEF SchedInv, NewestInv
<1>12. QueuesInOrder'
  <2>1. \A g \in Harts : \A i \in DOMAIN queues[g] : tcb'[queues[g][i]] = tcb[queues[g][i]]
    <3> SUFFICES ASSUME NEW g \in Harts, NEW i \in DOMAIN queues[g]
                 PROVE  tcb'[queues[g][i]] = tcb[queues[g][i]]
      OBVIOUS
    <3>1. queues[g][i] # nextPid /\ queues[g][i] \in Pids
      <4>1. queues[g] \in Seq(Pids) /\ queues[g][i] \in Queued(g)
        BY DEF Queued, Range, SchedInv, SchedType
      <4> QED
        BY <1>6, <4>1
    <3> QED
      BY <1>1, <3>1 DEF SchedInv, SchedType
  <2> QED
    BY <1>1, <2>1 DEF SchedInv, QueuesInOrder
<1> QED
  BY <1>7, <1>8, <1>9, <1>10, <1>11, <1>12 DEF SchedInv

(* A step of hart 0 to the label l with locals r. *)
ShellLabels == {"prompt", "register", "scan", "enqueue", "ipi", "kill", "cputest"}

ShellMove(l, r) ==
  /\ l \in ShellLabels /\ r \in Locals
  /\ pc' = [pc EXCEPT ![0] = l] /\ loc' = [loc EXCEPT ![0] = r] /\ hand' = hand
  /\ tasksLock' = tasksLock \/ (tasksLock \notin Secondary /\ tasksLock' \notin Secondary)
  /\ l \in {"prompt", "register", "kill", "cputest"} => r.i = 0
  /\ l \in {"kill", "register", "scan", "enqueue"} => r.pid \in Pids
  /\ l = "scan" => r.i \in Harts

LEMMA ShellMoves ==
  ASSUME SchedType, HartsInv, NEW l, NEW r, ShellMove(l, r)
  PROVE  /\ HartsInv' /\ pc' \in [Harts -> Labels] /\ loc' \in [Harts -> Locals]
         /\ pc'[0] = l /\ loc'[0] = r
         /\ \A h \in Secondary : pc'[h] = pc[h] /\ loc'[h] = loc[h] /\ Made(h)' = Made(h)
<1> USE DEF ShellMove
<1>1. l \in Labels
  BY DEF ShellLabels, Labels
<1>2. /\ pc' \in [Harts -> Labels] /\ loc' \in [Harts -> Locals]
      /\ pc'[0] = l /\ loc'[0] = r
  BY <1>1, HartFacts DEF SchedType
<1>3. \A h \in Secondary : pc'[h] = pc[h] /\ loc'[h] = loc[h]
  BY HartFacts DEF SchedType
<1>4. \A h \in Secondary : Made(h)' = Made(h)
  BY <1>3 DEF Made
<1>5. HartsInv'
  <2>1. /\ pc'[0] \in {"prompt", "register", "scan", "enqueue", "ipi", "kill", "cputest"}
        /\ hand'[0] = NoPid
        /\ pc'[0] \in {"prompt", "register", "kill", "cputest"} => loc'[0].i = 0
        /\ pc'[0] = "kill" => loc'[0].pid \in Pids
    BY <1>2 DEF HartsInv, ShellLabels
  <2>2. ASSUME NEW g \in Secondary
        PROVE /\ pc'[g] \in {"wfi", "check", "own", "steal", "mark", "markState", "run",
                             "respawn", "register"}
              /\ pc'[g] \in {"respawn", "register"} <=> tasksLock' = g
              /\ pc'[g] # "steal" => loc'[g].i = 0
              /\ hand'[g] = NoPid <=> pc'[g] \in {"wfi", "check", "own", "steal"}
    BY <1>3 DEF HartsInv
  <2>3. ASSUME NEW g \in Harts
        PROVE /\ pc'[g] \in {"scan", "steal"} => loc'[g].i \in Harts
              /\ pc'[g] \in {"register", "scan", "enqueue"} => loc'[g].pid \in Pids
    BY <1>2, <1>3, HartFacts DEF HartsInv, ShellLabels
  <2> QED
    BY <2>1, <2>2, <2>3 DEF HartsInv
<1> QED
  BY <1>2, <1>3, <1>4, <1>5

(* A step of hart 0 that changes neither the tasks nor the queues. *)
ShellKeeps(l, r) ==
  /\ ShellMove(l, r)
  /\ UNCHANGED <<queues, nextPid, tcb>>
  /\ Made(0) = IF l \in {"register", "scan", "enqueue"} THEN r.pid ELSE NoPid
  /\ pc[0] = "register" => l = "register" \/ loc[0].pid \in registry'
  /\ state' \in [Pids -> {"None", "Ready", "Running", "Zombie"}]
  /\ \A p \in Pids : state'[p] = "Ready" =>
                       state[p] = "Ready" /\ (p \in registry => p \in registry')

LEMMA ShellQuiet ==
  ASSUME SchedInv, NEW l, NEW r, ShellKeeps(l, r)
  PROVE  SchedInv'
<1> USE DEF ShellKeeps
<1>0. hand' = hand
  BY DEF ShellMove
<1>1. /\ HartsInv' /\ pc' \in [Harts -> Labels] /\ loc' \in [Harts -> Locals]
      /\ pc'[0] = l /\ loc'[0] = r
      /\ \A h \in Secondary : pc'[h] = pc[h] /\ loc'[h] = loc[h] /\ Made(h)' = Made(h)
  BY ShellMoves DEF SchedInv
<1>2. \A h \in Harts : Made(h)' = Made(h)
  <2>1. Made(0)' = Made(0)
    BY <1>1 DEF Made
  <2> QED
    BY <1>1, <2>1, HartFacts
<1>3. SchedType'
  BY <1>0, <1>1 DEF SchedInv, SchedType
<1>4. PlacesInv' /\ NewestInv' /\ QueuesInOrder'
  BY <1>0, <1>2, SamePlaces DEF SchedInv
<1>5. ReadyInv'
  <2>1. \A h \in Harts : pc[h] = "register" =>
                           \/ pc'[h] = "register" /\ loc'[h].pid = loc[h].pid
                           \/ loc[h].pid \in registry'
    <3>1. ASSUME pc[0] = "register", l = "register" PROVE loc'[0].pid = loc[0].pid
      BY <1>1, <3>1 DEF Made
    <3> QED
      BY <1>1, <3>1, HartFacts
  <2>2. \A h \in Harts : \/ hand'[h] \notin Pids
                         \/ hand'[h] = hand[h] /\ pc'[h] = pc[h]
    BY <1>0, <1>1, HartFacts, PidFacts DEF SchedInv, HartsInv
  <2> QED
    BY <1>0, <1>2, <2>1, <2>2, ReadyStays DEF SchedInv
<1> QED
  BY <1>1, <1>3, <1>4, <1>5 DEF SchedInv

-----------------------------------------------------------------------------
(* register, find_least_loaded_hart and the IPI: hart 0 only. *)
LEMMA RegisterInv ==
  ASSUME SchedInv, NEW h \in Harts, Register(h)
  PROVE  SchedInv'
<1>1. h = 0
  BY HartFacts DEF Register, At, SchedInv, HartsInv
<1>2. /\ pc[0] = "register" /\ registry' = registry \cup {loc[0].pid}
      /\ UNCHANGED <<nextPid, tcb, state, tasksLock, queues, hand>>
  BY <1>1 DEF Register, At
<1>3. loc[0] \in Locals /\ loc[0].pid \in Pids /\ loc[0].i = 0
  BY <1>2, HartFacts DEF SchedInv, SchedType, HartsInv
<1>4. CASE tcb[loc[0].pid].affinity = NoHart
  <2>1. pc' = [pc EXCEPT ![0] = "scan"]
    BY <1>1, <1>4 DEF Register, Goto
  <2>2. loc' = [loc EXCEPT ![0] = loc[0]]
    BY <1>1, <1>4 DEF Register, SchedInv, SchedType
  <2>3. Made(0) = loc[0].pid
    BY <1>2 DEF Made
  <2>4. "scan" \in ShellLabels
    BY DEF ShellLabels
  <2>5. state' \in [Pids -> {"None", "Ready", "Running", "Zombie"}]
    BY <1>2 DEF SchedInv, SchedType
  <2> QED
    <3>1. ShellMove("scan", loc[0])
      <4>1. loc[0].i \in Harts
        BY <1>3, HartFacts
      <4> QED
        BY <1>2, <1>3, <2>1, <2>2, <2>4, <4>1 DEF ShellMove
    <3>2. ShellKeeps("scan", loc[0])
      BY <1>2, <1>3, <2>3, <2>5, <3>1 DEF ShellKeeps
    <3> QED
      BY <3>2, ShellQuiet
<1>5. CASE tcb[loc[0].pid].affinity # NoHart
  <2> DEFINE r == [loc[0] EXCEPT !.target = tcb[loc[0].pid].affinity]
  <2>1. pc' = [pc EXCEPT ![0] = "enqueue"] /\ loc' = [loc EXCEPT ![0] = r]
    BY <1>1, <1>5 DEF Register, Goto
  <2>2. r \in Locals /\ r.pid = loc[0].pid
    <3>1. tcb[loc[0].pid].affinity \in Harts
      BY <1>3, <1>5 DEF SchedInv, SchedType, Attributes
    <3> QED
      BY <1>3, <3>1 DEF Locals
  <2> HIDE DEF r
  <2>3. Made(0) = r.pid
    BY <1>2, <2>2 DEF Made
  <2>4. "enqueue" \in ShellLabels
    BY DEF ShellLabels
  <2>5. state' \in [Pids -> {"None", "Ready", "Running", "Zombie"}]
    BY <1>2 DEF SchedInv, SchedType
  <2> QED
    <3>1. ShellKeeps("enqueue", r)
      BY <1>2, <1>3, <2>1, <2>2, <2>3, <2>4, <2>5 DEF ShellKeeps, ShellMove
    <3> QED
      BY <3>1, ShellQuiet
<1> QED
  BY <1>4, <1>5

(* One iteration of find_least_loaded_hart. *)
LEMMA ScanInv ==
  ASSUME SchedInv, NEW h \in Harts, Scan(h)
  PROVE  SchedInv'
<1>1. h = 0
  BY HartFacts DEF Scan, At, SchedInv, HartsInv
<1>2. /\ pc[0] = "scan"
      /\ UNCHANGED <<nextPid, tcb, state, tasksLock, registry, queues, hand>>
  BY <1>1 DEF Scan, At, taskVars
<1>3. loc[0] \in Locals /\ loc[0].pid \in Pids /\ loc[0].i \in Harts
  BY <1>2, HartFacts DEF SchedInv, SchedType, HartsInv
<1> DEFINE load == Len(queues[loc[0].i])
           less == load < loc[0].min
           r == [pid |-> loc[0].pid, i |-> loc[0].i + 1,
                 min |-> IF less THEN load ELSE loc[0].min,
                 target |-> IF less THEN loc[0].i ELSE loc[0].target]
           l == IF loc[0].i = NumHarts - 1 THEN "enqueue" ELSE "scan"
<1>4. pc' = [pc EXCEPT ![0] = l] /\ loc' = [loc EXCEPT ![0] = r]
  BY <1>1 DEF Scan, Goto
<1>5. loc[0].min \in Int /\ loc[0].target \in Harts /\ loc[0].pid \in 0 .. MaxPid
  BY <1>3 DEF Locals
<1>6. r \in Locals /\ r.pid = loc[0].pid /\ r.i = loc[0].i + 1
  <2>1. load \in Int
    BY <1>3 DEF SchedInv, SchedType
  <2>2. loc[0].i + 1 \in 0 .. NumHarts
    BY <1>3, NumHartsAssumption DEF Harts
  <2> HIDE DEF load
  <2> QED
    BY <1>3, <1>5, <2>1, <2>2 DEF Locals
<1>7. l = "scan" => r.i \in Harts
  BY <1>3, <1>6, NumHartsAssumption DEF Harts
<1>8. l \in {"scan", "enqueue"} /\ l \in ShellLabels
  BY Zenon DEF ShellLabels
<1> HIDE DEF l, r
<1>9. Made(0) = r.pid
  BY <1>2, <1>6 DEF Made
<1>10. state' \in [Pids -> {"None", "Ready", "Running", "Zombie"}]
  BY <1>2 DEF SchedInv, SchedType
<1> QED
  <2>1. ShellKeeps(l, r)
    BY <1>2, <1>3, <1>4, <1>6, <1>7, <1>8, <1>9, <1>10 DEF ShellKeeps, ShellMove
  <2> QED
    BY <2>1, ShellQuiet

(* send_ipi, kill, reap_zombies and cputest. *)
LEMMA ShellInv ==
  ASSUME SchedInv,
         \/ SendIpi(0) \/ (\E p \in Pids : KillBegin(p)) \/ KillEnd
         \/ ReapZombies \/ StartBenchmark \/ ClearBenchmark
  PROVE  SchedInv'
<1>1. /\ loc[0] \in Locals /\ loc[0].pid \in 0 .. MaxPid
      /\ state \in [Pids -> {"None", "Ready", "Running", "Zombie"}]
      /\ loc = [loc EXCEPT ![0] = loc[0]] /\ pc = [pc EXCEPT ![0] = pc[0]]
      /\ tasksLock = 0 => tasksLock \notin Secondary
      /\ NoHart \notin Secondary
  BY HartFacts DEF SchedInv, SchedType, Locals
<1>2. \A l \in {"prompt", "kill", "cputest"} : l \in ShellLabels
  BY DEF ShellLabels
<1>3. CASE SendIpi(0)
  <2>1. /\ pc[0] = "ipi" /\ pc' = [pc EXCEPT ![0] = "prompt"]
        /\ loc' = [loc EXCEPT ![0] = NoLocals]
        /\ tasksLock' = IF tasksLock = 0 THEN NoHart ELSE tasksLock
        /\ UNCHANGED <<nextPid, tcb, state, registry, queues, hand>>
    BY <1>3 DEF SendIpi, At, Return, Goto
  <2>2. Made(0) = NoPid
    BY <2>1 DEF Made
  <2> QED
    <3>1. ShellKeeps("prompt", NoLocals)
      BY <1>1, <1>2, <2>1, <2>2, NoLocalsType DEF ShellKeeps, ShellMove
    <3> QED
      BY <3>1, ShellQuiet
<1>4. CASE \E p \in Pids : KillBegin(p)
  <2>1. PICK p \in Pids : KillBegin(p)
    BY <1>4
  <2> DEFINE r == [loc[0] EXCEPT !.pid = p]
  <2>2. /\ pc[0] = "prompt" /\ pc' = [pc EXCEPT ![0] = "kill"]
        /\ loc' = [loc EXCEPT ![0] = r]
        /\ tasksLock = NoHart /\ tasksLock' = 0
        /\ UNCHANGED <<nextPid, tcb, state, registry, queues, hand>>
    BY <2>1 DEF KillBegin, At, Goto
  <2>3. r \in Locals /\ r.pid = p /\ r.i = 0
    <3>1. loc[0].i = 0 /\ p \in 0 .. MaxPid
      BY <2>2, PidFacts DEF SchedInv, HartsInv
    <3> QED
      BY <1>1, <3>1 DEF Locals
  <2> HIDE DEF r
  <2>4. Made(0) = NoPid
    BY <2>2 DEF Made
  <2> QED
    <3>1. ShellKeeps("kill", r)
      BY <1>1, <1>2, <2>2, <2>3, <2>4, HartFacts DEF ShellKeeps, ShellMove
    <3> QED
      BY <3>1, ShellQuiet
<1>5. CASE KillEnd
  <2>1. /\ pc[0] = "kill" /\ pc' = [pc EXCEPT ![0] = "prompt"]
        /\ loc' = [loc EXCEPT ![0] = NoLocals]
        /\ tasksLock' = IF tasksLock = 0 THEN NoHart ELSE tasksLock
        /\ state' = [state EXCEPT ![loc[0].pid] = "Zombie"]
        /\ \A p \in registry : p # loc[0].pid => p \in registry'
        /\ UNCHANGED <<nextPid, tcb, queues, hand>>
    BY <1>5 DEF KillEnd, At, Return, Goto
  <2>2. Made(0) = NoPid
    BY <2>1 DEF Made
  <2>3. /\ state' \in [Pids -> {"None", "Ready", "Running", "Zombie"}]
        /\ \A p \in Pids : state'[p] = "Ready" => state[p] = "Ready" /\ p # loc[0].pid
    BY <1>1, <2>1 DEF SchedInv, HartsInv
  <2> QED
    <3>1. ShellKeeps("prompt", NoLocals)
      BY <1>1, <1>2, <2>1, <2>2, <2>3, NoLocalsType DEF ShellKeeps, ShellMove
    <3> QED
      BY <3>1, ShellQuiet
<1>6. CASE ReapZombies
  <2>1. /\ pc[0] = "prompt" /\ pc' = [pc EXCEPT ![0] = "prompt"]
        /\ loc' = [loc EXCEPT ![0] = loc[0]]
        /\ \A p \in registry : state[p] = "Ready" => p \in registry'
        /\ UNCHANGED <<nextPid, tcb, state, tasksLock, queues, hand>>
    BY <1>1, <1>6 DEF ReapZombies, At
  <2>2. Made(0) = NoPid /\ loc[0].i = 0
    BY <2>1 DEF Made, SchedInv, HartsInv
  <2> QED
    <3>1. ShellKeeps("prompt", loc[0])
      BY <1>1, <1>2, <2>1, <2>2 DEF ShellKeeps, ShellMove
    <3> QED
      BY <3>1, ShellQuiet
<1>7. CASE StartBenchmark \/ ClearBenchmark
  <2>1. PICK l \in {"prompt", "cputest"} :
          /\ pc[0] \in {"prompt", "cputest"} /\ pc' = [pc EXCEPT ![0] = l]
          /\ loc' = [loc EXCEPT ![0] = loc[0]]
          /\ UNCHANGED <<nextPid, tcb, state, registry, tasksLock, queues, hand>>
    BY <1>1, <1>7 DEF StartBenchmark, ClearBenchmark, At, Goto, taskVars
  <2>2. Made(0) = NoPid /\ loc[0].i = 0
    BY <2>1 DEF Made, SchedInv, HartsInv
  <2> QED
    <3>1. ShellKeeps(l, loc[0])
      BY <1>1, <1>2, <2>1, <2>2 DEF ShellKeeps, ShellMove
    <3> QED
      BY <3>1, ShellQuiet
<1> QED
  BY <1>3, <1>4, <1>5, <1>6, <1>7

(* queues[target].lock().enqueue(task): the task hart 0 made is queued. *)
LEMMA EnqueueTaskInv ==
  ASSUME SchedInv, NEW h \in Harts, EnqueueTask(h)
  PROVE  SchedInv'
<1>1. h = 0
  BY HartFacts DEF EnqueueTask, At, SchedInv, HartsInv
<1>0. PICK p, t : p = loc[0].pid /\ t = loc[0].target
  BY Zenon
<1>2. /\ pc[0] = "enqueue"
      /\ queues' = [queues EXCEPT ![t] = Enqueue(queues[t], p)]
      /\ UNCHANGED <<nextPid, tcb, state, registry, hand>>
  BY <1>0, <1>1 DEF EnqueueTask, At
<1>3. loc[0] \in Locals /\ p \in Pids /\ t \in Harts /\ Made(0) = p
  BY <1>0, <1>2, HartFacts, Zenon DEF SchedInv, SchedType, HartsInv, Locals, Made
<1>4. PICK l \in {"ipi", "prompt"}, r \in Locals : ShellMove(l, r)
  <2>1. "ipi" \in ShellLabels /\ "prompt" \in ShellLabels
    BY DEF ShellLabels
  <2>2. CASE pc' = [pc EXCEPT ![0] = "ipi"] /\ UNCHANGED <<loc, tasksLock>>
    <3>1. loc' = [loc EXCEPT ![0] = loc[0]]
      BY <2>2 DEF SchedInv, SchedType
    <3>2. hand' = hand /\ tasksLock' = tasksLock /\ pc' = [pc EXCEPT ![0] = "ipi"]
      BY <1>2, <2>2
    <3>3. ShellMove("ipi", loc[0])
      BY <1>3, <2>1, <3>1, <3>2 DEF ShellMove
    <3> QED
      BY <1>3, <3>3
  <2>3. CASE Return(0)
    <3>1. /\ pc' = [pc EXCEPT ![0] = "prompt"] /\ loc' = [loc EXCEPT ![0] = NoLocals]
          /\ tasksLock' = IF tasksLock = 0 THEN NoHart ELSE tasksLock
      BY <2>3 DEF Return, Goto
    <3>2. ShellMove("prompt", NoLocals)
      BY <1>2, <2>1, <3>1, NoLocalsType, HartFacts DEF ShellMove
    <3> QED
      BY <3>2, NoLocalsType
  <2> QED
    BY <1>1, <2>2, <2>3 DEF EnqueueTask, Goto
<1>5. /\ HartsInv' /\ pc' \in [Harts -> Labels] /\ loc' \in [Harts -> Locals]
      /\ pc'[0] = l /\ loc'[0] = r
      /\ \A g \in Secondary : pc'[g] = pc[g] /\ loc'[g] = loc[g] /\ Made(g)' = Made(g)
  BY <1>4, ShellMoves DEF SchedInv
<1>6. Made(0)' = NoPid
  BY <1>4, <1>5 DEF Made
<1>7. \A g \in Harts : queues[g] \in Seq(Pids) /\ Ordered(queues[g])
  BY InOrderIs DEF SchedInv, SchedType
<1>8. \A x \in Range(queues[t]) : x < p
  BY <1>3, PidFacts DEF SchedInv, NewestInv, Queued
<1>9. /\ Enqueue(queues[t], p) \in Seq(Pids) /\ Ordered(Enqueue(queues[t], p))
      /\ Range(Enqueue(queues[t], p)) = Range(queues[t]) \cup {p}
  <2>1. queues[t] \in Seq(Pids) /\ Ordered(queues[t]) /\ tcb \in [Pids -> Attributes]
    BY <1>3, <1>7 DEF SchedInv, SchedType
  <2> QED
    BY <1>3, <1>8, <2>1, EnqueueOrdered
<1>10. /\ queues' \in [Harts -> Seq(Pids)]
       /\ queues'[t] = Enqueue(queues[t], p)
       /\ \A g \in Harts : g # t => queues'[g] = queues[g]
  BY <1>2, <1>3, <1>9 DEF SchedInv, SchedType
<1>11. /\ Queued(t)' = Queued(t) \cup {p}
       /\ \A g \in Harts : g # t => Queued(g)' = Queued(g)
  BY <1>3, <1>9, <1>10 DEF Queued
<1>12. SchedType'
  BY <1>2, <1>5, <1>10 DEF SchedInv, SchedType
<1>13. PlacesInv'
  <2>1. \A g \in Harts : Made(g)' = NoPid \/ (g # 0 /\ Made(g)' = Made(g))
    BY <1>5, <1>6, HartFacts
  <2>2. p # NoPid /\ NoPid < nextPid /\ p < nextPid
    BY <1>3, PidFacts, MaxPidAssumption, HartFacts DEF SchedInv, SchedType, PlacesInv, NoPid
  <2>3. \A g \in Harts : NoPid \notin Queued(g)
    BY <1>7, PidFacts DEF Queued, Range
  <2>4. \A g \in Harts : \A x \in (Queued(g) \cup {hand[g], Made(g)})' : x < nextPid'
    BY <1>2, <1>3, <1>11, <2>1, <2>2 DEF SchedInv, PlacesInv
  <2>5. \A f, g \in Harts : f # g => Queued(f)' \cap Queued(g)' = {}
    BY <1>3, <1>11, HartFacts DEF SchedInv, PlacesInv
  <2>6. \A f, g \in Harts : hand'[f] \notin Queued(g)' /\ Made(f)' \notin Queued(g)'
    <3>1. \A f \in Harts : hand[f] # p
      BY <1>3, <2>2, HartFacts DEF SchedInv, PlacesInv
    <3>2. \A f \in Harts : Made(f)' # p
      BY <1>3, <2>1, <2>2, HartFacts DEF SchedInv, PlacesInv
    <3>3. \A f, g \in Harts : Made(f)' \notin Queued(g)
      BY <2>1, <2>3 DEF SchedInv, PlacesInv
    <3> QED
      BY <1>2, <1>3, <1>11, <3>1, <3>2, <3>3 DEF SchedInv, PlacesInv
  <2>7. \A f, g \in Harts : f # g /\ hand'[f] # NoPid => hand'[f] # hand'[g]
    BY <1>2 DEF SchedInv, PlacesInv
  <2>8. \A f, g \in Harts : Made(f)' # NoPid => Made(f)' # hand'[g]
    BY <1>2, <2>1 DEF SchedInv, PlacesInv
  <2>9. \A f, g \in Harts : f # g /\ Made(f)' # NoPid => Made(f)' # Made(g)'
    BY <2>1 DEF SchedInv, PlacesInv
  <2> QED
    BY <2>4, <2>5, <2>6, <2>7, <2>8, <2>9 DEF PlacesInv
<1>14. ReadyInv'
  <2> SUFFICES ASSUME NEW x \in Pids, state'[x] = "Ready"
               PROVE  /\ \E g \in Harts : x \in Queued(g)' \/ hand'[g] = x \/ Made(g)' = x
                      /\ \A g \in Harts : hand'[g] = x => pc'[g] \in {"mark", "markState"}
                      /\ \/ x \in registry'
                         \/ \E g \in Harts : pc'[g] = "register" /\ loc'[g].pid = x
    BY DEF ReadyInv
  <2>1. state[x] = "Ready"
    BY <1>2
  <2>2. \E g \in Harts : x \in Queued(g)' \/ hand'[g] = x \/ Made(g)' = x
    <3>1. PICK g \in Harts : x \in Queued(g) \/ hand[g] = x \/ Made(g) = x
      BY <2>1 DEF SchedInv, ReadyInv
    <3>2. CASE x \in Queued(g)
      BY <1>11, <3>2
    <3>3. CASE hand[g] = x
      BY <1>2, <3>3
    <3>4. CASE Made(g) = x /\ g = 0
      BY <1>3, <1>11, <3>4
    <3>5. CASE Made(g) = x /\ g # 0
      BY <1>5, <3>5, HartFacts, Zenon
    <3> QED
      BY <3>1, <3>2, <3>3, <3>4, <3>5
  <2>3. \A g \in Harts : hand'[g] = x => pc'[g] \in {"mark", "markState"}
    BY <1>2, <1>5, <2>1, HartFacts, PidFacts DEF SchedInv, ReadyInv, HartsInv
  <2>4. x \in registry' \/ \E g \in Harts : pc'[g] = "register" /\ loc'[g].pid = x
    BY <1>2, <1>5, <2>1, HartFacts DEF SchedInv, ReadyInv
  <2> QED
    BY <2>2, <2>3, <2>4
<1>15. NewestInv'
  BY <1>6, Zenon DEF NewestInv
<1>16. QueuesInOrder'
  <2>1. \A g \in Harts : Ordered(queues'[g])
    BY <1>7, <1>9, <1>10, Zenon
  <2> QED
    BY <1>2, <2>1 DEF QueuesInOrder, Ordered, Before
<1> QED
  BY <1>5, <1>12, <1>13, <1>14, <1>15, <1>16 DEF SchedInv
=============================================================================
