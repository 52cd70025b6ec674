-------------------------- MODULE SchedulerProofs --------------------------
(***************************************************************************)
(* The idle loop of the secondary harts, and what follows for the whole    *)
(* scheduler: no task is in two places, none that is runnable is lost, and *)
(* every queue is sorted.                                                  *)
(***************************************************************************)
EXTENDS SpawnProofs

-----------------------------------------------------------------------------
(* A step of the idle loop of hart h, to the label l with locals r and the *)
(* task x in hand.                                                         *)
IdleLabels == {"wfi", "check", "own", "steal", "mark", "markState", "run", "respawn"}

IdleMove(h, l, r, x) ==
  /\ pc[h] # "register" /\ l \in IdleLabels /\ r \in Locals /\ x \in 0 .. MaxPid
  /\ pc' = [pc EXCEPT ![h] = l] /\ loc' = [loc EXCEPT ![h] = r]
  /\ hand' = [hand EXCEPT ![h] = x]
  /\ l = "respawn" <=> tasksLock' = h
  /\ \A g \in Secondary : g # h => (tasksLock' = g <=> tasksLock = g)
  /\ IF l = "steal" THEN r.i \in Harts ELSE r.i = 0
  /\ x = NoPid <=> l \in {"wfi", "check", "own", "steal"}

(* Such a step keeps every hart at what its label promises. *)
LEMMA IdleMoves ==
  ASSUME SchedType, HartsInv, NEW h \in Secondary, NEW l, NEW r, NEW x,
         IdleMove(h, l, r, x)
  PROVE  /\ HartsInv' /\ pc' \in [Harts -> Labels] /\ loc' \in [Harts -> Locals]
         /\ hand' \in [Harts -> 0 .. MaxPid]
         /\ pc'[h] = l /\ hand'[h] = x
         /\ \A g \in Harts : g # h => pc'[g] = pc[g] /\ loc'[g] = loc[g] /\ hand'[g] = hand[g]
         /\ \A g \in Harts : Made(g)' = Made(g)
<1> USE DEF IdleMove
<1>1. l \in Labels /\ l \notin {"register", "scan", "enqueue"} /\ h \in Harts /\ h # 0
  BY HartFacts DEF IdleLabels, Labels
<1>2. /\ pc' \in [Harts -> Labels] /\ loc' \in [Harts -> Locals]
      /\ hand' \in [Harts -> 0 .. MaxPid]
      /\ pc'[h] = l /\ loc'[h] = r /\ hand'[h] = x
  BY <1>1 DEF SchedType
<1>3. \A g \in Harts : g # h => pc'[g] = pc[g] /\ loc'[g] = loc[g] /\ hand'[g] = hand[g]
  BY DEF SchedType
<1>4. \A g \in Harts : Made(g)' = Made(g)
  <2>1. Made(h)' = NoPid /\ Made(h) = NoPid
    BY <1>1, <1>2 DEF Made, HartsInv
  <2>2. \A g \in Harts : g # h => Made(g)' = Made(g)
    BY <1>3 DEF Made
  <2> QED
    BY <2>1, <2>2
<1>5. HartsInv'
  <2>1. /\ pc'[0] \in {"prompt", "register", "scan", "enqueue", "ipi", "kill", "cputest"}
        /\ hand'[0] = NoPid
        /\ pc'[0] \in {"prompt", "register", "kill", "cputest"} => loc'[0].i = 0
        /\ pc'[0] = "kill" => loc'[0].pid \in Pids
    BY <1>1, <1>3, HartFacts DEF HartsInv
  <2>2. ASSUME NEW g \in Secondary
        PROVE /\ pc'[g] \in {"wfi", "check", "own", "steal", "mark", "markState", "run",
                             "respawn", "register"}
              /\ pc'[g] \in {"respawn", "register"} <=> tasksLock' = g
              /\ pc'[g] # "steal" => loc'[g].i = 0
              /\ hand'[g] = NoPid <=> pc'[g] \in {"wfi", "check", "own", "steal"}
    <3>1. CASE g = h
      BY <1>1, <1>2, <3>1 DEF IdleLabels
    <3>2. CASE g # h
      BY <1>3, <3>2, HartFacts DEF HartsInv
    <3> QED
      BY <3>1, <3>2
  <2>3. ASSUME NEW g \in Harts
        PROVE /\ pc'[g] \in {"scan", "steal"} => loc'[g].i \in Harts
              /\ pc'[g] \in {"register", "scan", "enqueue"} => loc'[g].pid \in Pids
    BY <1>1, <1>2, <1>3 DEF HartsInv
  <2> QED
    BY <2>1, <2>2, <2>3 DEF HartsInv
<1> QED
  BY <1>2, <1>3, <1>4, <1>5

(* A step of the idle loop that takes no task from a queue. *)
IdleKeeps(h, l, r, x) ==
  /\ IdleMove(h, l, r, x)
  /\ UNCHANGED <<queues, nextPid, tcb, registry>>
  /\ state' \in [Pids -> {"None", "Ready", "Running", "Zombie"}]
  /\ \A p \in Pids : state'[p] = "Ready" => state[p] = "Ready"
  /\ \/ x = NoPid /\ (hand[h] = NoPid \/ state'[hand[h]] # "Ready")
     \/ x = hand[h] /\ (l \in {"mark", "markState"} \/ state'[hand[h]] # "Ready")

LEMMA IdleQuiet ==
  ASSUME SchedInv, NEW h \in Secondary, NEW l, NEW r, NEW x, IdleKeeps(h, l, r, x)
  PROVE  SchedInv'
<1> USE DEF IdleKeeps
<1>1. /\ HartsInv' /\ pc' \in [Harts -> Labels] /\ loc' \in [Harts -> Locals]
      /\ hand' \in [Harts -> 0 .. MaxPid]
      /\ pc'[h] = l /\ hand'[h] = x
      /\ \A g \in Harts : g # h => pc'[g] = pc[g] /\ loc'[g] = loc[g] /\ hand'[g] = hand[g]
      /\ \A g \in Harts : Made(g)' = Made(g)
  BY IdleMoves DEF SchedInv
<1>2. SchedType'
  BY <1>1 DEF SchedInv, SchedType
<1>3. PlacesInv' /\ NewestInv' /\ QueuesInOrder'
  <2>1. \A g \in Harts : hand'[g] = hand[g] \/ hand'[g] = NoPid
    BY <1>1
  <2> QED
    BY <1>1, <2>1, SamePlaces DEF SchedInv
<1>4. ReadyInv'
  <2> SUFFICES ASSUME NEW p \in Pids, state'[p] = "Ready"
               PROVE  /\ \E g \in Harts : p \in Queued(g)' \/ hand'[g] = p \/ Made(g)' = p
                      /\ \A g \in Harts : hand'[g] = p => pc'[g] \in {"mark", "markState"}
                      /\ \/ p \in registry'
                         \/ \E g \in Harts : pc'[g] = "register" /\ loc'[g].pid = p
    BY DEF ReadyInv
  <2>1. state[p] = "Ready" /\ p # NoPid
    BY PidFacts
  <2>2. \A g \in Harts : hand[g] = p => hand'[g] = p
    BY <1>1, <2>1
  <2>3. \E g \in Harts : p \in Queued(g)' \/ hand'[g] = p \/ Made(g)' = p
    BY <1>1, <2>1, <2>2 DEF SchedInv, ReadyInv, Queued
  <2>4. \A g \in Harts : hand'[g] = p => pc'[g] \in {"mark", "markState"}
    BY <1>1, <2>1 DEF SchedInv, ReadyInv
  <2>5. p \in registry' \/ \E g \in Harts : pc'[g] = "register" /\ loc'[g].pid = p
    <3>1. \A g \in Harts : pc[g] = "register" => g # h
      BY DEF IdleMove
    <3> QED
      BY <1>1, <2>1, <3>1 DEF SchedInv, ReadyInv
  <2> QED
    BY <2>3, <2>4, <2>5
<1> QED
  BY <1>1, <1>2, <1>3, <1>4 DEF SchedInv

(* A step of the idle loop that takes the task x from queue v, of which q  *)
(* is left.                                                                *)
IdleTakes(h, r, x, v, q) ==
  /\ IdleMove(h, "mark", r, x)
  /\ hand[h] = NoPid /\ v \in Harts /\ x \in Range(queues[v])
  /\ queues' = [queues EXCEPT ![v] = q]
  /\ q \in Seq(Pids) /\ Range(q) = Range(queues[v]) \ {x} /\ Ordered(q)
  /\ UNCHANGED <<nextPid, tcb, state, registry>>

LEMMA IdleMovesTask ==
  ASSUME SchedInv, NEW h \in Secondary, NEW r, NEW x, NEW v, NEW q,
         IdleTakes(h, r, x, v, q)
  PROVE  SchedInv'
<1>0. /\ IdleMove(h, "mark", r, x) /\ v \in Harts /\ x \in Range(queues[v])
      /\ UNCHANGED <<nextPid, tcb, state, registry>> /\ hand[h] = NoPid
  BY DEF IdleTakes
<1>1. /\ HartsInv' /\ pc' \in [Harts -> Labels] /\ loc' \in [Harts -> Locals]
      /\ hand' \in [Harts -> 0 .. MaxPid]
      /\ pc'[h] = "mark" /\ hand'[h] = x
      /\ \A g \in Harts : g # h => pc'[g] = pc[g] /\ loc'[g] = loc[g] /\ hand'[g] = hand[g]
      /\ \A g \in Harts : Made(g)' = Made(g)
  BY <1>0, IdleMoves DEF SchedInv
<1>2. /\ queues' \in [Harts -> Seq(Pids)] /\ queues'[v] = q
      /\ \A g \in Harts : g # v => queues'[g] = queues[g]
  BY DEF IdleTakes, SchedInv, SchedType
<1>3. /\ Queued(v)' = Queued(v) \ {x} /\ x \in Queued(v)
      /\ \A g \in Harts : g # v => Queued(g)' = Queued(g)
  BY <1>2 DEF IdleTakes, Queued
<1>4. h \in Harts /\ x \in Pids /\ x # NoPid
  <2>1. queues[v] \in Seq(Pids)
    BY <1>0 DEF SchedInv, SchedType
  <2> QED
    BY <1>0, <2>1, HartFacts, PidFacts DEF Range
<1>5. SchedType'
  BY <1>0, <1>1, <1>2 DEF SchedInv, SchedType
<1>6. PlacesInv'
  <2>1. \A g \in Harts : x \notin Queued(g)' /\ hand[g] # x /\ Made(g) # x
    <3>2. \A g \in Harts : hand[g] # x /\ Made(g) # x
      BY <1>0, <1>3 DEF SchedInv, PlacesInv
    <3>3. \A g \in Harts : g # v => x \notin Queued(g)
      BY <1>0, <1>3 DEF SchedInv, PlacesInv
    <3> QED
      BY <1>3, <3>2, <3>3
  <2>2. \A g \in Harts : Queued(g)' \subseteq Queued(g)
    BY <1>3
  <2>3. \A g \in Harts : \A p \in (Queued(g) \cup {hand[g], Made(g)})' : p < nextPid'
    <3>1. x < nextPid
      BY <1>0, <1>3 DEF SchedInv, PlacesInv
    <3>2. \A g \in Harts : \A p \in Queued(g) \cup {hand[g], Made(g)} : p < nextPid
      BY DEF SchedInv, PlacesInv
    <3> QED
      BY <1>0, <1>1, <2>2, <3>1, <3>2
  <2>4. \A f, g \in Harts : f # g => Queued(f)' \cap Queued(g)' = {}
    BY <2>2 DEF SchedInv, PlacesInv
  <2>5. \A f, g \in Harts : hand'[f] \notin Queued(g)' /\ Made(f)' \notin Queued(g)'
    <3>1. \A f \in Harts : hand'[f] = x \/ hand'[f] = hand[f]
      BY <1>1
    <3>2. \A f, g \in Harts : hand[f] \notin Queued(g)' /\ Made(f) \notin Queued(g)'
      BY <2>2 DEF SchedInv, PlacesInv
    <3> QED
      BY <1>1, <2>1, <3>1, <3>2
  <2>6. \A f, g \in Harts : f # g /\ hand'[f] # NoPid => hand'[f] # hand'[g]
    BY <1>1, <2>1 DEF SchedInv, PlacesInv
  <2>7. \A f, g \in Harts : Made(f)' # NoPid => Made(f)' # hand'[g]
    BY <1>1, <2>1 DEF SchedInv, PlacesInv
  <2>8. \A f, g \in Harts : f # g /\ Made(f)' # NoPid => Made(f)' # Made(g)'
    BY <1>1 DEF SchedInv, PlacesInv
  <2> QED
    BY <2>3, <2>4, <2>5, <2>6, <2>7, <2>8 DEF PlacesInv
<1>7. ReadyInv'
  <2> SUFFICES ASSUME NEW p \in Pids, state'[p] = "Ready"
               PROVE  /\ \E g \in Harts : p \in Queued(g)' \/ hand'[g] = p \/ Made(g)' = p
                      /\ \A g \in Harts : hand'[g] = p => pc'[g] \in {"mark", "markState"}
                      /\ \/ p \in registry'
                         \/ \E g \in Harts : pc'[g] = "register" /\ loc'[g].pid = p
    BY DEF ReadyInv
  <2>1. state[p] = "Ready" /\ p # NoPid
    BY <1>0, PidFacts
  <2>2. \E g \in Harts : p \in Queued(g)' \/ hand'[g] = p \/ Made(g)' = p
    <3>1. PICK g \in Harts : p \in Queued(g) \/ hand[g] = p \/ Made(g) = p
      BY <2>1 DEF SchedInv, ReadyInv
    <3>2. CASE p = x
      BY <1>1, <1>4, <3>2
    <3>3. CASE p # x
      BY <1>0, <1>1, <1>3, <2>1, <3>1, <3>3
    <3> QED
      BY <3>2, <3>3
  <2>3. \A g \in Harts : hand'[g] = p => pc'[g] \in {"mark", "markState"}
    BY <1>1, <2>1 DEF SchedInv, ReadyInv
  <2>4. p \in registry' \/ \E g \in Harts : pc'[g] = "register" /\ loc'[g].pid = p
    <3>2. pc[h] # "register"
      BY <1>0 DEF IdleMove
    <3> QED
      BY <1>0, <1>1, <2>1, <3>2 DEF SchedInv, ReadyInv
  <2> QED
    BY <2>2, <2>3, <2>4
<1>8. NewestInv'
  <2>1. \A g \in Harts : Queued(g)' \subseteq Queued(g)
    BY <1>3
  <2> QED
    BY <1>1, <2>1, HartFacts DEF SchedInv, NewestInv
<1>9. QueuesInOrder'
  <2>1. \A g \in Harts : Ordered(queues'[g])
    BY <1>2, InOrderIs DEF IdleTakes, SchedInv
  <2> QED
    BY <1>0, <2>1 DEF QueuesInOrder, Ordered, Before
<1> QED
  BY <1>1, <1>5, <1>6, <1>7, <1>8, <1>9 DEF SchedInv

(* What a secondary hart finds. *)
LEMMA IdleFacts ==
  ASSUME SchedInv, NEW h \in Secondary
  PROVE  /\ h \in Harts /\ loc[h] \in Locals /\ hand[h] \in 0 .. MaxPid
         /\ queues[h] \in Seq(Pids) /\ Ordered(queues[h]) /\ tcb \in [Pids -> Attributes]
         /\ state \in [Pids -> {"None", "Ready", "Running", "Zombie"}]
         /\ loc = [loc EXCEPT ![h] = loc[h]] /\ hand = [hand EXCEPT ![h] = hand[h]]
         /\ pc[h] \in {"respawn", "register"} <=> tasksLock = h
         /\ pc[h] # "steal" => loc[h].i = 0
         /\ pc[h] = "steal" => loc[h].i \in Harts
         /\ hand[h] = NoPid <=> pc[h] \in {"wfi", "check", "own", "steal"}
<1>1. h \in Harts
  BY HartFacts
<1>2. Ordered(queues[h])
  BY <1>1, InOrderIs DEF SchedInv
<1> QED
  BY <1>1, <1>2 DEF SchedInv, SchedType, HartsInv

(* The idle loop outside pick_next: wfi, the benchmark test, mark_running  *)
(* and finish_task.                                                        *)
LEMMA IdleStepInv ==
  ASSUME SchedInv, NEW h \in Secondary,
         Wake(h) \/ CheckBenchmark(h) \/ MarkHart(h) \/ MarkState(h) \/ FinishTask(h)
  PROVE  SchedInv'
<1>1. /\ h \in Harts /\ loc[h] \in Locals /\ hand[h] \in 0 .. MaxPid
      /\ state \in [Pids -> {"None", "Ready", "Running", "Zombie"}]
      /\ loc = [loc EXCEPT ![h] = loc[h]] /\ hand = [hand EXCEPT ![h] = hand[h]]
      /\ pc[h] \in {"respawn", "register"} <=> tasksLock = h
      /\ pc[h] # "steal" => loc[h].i = 0
      /\ hand[h] = NoPid <=> pc[h] \in {"wfi", "check", "own", "steal"}
  BY IdleFacts
<1>2. \A l \in {"wfi", "check", "own", "markState", "run", "respawn"} : l \in IdleLabels
  BY DEF IdleLabels
<1>3. CASE Wake(h) \/ CheckBenchmark(h)
  <2>1. PICK l \in {"wfi", "check", "own"} :
          /\ pc[h] \in {"wfi", "check"} /\ pc' = [pc EXCEPT ![h] = l]
          /\ UNCHANGED <<nextPid, tcb, state, registry, tasksLock, queues, loc, hand>>
    BY <1>3 DEF Wake, CheckBenchmark, At, Goto, taskVars
  <2>2. /\ loc' = [loc EXCEPT ![h] = loc[h]] /\ hand' = [hand EXCEPT ![h] = NoPid]
        /\ pc' = [pc EXCEPT ![h] = l] /\ tasksLock' = tasksLock
        /\ pc[h] # "register" /\ loc[h].i = 0
    BY <1>1, <2>1
  <2>3. NoPid \in 0 .. MaxPid /\ tasksLock' # h /\ hand[h] = NoPid
    BY <1>1, <2>1
  <2> QED
    <3>1. IdleMove(h, l, loc[h], NoPid)
      BY <1>1, <1>2, <2>2, <2>3 DEF IdleMove
    <3>2. IdleKeeps(h, l, loc[h], NoPid)
      BY <1>1, <2>1, <2>3, <3>1 DEF IdleKeeps
    <3> QED
      BY <3>2, IdleQuiet
<1>4. CASE MarkHart(h) \/ MarkState(h)
  <2>1. PICK l \in {"markState", "run"} :
          /\ pc[h] \in {"mark", "markState"} /\ pc' = [pc EXCEPT ![h] = l]
          /\ \/ l = "markState" /\ state' = state
             \/ l = "run" /\ state' = [state EXCEPT ![hand[h]] = "Running"]
          /\ UNCHANGED <<nextPid, tcb, registry, tasksLock, queues, loc, hand>>
    BY <1>4 DEF MarkHart, MarkState, At, Goto
  <2>2. loc' = [loc EXCEPT ![h] = loc[h]] /\ hand' = [hand EXCEPT ![h] = hand[h]]
    BY <1>1, <2>1
  <2>3. tasksLock' # h /\ hand[h] # NoPid /\ hand[h] \in Pids
    BY <1>1, <2>1, PidFacts
  <2>4. /\ state' \in [Pids -> {"None", "Ready", "Running", "Zombie"}]
        /\ \A p \in Pids : state'[p] = "Ready" => state[p] = "Ready"
        /\ l = "run" => state'[hand[h]] # "Ready"
    BY <1>1, <2>1, <2>3
  <2> QED
    <3>1. IdleMove(h, l, loc[h], hand[h])
      BY <1>1, <1>2, <2>1, <2>2, <2>3 DEF IdleMove
    <3>2. IdleKeeps(h, l, loc[h], hand[h])
      BY <2>1, <2>4, <3>1 DEF IdleKeeps
    <3> QED
      BY <3>2, IdleQuiet
<1>5. CASE FinishTask(h)
  <2>1. /\ pc[h] = "run" /\ tasksLock = NoHart
        /\ \/ state' = state
           \/ state' = [state EXCEPT ![hand[h]] = "Zombie"]
        /\ \/ /\ pc' = [pc EXCEPT ![h] = "respawn"] /\ tasksLock' = h /\ hand' = hand
           \/ /\ pc' = [pc EXCEPT ![h] = "wfi"] /\ tasksLock' = NoHart
              /\ hand' = [hand EXCEPT ![h] = NoPid]
        /\ UNCHANGED <<nextPid, tcb, registry, queues, loc>>
    <3>1. /\ pc[h] = "run" /\ tasksLock = NoHart
          /\ state' = state \/ state' = [state EXCEPT ![hand[h]] = "Zombie"]
          /\ UNCHANGED <<nextPid, tcb, registry, queues, loc>>
      BY <1>5 DEF FinishTask, At
    <3>2. CASE hand[h] \in registry /\ tcb[hand[h]].daemon
      <4>1. pc' = [pc EXCEPT ![h] = "respawn"] /\ tasksLock' = h /\ hand' = hand
        BY <1>5, <3>2 DEF FinishTask, Goto
      <4> QED
        BY <3>1, <4>1
    <3>3. CASE ~(hand[h] \in registry /\ tcb[hand[h]].daemon)
      <4>1. /\ pc' = [pc EXCEPT ![h] = "wfi"] /\ tasksLock' = NoHart
            /\ hand' = [hand EXCEPT ![h] = NoPid]
        <5>1. CASE hand[h] \notin registry
          BY <1>5, <5>1 DEF FinishTask, Goto
        <5>2. CASE hand[h] \in registry
          <6>1. ~tcb[hand[h]].daemon
            BY <3>3, <5>2
          <6> QED
            BY <1>5, <6>1 DEF FinishTask, Goto
        <5> QED
          BY <5>1, <5>2
      <4> QED
        BY <3>1, <4>1
    <3> QED
      BY <3>2, <3>3
  <2>2. loc' = [loc EXCEPT ![h] = loc[h]] /\ loc[h].i = 0 /\ pc[h] # "register"
    BY <1>1, <2>1
  <2>3. hand[h] # NoPid /\ hand[h] \in Pids
    BY <1>1, <2>1, PidFacts
  <2>4. state[hand[h]] # "Ready"
    BY <1>1, <2>1, <2>3 DEF SchedInv, ReadyInv
  <2>5. /\ state' \in [Pids -> {"None", "Ready", "Running", "Zombie"}]
        /\ \A p \in Pids : state'[p] = "Ready" => state[p] = "Ready"
        /\ state'[hand[h]] # "Ready"
    <3>1. CASE state' = state
      BY <1>1, <2>4, <3>1
    <3>2. CASE state' = [state EXCEPT ![hand[h]] = "Zombie"]
      BY <1>1, <2>3, <3>2
    <3> QED
      BY <2>1, <3>1, <3>2
  <2>6. CASE /\ pc' = [pc EXCEPT ![h] = "respawn"] /\ tasksLock' = h /\ hand' = hand
    <3>1. \A g \in Secondary : g # h => (tasksLock' = g <=> tasksLock = g)
      BY <2>1, <2>6, HartFacts
    <3>2. hand' = [hand EXCEPT ![h] = hand[h]]
      BY <1>1, <2>6
    <3>3. IdleMove(h, "respawn", loc[h], hand[h])
      BY <1>1, <1>2, <2>2, <2>3, <2>6, <3>1, <3>2 DEF IdleMove
    <3>4. IdleKeeps(h, "respawn", loc[h], hand[h])
      BY <2>1, <2>5, <3>3 DEF IdleKeeps
    <3> QED
      BY <3>4, IdleQuiet
  <2>7. CASE /\ pc' = [pc EXCEPT ![h] = "wfi"] /\ tasksLock' = NoHart
             /\ hand' = [hand EXCEPT ![h] = NoPid]
    <3>1. /\ tasksLock' # h /\ NoPid \in 0 .. MaxPid
          /\ \A g \in Secondary : g # h => (tasksLock' = g <=> tasksLock = g)
      BY <1>1, <2>1, <2>7, HartFacts, MaxPidAssumption DEF NoPid
    <3>2. IdleMove(h, "wfi", loc[h], NoPid)
      BY <1>1, <1>2, <2>2, <2>7, <3>1 DEF IdleMove
    <3>3. IdleKeeps(h, "wfi", loc[h], NoPid)
      BY <2>1, <2>5, <3>2 DEF IdleKeeps
    <3> QED
      BY <3>3, IdleQuiet
  <2> QED
    BY <2>1, <2>6, <2>7
<1> QED
  BY <1>3, <1>4, <1>5

(* pick_next: the first runnable task of the hart's own queue. *)
LEMMA PickOwnInv ==
  ASSUME SchedInv, NEW h \in Secondary, PickOwn(h)
  PROVE  SchedInv'
<1>1. /\ h \in Harts /\ loc[h] \in Locals /\ hand[h] \in 0 .. MaxPid
      /\ queues[h] \in Seq(Pids) /\ Ordered(queues[h]) /\ tcb \in [Pids -> Attributes]
      /\ state \in [Pids -> {"None", "Ready", "Running", "Zombie"}]
      /\ loc = [loc EXCEPT ![h] = loc[h]] /\ hand = [hand EXCEPT ![h] = hand[h]]
      /\ pc[h] \in {"respawn", "register"} <=> tasksLock = h
      /\ pc[h] # "steal" => loc[h].i = 0
      /\ hand[h] = NoPid <=> pc[h] \in {"wfi", "check", "own", "steal"}
  BY IdleFacts
<1>2. /\ pc[h] = "own" /\ UNCHANGED <<nextPid, tcb, state, registry, tasksLock, loc>>
  BY DEF PickOwn, At
<1>3. /\ loc' = [loc EXCEPT ![h] = loc[h]] /\ loc[h].i = 0 /\ hand[h] = NoPid
      /\ tasksLock' = tasksLock /\ tasksLock' # h
      /\ "mark" \in IdleLabels /\ "steal" \in IdleLabels
  BY <1>1, <1>2 DEF IdleLabels
<1>4. PICK i : i = FirstRunnable(queues[h])
  OBVIOUS
<1>5. i = 0 \/ i \in 1 .. Len(queues[h])
  BY <1>1, <1>4, FirstRunnableIs
<1>6. CASE i = 0
  <2>1. pc' = [pc EXCEPT ![h] = "steal"] /\ hand' = hand /\ queues' = queues
    BY <1>4, <1>6 DEF PickOwn, Goto
  <2>2. hand' = [hand EXCEPT ![h] = hand[h]] /\ loc[h].i \in Harts
    BY <1>1, <1>3, <2>1, HartFacts
  <2>3. IdleMove(h, "steal", loc[h], hand[h])
    BY <1>1, <1>2, <1>3, <2>1, <2>2 DEF IdleMove
  <2>4. IdleKeeps(h, "steal", loc[h], hand[h])
    BY <1>1, <1>2, <1>3, <2>1, <2>3 DEF IdleKeeps
  <2> QED
    BY <2>4, IdleQuiet
<1>7. CASE i # 0
  <2>1. /\ pc' = [pc EXCEPT ![h] = "mark"] /\ hand' = [hand EXCEPT ![h] = queues[h][i]]
        /\ queues' = [queues EXCEPT ![h] = VecRemove(queues[h], i)]
    BY <1>4, <1>7 DEF PickOwn, Goto
  <2>2. i \in 1 .. Len(queues[h])
    BY <1>5, <1>7
  <2>3. PICK x : x = queues[h][i]
    OBVIOUS
  <2>4. /\ VecRemove(queues[h], i) \in Seq(Pids) /\ Ordered(VecRemove(queues[h], i))
        /\ Range(VecRemove(queues[h], i)) = Range(queues[h]) \ {x}
    BY <1>1, <2>2, <2>3, RemoveOrdered
  <2>5. x \in Range(queues[h]) /\ x \in 0 .. MaxPid /\ x # NoPid
    BY <1>1, <2>2, <2>3, PidFacts DEF Range
  <2>6. IdleMove(h, "mark", loc[h], x)
    BY <1>1, <1>2, <1>3, <2>1, <2>3, <2>5 DEF IdleMove
  <2>7. IdleTakes(h, loc[h], x, h, VecRemove(queues[h], i))
    BY <1>1, <1>2, <1>3, <2>1, <2>4, <2>5, <2>6 DEF IdleTakes
  <2> QED
    BY <2>7, IdleMovesTask
<1> QED
  BY <1>6, <1>7

(* pick_next: one iteration of the stealing loop. *)
LEMMA StealFromInv ==
  ASSUME SchedInv, NEW h \in Secondary, StealFrom(h)
  PROVE  SchedInv'
<1>1. /\ h \in Harts /\ loc[h] \in Locals /\ hand[h] \in 0 .. MaxPid
      /\ tcb \in [Pids -> Attributes]
      /\ state \in [Pids -> {"None", "Ready", "Running", "Zombie"}]
      /\ hand = [hand EXCEPT ![h] = hand[h]]
      /\ pc[h] \in {"respawn", "register"} <=> tasksLock = h
      /\ pc[h] = "steal" => loc[h].i \in Harts
      /\ hand[h] = NoPid <=> pc[h] \in {"wfi", "check", "own", "steal"}
  BY IdleFacts
<1>2. PICK v : v = loc[h].i
  OBVIOUS
<1>3. /\ pc[h] = "steal" /\ UNCHANGED <<nextPid, tcb, state, registry, tasksLock>>
  BY DEF StealFrom, At
<1>4. /\ v \in Harts /\ hand[h] = NoPid /\ tasksLock' = tasksLock /\ tasksLock' # h
      /\ \A l \in {"mark", "wfi", "steal"} : l \in IdleLabels
  BY <1>1, <1>2, <1>3 DEF IdleLabels
<1>5. queues[v] \in Seq(Pids) /\ Ordered(queues[v])
  BY <1>4, InOrderIs DEF SchedInv, SchedType
<1>6. \A n \in 0 .. NumHarts : [loc[h] EXCEPT !.i = n] \in Locals
                               /\ [loc[h] EXCEPT !.i = n].i = n
  BY <1>1 DEF Locals
<1> DEFINE S == v # h /\ CanSteal(queues[v])
<1>7. /\ S => /\ hand' = [hand EXCEPT ![h] = queues[v][Len(queues[v])]]
              /\ queues' = [queues EXCEPT ![v] = AfterSteal(queues[v])]
      /\ ~S => hand' = hand /\ queues' = queues
  BY <1>2 DEF StealFrom
<1>8. /\ pc' = [pc EXCEPT ![h] = IF S THEN "mark"
                                 ELSE IF v = NumHarts - 1 THEN "wfi" ELSE "steal"]
      /\ loc' = [loc EXCEPT ![h].i = IF S \/ v = NumHarts - 1 THEN 0 ELSE v + 1]
  BY <1>2 DEF StealFrom, Goto
<1>9. S \in BOOLEAN /\ (S => CanSteal(queues[v]))
  OBVIOUS
<1> HIDE DEF S
<1>10. CASE S
  <2> DEFINE r == [loc[h] EXCEPT !.i = 0]
  <2>1. /\ pc' = [pc EXCEPT ![h] = "mark"] /\ hand' = [hand EXCEPT ![h] = queues[v][Len(queues[v])]]
        /\ queues' = [queues EXCEPT ![v] = AfterSteal(queues[v])]
        /\ loc' = [loc EXCEPT ![h] = r]
    BY <1>7, <1>8, <1>10
  <2>2. r \in Locals /\ r.i = 0
    BY <1>6, NumHartsAssumption
  <2> HIDE DEF r
  <2>3. PICK x : x = queues[v][Len(queues[v])]
    OBVIOUS
  <2>4. /\ AfterSteal(queues[v]) \in Seq(Pids) /\ Ordered(AfterSteal(queues[v]))
        /\ x \in Range(queues[v]) /\ Range(AfterSteal(queues[v])) = Range(queues[v]) \ {x}
    BY <1>1, <1>5, <1>9, <1>10, <2>3, StealOrdered
  <2>5. x \in 0 .. MaxPid /\ x # NoPid
    BY <1>5, <2>4, PidFacts DEF Range
  <2>6. IdleMove(h, "mark", r, x)
    BY <1>3, <1>4, <2>1, <2>2, <2>3, <2>5 DEF IdleMove
  <2>7. IdleTakes(h, r, x, v, AfterSteal(queues[v]))
    BY <1>3, <1>4, <2>1, <2>4, <2>6 DEF IdleTakes
  <2> QED
    BY <2>7, IdleMovesTask
<1>11. CASE ~S
  <2>1. hand' = hand /\ queues' = queues
    BY <1>7, <1>11
  <2>2. hand' = [hand EXCEPT ![h] = hand[h]] /\ hand[h] \in 0 .. MaxPid
    BY <1>1, <2>1
  <2>3. CASE v = NumHarts - 1
    <3> DEFINE r == [loc[h] EXCEPT !.i = 0]
    <3>1. pc' = [pc EXCEPT ![h] = "wfi"] /\ loc' = [loc EXCEPT ![h] = r]
      BY <1>8, <1>11, <2>3
    <3>2. r \in Locals /\ r.i = 0
      BY <1>6, NumHartsAssumption
    <3> HIDE DEF r
    <3>3. IdleMove(h, "wfi", r, hand[h])
      BY <1>3, <1>4, <2>2, <3>1, <3>2 DEF IdleMove
    <3>4. IdleKeeps(h, "wfi", r, hand[h])
      BY <1>1, <1>3, <1>4, <2>1, <3>3 DEF IdleKeeps
    <3> QED
      BY <3>4, IdleQuiet
  <2>4. CASE v # NumHarts - 1
    <3> DEFINE r == [loc[h] EXCEPT !.i = v + 1]
    <3>1. pc' = [pc EXCEPT ![h] = "steal"] /\ loc' = [loc EXCEPT ![h] = r]
      <4>1. pc' = [pc EXCEPT ![h] = "steal"]
        BY <1>8, <1>11, <2>4
      <4>2. ~(S \/ v = NumHarts - 1)
        BY <1>11, <2>4
      <4>3. loc' = [loc EXCEPT ![h].i = v + 1]
        BY <1>8, <4>2, Zenon
      <4> QED
        BY <4>1, <4>3
    <3>2. v + 1 \in 0 .. NumHarts /\ v + 1 \in Harts
      BY <1>4, <2>4, NumHartsAssumption DEF Harts
    <3>3. r \in Locals /\ r.i \in Harts
      BY <1>6, <3>2
    <3> HIDE DEF r
    <3>4. IdleMove(h, "steal", r, hand[h])
      BY <1>3, <1>4, <2>2, <3>1, <3>3 DEF IdleMove
    <3>5. IdleKeeps(h, "steal", r, hand[h])
      BY <1>1, <1>3, <1>4, <2>1, <3>4 DEF IdleKeeps
    <3> QED
      BY <3>5, IdleQuiet
  <2> QED
    BY <2>3, <2>4
<1> QED
  BY <1>10, <1>11

-----------------------------------------------------------------------------
(* The state SCHEDULER.init leaves. *)
LEMMA InitSchedInv ==
  ASSUME Init
  PROVE  SchedInv
<1> USE DEF Init
<1>1. \A l \in {"prompt", "wfi"} : l \in Labels
  BY DEF Labels
<1>2. \A h \in Harts : Queued(h) = {} /\ Made(h) = NoPid /\ hand[h] = NoPid
  <2>1. \A h \in Harts : pc[h] \in {"prompt", "wfi"} /\ queues[h] = <<>>
    OBVIOUS
  <2> QED
    BY <2>1 DEF Queued, Made, Range
<1>3. SchedType
  <2>1. [priority |-> 0, affinity |-> NoHart, daemon |-> FALSE] \in Attributes
    BY DEF Attributes
  <2>2. NoPid \in 0 .. MaxPid /\ nextPid \in 1 .. MaxPid + 1
    BY MaxPidAssumption DEF NoPid
  <2>3. pc \in [Harts -> Labels]
    BY <1>1
  <2>4. queues \in [Harts -> Seq(Pids)]
    OBVIOUS
  <2> QED
    BY <2>1, <2>2, <2>3, <2>4, NoLocalsType DEF SchedType
<1>4. HartsInv
  BY HartFacts, NoLocalsType DEF HartsInv
<1>5. PlacesInv
  BY <1>2 DEF PlacesInv, NoPid
<1>6. ReadyInv /\ NewestInv
  BY <1>2 DEF ReadyInv, NewestInv
<1>7. QueuesInOrder
  BY DEF QueuesInOrder
<1> QED
  BY <1>3, <1>4, <1>5, <1>6, <1>7 DEF SchedInv

(* Every step of every hart keeps the invariant. *)
LEMMA NextSchedInv ==
  ASSUME SchedInv, [Next]_vars
  PROVE  SchedInv'
<1>1. ASSUME NEW c \in Calls, Spawn(c) PROVE SchedInv'
  <2>1. c \in Attributes /\ 0 \in Harts
    BY CallsAssumption, HartFacts DEF Attributes
  <2> QED
    BY <1>1, <2>1, NewTaskInv DEF Spawn, At
<1>2. ASSUME NEW h \in Harts, Respawn(h) PROVE SchedInv'
  <2>1. pc[h] = "respawn" /\ h # 0 /\ h \in Secondary
    BY <1>2, HartFacts DEF Respawn, At, SchedInv, HartsInv
  <2>2. hand[h] \in Pids
    <3>1. hand[h] \in 0 .. MaxPid /\ hand[h] # NoPid
      BY <2>1, IdleFacts
    <3> QED
      BY <3>1, PidFacts
  <2>3. [tcb[hand[h]] EXCEPT !.daemon = FALSE] \in Attributes
    <3>1. tcb[hand[h]] \in Attributes
      BY <2>2 DEF SchedInv, SchedType
    <3> QED
      BY <3>1, Zenon DEF Attributes
  <2> QED
    BY <1>2, <2>1, <2>3, NewTaskInv DEF Respawn
<1>3. ASSUME NEW h \in Harts, SendIpi(h) PROVE SchedInv'
  <2>1. h = 0
    BY <1>3, HartFacts DEF SendIpi, At, SchedInv, HartsInv
  <2> QED
    BY <1>3, <2>1, ShellInv
<1>4. ASSUME UNCHANGED vars PROVE SchedInv'
  <2>0. /\ nextPid' = nextPid /\ tcb' = tcb /\ state' = state /\ registry' = registry
        /\ tasksLock' = tasksLock /\ queues' = queues /\ pc' = pc /\ loc' = loc
        /\ hand' = hand
    BY <1>4 DEF vars, taskVars
  <2>1. SchedType' /\ QueuesInOrder'
    BY <2>0 DEF SchedInv, SchedType, QueuesInOrder
  <2>2. HartsInv'
    BY <2>0 DEF SchedInv, HartsInv
  <2>3. \A h \in Harts : Queued(h)' = Queued(h) /\ Made(h)' = Made(h)
    BY <2>0 DEF Queued, Made
  <2>4. PlacesInv'
    BY <2>0, <2>3 DEF SchedInv, PlacesInv
  <2>5. ReadyInv'
    <3> SUFFICES ASSUME NEW p \in Pids, state'[p] = "Ready"
                 PROVE  /\ \E h \in Harts : p \in Queued(h)' \/ hand'[h] = p \/ Made(h)' = p
                        /\ \A h \in Harts : hand'[h] = p => pc'[h] \in {"mark", "markState"}
                        /\ \/ p \in registry'
                           \/ \E h \in Harts : pc'[h] = "register" /\ loc'[h].pid = p
      BY DEF ReadyInv
    <3>1. \E h \in Harts : p \in Queued(h)' \/ hand'[h] = p \/ Made(h)' = p
      BY <2>0, <2>3 DEF SchedInv, ReadyInv
    <3>2. /\ \A h \in Harts : hand'[h] = p => pc'[h] \in {"mark", "markState"}
          /\ \/ p \in registry'
             \/ \E h \in Harts : pc'[h] = "register" /\ loc'[h].pid = p
      BY <2>0 DEF SchedInv, ReadyInv
    <3> QED
      BY <3>1, <3>2
  <2>6. NewestInv'
    BY <2>3, HartFacts DEF SchedInv, NewestInv
  <2> QED
    BY <2>1, <2>2, <2>4, <2>5, <2>6 DEF SchedInv
<1>5. CASE ShellStep
  BY <1>1, <1>5, ShellInv DEF ShellStep
<1>6. ASSUME NEW h \in Harts, SpawnStep(h) PROVE SchedInv'
  BY <1>2, <1>3, <1>6, RegisterInv, ScanInv, EnqueueTaskInv DEF SpawnStep
<1>7. ASSUME NEW h \in Secondary, PickStep(h) \/ FinishTask(h) PROVE SchedInv'
  BY <1>7, IdleStepInv, PickOwnInv, StealFromInv DEF PickStep
<1> QED
  BY <1>4, <1>5, <1>6, <1>7 DEF Next

(* The scheduler never leaves the invariant. *)
THEOREM SchedulerInvariant == Spec => []SchedInv
<1>1. Init => SchedInv
  BY InitSchedInv
<1>2. SchedInv /\ [Next]_vars => SchedInv'
  BY NextSchedInv
<1> QED
  BY <1>1, <1>2, PTL DEF Spec

(* RunQueue::enqueue, dequeue and steal keep every queue sorted by         *)
(* priority, tasks of one priority in the order they were spawned.         *)
THEOREM SchedulerQueuesInOrder == Spec => []QueuesInOrder
<1>1. SchedInv => QueuesInOrder
  BY DEF SchedInv
<1> QED
  BY <1>1, SchedulerInvariant, PTL

(* The invariant says that there is one reference to a task at most.       *)
LEMMA OnePlace ==
  ASSUME SchedInv, NEW p \in Pids
  PROVE  \A x, y \in Places(p) : x = y
<1> DEFINE Q == UNION {{<<h, i>> : i \in {j \in DOMAIN queues[h] : queues[h][j] = p}} : h \in Harts}
           H == {<<h, "hand">> : h \in {g \in Harts : hand[g] = p}}
           M == {<<h, "spawn">> : h \in {g \in Harts : Spawning(g, p)}}
<1>1. \A h \in Harts : Spawning(h, p) => Made(h) = p
  BY DEF Spawning, Made
<1>2. p # NoPid
  BY PidFacts
<1>3. ASSUME NEW x \in Q
      PROVE  \E h \in Harts : \E i \in 1 .. Len(queues[h]) :
               x = <<h, i>> /\ queues[h][i] = p /\ p \in Queued(h)
  <2>1. PICK h \in Harts : x \in {<<h, i>> : i \in {j \in DOMAIN queues[h] : queues[h][j] = p}}
    OBVIOUS
  <2>2. PICK i \in DOMAIN queues[h] : x = <<h, i>> /\ queues[h][i] = p
    BY <2>1
  <2>3. queues[h] \in Seq(Pids)
    BY DEF SchedInv, SchedType
  <2> QED
    BY <2>2, <2>3 DEF Queued, Range
<1>4. ASSUME NEW x \in H PROVE \E h \in Harts : x = <<h, "hand">> /\ hand[h] = p
  OBVIOUS
<1>5. ASSUME NEW x \in M PROVE \E h \in Harts : x = <<h, "spawn">> /\ Made(h) = p
  BY <1>1
<1>6. Places(p) = Q \cup H \cup M
  BY DEF Places
<1> HIDE DEF Q, H, M
<1>7. ASSUME NEW x \in Q, NEW y \in Q PROVE x = y
  <2>1. PICK g \in Harts : \E i \in 1 .. Len(queues[g]) :
                             x = <<g, i>> /\ queues[g][i] = p /\ p \in Queued(g)
    BY <1>3
  <2>2. PICK h \in Harts : \E i \in 1 .. Len(queues[h]) :
                             y = <<h, i>> /\ queues[h][i] = p /\ p \in Queued(h)
    BY <1>3
  <2>3. g = h
    BY <2>1, <2>2 DEF SchedInv, PlacesInv
  <2>4. queues[g] \in Seq(Pids) /\ Ordered(queues[g]) /\ tcb \in [Pids -> Attributes]
    BY InOrderIs DEF SchedInv, SchedType
  <2>5. \A i, j \in 1 .. Len(queues[g]) : queues[g][i] = queues[g][j] => i = j
    BY <2>4, OrderedIsInjective
  <2> QED
    BY <2>1, <2>2, <2>3, <2>5
<1>8. ASSUME NEW x \in Q, NEW y \in H \cup M PROVE FALSE
  BY <1>3, <1>4, <1>5, <1>8 DEF SchedInv, PlacesInv
<1>9. ASSUME NEW x \in H, NEW y \in M PROVE FALSE
  BY <1>2, <1>4, <1>5, <1>9 DEF SchedInv, PlacesInv
<1>10. ASSUME NEW x \in H, NEW y \in H PROVE x = y
  BY <1>2, <1>4, <1>10 DEF SchedInv, PlacesInv
<1>11. ASSUME NEW x \in M, NEW y \in M PROVE x = y
  BY <1>2, <1>5, <1>11 DEF SchedInv, PlacesInv
<1> QED
  BY <1>6, <1>7, <1>8, <1>9, <1>10, <1>11

(* dequeue, steal and enqueue: no task is in two queues, or queued while a *)
(* hart runs it; a runnable task is never dropped between the structures,  *)
(* nor reaped from the registry.                                           *)
THEOREM SchedulerTaskInOnePlace == Spec => []TaskInOnePlace
<1>1. ASSUME SchedInv PROVE TaskInOnePlace
  <2> SUFFICES ASSUME NEW p \in Pids, state[p] = "Ready"
               PROVE  /\ Places(p) # {}
                      /\ \/ p \in registry
                         \/ \E h \in Harts : pc[h] = "register" /\ loc[h].pid = p
    BY <1>1, OnePlace DEF TaskInOnePlace
  <2>1. PICK h \in Harts : p \in Queued(h) \/ hand[h] = p \/ Made(h) = p
    BY <1>1 DEF SchedInv, ReadyInv
  <2>2. CASE p \in Queued(h)
    <3>1. PICK i \in DOMAIN queues[h] : queues[h][i] = p
      BY <2>2 DEF Queued, Range
    <3>2. <<h, i>> \in Places(p)
      BY <3>1 DEF Places
    <3> QED
      BY <1>1, <3>2 DEF SchedInv, ReadyInv
  <2>3. CASE hand[h] = p
    <3>1. <<h, "hand">> \in Places(p)
      BY <2>3 DEF Places
    <3> QED
      BY <1>1, <3>1 DEF SchedInv, ReadyInv
  <2>4. CASE Made(h) = p
    <3>1. Spawning(h, p)
      BY <2>4, PidFacts DEF Made, Spawning
    <3>2. <<h, "spawn">> \in Places(p)
      BY <3>1 DEF Places
    <3> QED
      BY <1>1, <3>2 DEF SchedInv, ReadyInv
  <2> QED
    BY <2>1, <2>2, <2>3, <2>4
<1> QED
  BY <1>1, SchedulerInvariant, PTL
=============================================================================
