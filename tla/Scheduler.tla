----------------------------- MODULE Scheduler -----------------------------
(***************************************************************************)
(* The kernel's task scheduler (kernel/src/scheduler.rs, the task control  *)
(* block of kernel/src/task.rs) and the idle loop of the secondary harts   *)
(* that runs the tasks (kernel/src/main.rs).                               *)
(*                                                                         *)
(* Hart 0 runs the shell: it spawns and kills tasks, reaps zombies and     *)
(* starts benchmarks, one call at a time, and never picks a task itself.   *)
(* Harts 1 .. NumHarts-1 sleep in wfi until their MSIP bit is set.         *)
(*                                                                         *)
(* A section that holds one spinlock from its first to its last access is  *)
(* one action (Spinlock shows the lock keeps sections apart); the stores   *)
(* that mark_running makes without a lock are actions of their own.  The   *)
(* initial state is the one SCHEDULER.init leaves, all harts online.       *)
(***************************************************************************)
EXTENDS Integers, Sequences

CONSTANTS NumHarts,   \* harts online
          MaxPid,     \* bound: PIDs 1 .. MaxPid are ever allocated
          Calls,      \* the (priority, affinity, daemon) triples spawned
          Benchmarks  \* whether hart 0 also runs cputest

Harts == 0 .. NumHarts - 1
Secondary == Harts \ {0}
Pids == 1 .. MaxPid

NoHart == -1      \* hart_affinity None, current_hart usize::MAX
NoPid == 0        \* PID 0 is reserved

ASSUME NumHartsAssumption == NumHarts \in Nat \ {0}
ASSUME MaxPidAssumption == MaxPid \in Nat
ASSUME CallsAssumption ==
  Calls \subseteq [priority : 0 .. 4, affinity : Harts \cup {NoHart},
                   daemon : BOOLEAN]
ASSUME BenchmarksAssumption == Benchmarks \in BOOLEAN

VARIABLES
  nextPid,    \* next_pid
  tcb,        \* immutable part of the Task of each PID allocated so far
  state,      \* Task.state
  curHart,    \* Task.current_hart
  registry,   \* the keys of tasks: Spinlock<BTreeMap<Pid, Arc<Task>>>
  tasksLock,  \* the hart inside a section of `tasks` longer than one action
  queues,     \* queues[h].tasks
  msip,       \* CLINT MSIP of each hart
  bench,      \* BENCHMARK.is_active()
  pc,         \* what each hart is doing
  loc,        \* locals of the spawn, kill or stealing loop a hart is in
  hand        \* the Arc<Task> pick_next returned to a secondary hart

taskVars == <<nextPid, tcb, state, curHart, registry, tasksLock, queues>>
vars == <<taskVars, msip, bench, pc, loc, hand>>

NoLocals == [pid |-> NoPid, i |-> 0, min |-> MaxPid + 1, target |-> 0]

(* Task::new and Task::new_daemon set is_daemon and restart_on_exit        *)
(* together, so one field stands for both.                                 *)
Init ==
  /\ nextPid = 1
  /\ tcb = [p \in Pids |-> [priority |-> 0, affinity |-> NoHart, daemon |-> FALSE]]
  /\ state = [p \in Pids |-> "None"]
  /\ curHart = [p \in Pids |-> NoHart]
  /\ registry = {}
  /\ tasksLock = NoHart
  /\ queues = [h \in Harts |-> <<>>]
  /\ msip = [h \in Harts |-> FALSE]
  /\ bench = FALSE
  /\ pc = [h \in Harts |-> IF h = 0 THEN "prompt" ELSE "wfi"]
  /\ loc = [h \in Harts |-> NoLocals]
  /\ hand = [h \in Harts |-> NoPid]

-----------------------------------------------------------------------------
(* RunQueue, whose tasks are a VecDeque.                                   *)

VecInsert(q, i, p) == SubSeq(q, 1, i - 1) \o <<p>> \o SubSeq(q, i, Len(q))
VecRemove(q, i) == SubSeq(q, 1, i - 1) \o SubSeq(q, i + 1, Len(q))

(* The position at which a loop over the queue breaks. *)
Least(S) == CHOOSE i \in S : \A j \in S : i <= j

(* Mutant: a new task goes before the tasks of its own priority. *)
EnqueueLifo(q, p) ==
  LET lower == {i \in DOMAIN q : tcb[q[i]].priority <= tcb[p].priority}
  IN  VecInsert(q, IF lower = {} THEN Len(q) + 1 ELSE Least(lower), p)

(* RunQueue::enqueue: before the first task of strictly lower priority. *)
Enqueue(q, p) ==
  LET lower == {i \in DOMAIN q : tcb[q[i]].priority < tcb[p].priority}
  IN  VecInsert(q, IF lower = {} THEN Len(q) + 1 ELSE Least(lower), p)

(* RunQueue::dequeue: the first runnable task, 0 when there is none. *)
FirstRunnable(q) ==
  LET ready == {i \in DOMAIN q : state[q[i]] = "Ready"}
  IN  IF ready = {} THEN 0 ELSE Least(ready)

(* Mutant: steal() reads the back of the queue but pops the front. *)
StealPopsFront(q) == Tail(q)

(* RunQueue::steal pops the last task of a queue that has more than one. *)
CanSteal(q) == Len(q) > 1
AfterSteal(q) == SubSeq(q, 1, Len(q) - 1)

-----------------------------------------------------------------------------
(* Spawning: hart 0 from the shell or init, a secondary hart from the      *)
(* respawn of finish_task, which still holds `tasks`.                      *)

Goto(h, l) == pc' = [pc EXCEPT ![h] = l]
At(h, l) == pc[h] = l

(* The end of a spawn: back to the shell, or out of finish_task.           *)
Return(h) ==
  /\ Goto(h, IF h = 0 THEN "prompt" ELSE "wfi")
  /\ loc' = [loc EXCEPT ![h] = NoLocals]
  /\ tasksLock' = IF tasksLock = h THEN NoHart ELSE tasksLock

(* next_pid.fetch_add and Task::new with the attributes c. *)
NewTask(h, c) ==
  /\ nextPid \in Pids
  /\ nextPid' = nextPid + 1
  /\ tcb' = [tcb EXCEPT ![nextPid] = c]
  /\ state' = [state EXCEPT ![nextPid] = "Ready"]
  /\ loc' = [loc EXCEPT ![h].pid = nextPid]
  /\ Goto(h, "register")
  /\ UNCHANGED <<curHart, registry, tasksLock, queues, msip, bench, hand>>

(* Hart 0 calls spawn, spawn_on_hart or (init) spawn_daemon_on_hart. *)
Spawn(c) == At(0, "prompt") /\ NewTask(0, c)

(* finish_task respawns a daemon with spawn_on_hart, so by Task::new. *)
Respawn(h) ==
  At(h, "respawn") /\ NewTask(h, [tcb[hand[h]] EXCEPT !.daemon = FALSE])

(* self.tasks.lock().insert, then hart_affinity or find_least_loaded_hart. *)
Register(h) ==
  /\ At(h, "register") /\ tasksLock = NoHart
  /\ registry' = registry \cup {loc[h].pid}
  /\ LET a == tcb[loc[h].pid].affinity
     IN  IF a = NoHart
           THEN Goto(h, "scan") /\ UNCHANGED loc
           ELSE Goto(h, "enqueue") /\ loc' = [loc EXCEPT ![h].target = a]
  /\ UNCHANGED <<nextPid, tcb, state, curHart, tasksLock, queues, msip, bench, hand>>

(* One iteration of find_least_loaded_hart, under the lock of queue i. *)
Scan(h) ==
  /\ At(h, "scan")
  /\ LET load == Len(queues[loc[h].i])
         less == load < loc[h].min
     IN  loc' = [loc EXCEPT ![h] = [pid |-> @.pid, i |-> @.i + 1,
                                    min |-> IF less THEN load ELSE @.min,
                                    target |-> IF less THEN @.i ELSE @.target]]
  /\ Goto(h, IF loc[h].i = NumHarts - 1 THEN "enqueue" ELSE "scan")
  /\ UNCHANGED <<taskVars, msip, bench, hand>>

(* queues[target].lock().enqueue(task).  spawn_on_hart then wakes a target *)
(* other than hart 0; start_service, the caller of spawn_daemon_on_hart,   *)
(* wakes the preferred hart if the service has one.                        *)
EnqueueTask(h) ==
  /\ At(h, "enqueue")
  /\ queues' = [queues EXCEPT ![loc[h].target] = Enqueue(@, loc[h].pid)]
  /\ LET c == tcb[loc[h].pid]
         wake == IF c.daemon THEN c.affinity # NoHart ELSE loc[h].target # 0
     IN  IF wake THEN Goto(h, "ipi") /\ UNCHANGED <<loc, tasksLock>> ELSE Return(h)
  /\ UNCHANGED <<nextPid, tcb, state, curHart, registry, msip, bench, hand>>

(* send_ipi(target_hart): store 1 to the MSIP register. *)
SendIpi(h) ==
  /\ At(h, "ipi")
  /\ msip' = [msip EXCEPT ![loc[h].target] = TRUE]
  /\ Return(h)
  /\ UNCHANGED <<nextPid, tcb, state, curHart, registry, queues, bench, hand>>

-----------------------------------------------------------------------------
(* The other calls of hart 0 *)

(* kill: the lookup and the first stores of mark_finished ... *)
KillBegin(p) ==
  /\ At(0, "prompt") /\ tasksLock = NoHart
  /\ p \in registry
  /\ tasksLock' = 0
  /\ curHart' = [curHart EXCEPT ![p] = NoHart]
  /\ loc' = [loc EXCEPT ![0].pid = p]
  /\ Goto(0, "kill")
  /\ UNCHANGED <<nextPid, tcb, state, registry, queues, msip, bench, hand>>

(* ... then the state, and the removal of all but restarting daemons.      *)
KillEnd ==
  /\ At(0, "kill")
  /\ LET p == loc[0].pid
     IN  /\ state' = [state EXCEPT ![p] = "Zombie"]
         /\ registry' = IF tcb[p].daemon THEN registry ELSE registry \ {p}
  /\ Return(0)
  /\ UNCHANGED <<nextPid, tcb, curHart, queues, msip, bench, hand>>

(* reap_zombies, from sysmond_tick. *)
ReapZombies ==
  /\ At(0, "prompt") /\ tasksLock = NoHart
  /\ registry' = {p \in registry : state[p] # "Zombie" \/ tcb[p].daemon}
  /\ UNCHANGED <<nextPid, tcb, state, curHart, tasksLock, queues, msip, bench, pc, loc, hand>>

(* cputest: BENCHMARK.start and one IPI per secondary hart ... *)
StartBenchmark ==
  /\ At(0, "prompt") /\ Benchmarks
  /\ bench' = TRUE
  /\ msip' = [h \in Harts |-> msip[h] \/ h # 0]
  /\ Goto(0, "cputest")
  /\ UNCHANGED <<taskVars, loc, hand>>

(* ... and BENCHMARK.clear, when all harts have reported or after 60 s.    *)
ClearBenchmark ==
  /\ At(0, "cputest")
  /\ bench' = FALSE
  /\ Goto(0, "prompt")
  /\ UNCHANGED <<taskVars, msip, loc, hand>>

-----------------------------------------------------------------------------
(* secondary_hart_idle *)

(* wfi returns with MSIP pending, and the bit is cleared. *)
Wake(h) ==
  /\ At(h, "wfi") /\ msip[h]
  /\ msip' = [msip EXCEPT ![h] = FALSE]
  /\ Goto(h, "check")
  /\ UNCHANGED <<taskVars, bench, loc, hand>>

(* Mutant: the test for an active benchmark is inverted. *)
CheckInverted(h) ==
  /\ At(h, "check")
  /\ Goto(h, IF bench THEN "own" ELSE "wfi")
  /\ UNCHANGED <<taskVars, msip, bench, loc, hand>>

(* An active benchmark is served first, and then the hart sleeps again. *)
CheckBenchmark(h) ==
  /\ At(h, "check")
  /\ Goto(h, IF bench THEN "wfi" ELSE "own")
  /\ UNCHANGED <<taskVars, msip, bench, loc, hand>>

(* pick_next: the hart's own queue. *)
PickOwn(h) ==
  /\ At(h, "own")
  /\ LET i == FirstRunnable(queues[h])
     IN  IF i # 0
           THEN /\ hand' = [hand EXCEPT ![h] = queues[h][i]]
                /\ queues' = [queues EXCEPT ![h] = VecRemove(@, i)]
                /\ Goto(h, "mark")
           ELSE Goto(h, "steal") /\ UNCHANGED <<hand, queues>>
  /\ UNCHANGED <<nextPid, tcb, state, curHart, registry, tasksLock, msip, bench, loc>>

(* pick_next: one iteration of the stealing loop, under the lock of queue  *)
(* loc[h].i; after the last one pick_next returns None.                    *)
StealFrom(h) ==
  /\ At(h, "steal")
  /\ LET v == loc[h].i
         steals == v # h /\ CanSteal(queues[v])
     IN  /\ IF steals
              THEN /\ hand' = [hand EXCEPT ![h] = queues[v][Len(queues[v])]]
                   /\ queues' = [queues EXCEPT ![v] = AfterSteal(@)]
              ELSE UNCHANGED <<hand, queues>>
         /\ Goto(h, IF steals THEN "mark"
                    ELSE IF v = NumHarts - 1 THEN "wfi" ELSE "steal")
         /\ loc' = [loc EXCEPT ![h].i = IF steals \/ v = NumHarts - 1 THEN 0 ELSE v + 1]
  /\ UNCHANGED <<nextPid, tcb, state, curHart, registry, tasksLock, msip, bench>>

(* task.mark_running, two stores without any lock. *)
MarkHart(h) ==
  /\ At(h, "mark")
  /\ curHart' = [curHart EXCEPT ![hand[h]] = h]
  /\ Goto(h, "markState")
  /\ UNCHANGED <<nextPid, tcb, state, registry, tasksLock, queues, msip, bench, loc, hand>>

MarkState(h) ==
  /\ At(h, "markState")
  /\ state' = [state EXCEPT ![hand[h]] = "Running"]
  /\ Goto(h, "run")
  /\ UNCHANGED <<nextPid, tcb, curHart, registry, tasksLock, queues, msip, bench, loc, hand>>

(* The entry point returned: finish_task.  The guard of `tasks` lives to   *)
(* the end of the `if let`, so across the respawn of a daemon.             *)
FinishTask(h) ==
  /\ At(h, "run") /\ tasksLock = NoHart
  /\ LET p == hand[h]
         restarts == p \in registry /\ tcb[p].daemon
     IN  /\ IF p \in registry
              THEN /\ state' = [state EXCEPT ![p] = "Zombie"]
                   /\ curHart' = [curHart EXCEPT ![p] = NoHart]
              ELSE UNCHANGED <<state, curHart>>
         /\ tasksLock' = IF restarts THEN h ELSE NoHart
         /\ Goto(h, IF restarts THEN "respawn" ELSE "wfi")
         /\ hand' = IF restarts THEN hand ELSE [hand EXCEPT ![h] = NoPid]
  /\ UNCHANGED <<nextPid, tcb, registry, queues, msip, bench, loc>>

-----------------------------------------------------------------------------
SpawnStep(h) == Respawn(h) \/ Register(h) \/ Scan(h) \/ EnqueueTask(h) \/ SendIpi(h)

PickStep(h) == \/ Wake(h) \/ CheckBenchmark(h) \/ PickOwn(h) \/ StealFrom(h)
               \/ MarkHart(h) \/ MarkState(h)

ShellStep == \/ \E c \in Calls : Spawn(c)
             \/ \E p \in Pids : KillBegin(p)
             \/ KillEnd \/ ReapZombies \/ StartBenchmark \/ ClearBenchmark

Next == \/ ShellStep
        \/ \E h \in Harts : SpawnStep(h)
        \/ \E h \in Secondary : PickStep(h) \/ FinishTask(h)

Spec == Init /\ [][Next]_vars

(* The emulator runs every hart, spinlocks are released, and cputest ends  *)
(* after 60 s at the latest.  A task's entry point need not return, and    *)
(* nobody need type a command.                                             *)
FairSpec == /\ Spec
            /\ \A h \in Harts : WF_vars(SpawnStep(h))
            /\ \A h \in Secondary : WF_vars(PickStep(h))
            /\ WF_vars(KillEnd)
            /\ WF_vars(ClearBenchmark)

-----------------------------------------------------------------------------

Spawning(h, p) == pc[h] \in {"register", "scan", "enqueue"} /\ loc[h].pid = p

(* Where references to the task p are that can still lead to it being run. *)
Places(p) ==
  (UNION {{<<h, i>> : i \in {j \in DOMAIN queues[h] : queues[h][j] = p}} : h \in Harts})
  \cup {<<h, "hand">> : h \in {g \in Harts : hand[g] = p}}
  \cup {<<h, "spawn">> : h \in {g \in Harts : Spawning(g, p)}}

(* dequeue, steal and enqueue: no task is in two queues, or queued while a *)
(* hart runs it, so no entry point is ever run twice; and a runnable task  *)
(* is never dropped between the structures, nor reaped from the registry   *)
(* in which ps and kill look it up, whatever harts pick, steal, kill and   *)
(* reap meanwhile.                                                         *)
TaskInOnePlace ==
  \A p \in Pids :
    /\ \A x, y \in Places(p) : x = y
    /\ state[p] = "Ready" =>
         /\ Places(p) # {}
         /\ p \in registry \/ \E h \in Harts : pc[h] = "register" /\ loc[h].pid = p

(* enqueue keeps each queue sorted by priority and, hart 0 being the only  *)
(* one that gets through an enqueue, in order of PID among equals.         *)
QueuesInOrder ==
  \A h \in Harts : \A i, j \in DOMAIN queues[h] :
    LET p == queues[h][i]
        q == queues[h][j]
    IN  i < j => \/ tcb[p].priority > tcb[q].priority
                 \/ tcb[p].priority = tcb[q].priority /\ p < q

HasRunnable(h) == FirstRunnable(queues[h]) # 0

(* secondary_hart_idle: when no benchmark intervenes, a hart that has an   *)
(* IPI pending and a runnable task in its queue takes a task (this one or  *)
(* another it was still busy with), unless someone else empties the queue. *)
IpiServesQueue ==
  \A h \in Secondary :
    (msip[h] /\ HasRunnable(h)) ~> (hand[h] # NoPid \/ bench \/ ~HasRunnable(h))

(* scheduler.rs:281 "If daemon with restart_on_exit, respawn it": a hart   *)
(* that calls spawn_on_hart from finish_task gets back to its idle loop.   *)
RespawnCompletes ==
  \A h \in Secondary : pc[h] = "register" ~> pc[h] = "wfi"

-----------------------------------------------------------------------------
(* The calls of the checked instances: a daemon of init.rs, pinned to hart *)
(* 0, and a free task of higher priority.                                  *)
DaemonCalls ==
  {[priority |-> 2, affinity |-> 0, daemon |-> TRUE],
   [priority |-> 3, affinity |-> NoHart, daemon |-> FALSE]}
=============================================================================
