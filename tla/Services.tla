------------------------------ MODULE Services ------------------------------
(***************************************************************************)
(* The services of the init system and the log file they write             *)
(* (kernel/src/init.rs): klogd and sysmond.                                *)
(*                                                                         *)
(* Hart 0 runs the shell, whose `service` command starts and stops a       *)
(* service, and calls the tick function of every service itself.  The task *)
(* that starting a service spawns waits in the queue of hart 0, which runs *)
(* no tasks; another hart runs it only by stealing it, once, and is then   *)
(* caught in finish_task with the registry's lock (Scheduler).             *)
(*                                                                         *)
(* A byte of the log is what its line says, whether a character begins     *)
(* there, and whether the line ends.  The disk has room for the log.       *)
(***************************************************************************)
EXTENDS Integers, Sequences, SequencesExt, FiniteSets

CONSTANTS
  ServiceNames, \* klogd and sysmond
  Klogd,
  Thief,        \* the secondary hart that may steal
  Period,       \* 5000 and 10000 ms
  InitialDelay, \* 2000 ms, of sysmond
  LogLimit,     \* 16384 bytes
  Banner,       \* the widths of the characters of klogd's first line
  Text,         \* of the other lines
  MaxClock,     \* bound on the time
  MaxSpawned    \* bound on the tasks spawned

ShellHart == 0
TickHarts == {ShellHart, Thief}

ASSUME ServicesAssumption == Klogd \in ServiceNames /\ Thief # ShellHart
ASSUME LogLimitAssumption == LogLimit \in Nat

VARIABLES
  time,        \* get_time_ms
  services,    \* InitState.services: status and pid of each
  spawned,     \* SCHEDULER.tasks: the service and the state of each task
  waiting,     \* the queue of hart 0
  registryHeld,\* finish_task has the registry's lock for ever
  daemon,      \* INITIALIZED, LAST_RUN and TICK of each service
  kernelLog,   \* /var/log/kernel.log
  doing        \* what each hart is at

tableVars == <<services, spawned, waiting, registryHeld>>
serviceVars == <<time, services, spawned, waiting, registryHeld, daemon, kernelLog,
                 doing>>

(* The text of a line: a byte begins a character when it is the first of   *)
(* its width.                                                              *)
Encoded(widths, what) ==
  LET char(w) == [k \in 1 .. w |-> k = 1]
      starts == FlattenSeq([i \in DOMAIN widths |-> char(widths[i])])
  IN  [i \in DOMAIN starts |->
         [start |-> starts[i], last |-> i = Len(starts), what |-> what]]

Resting == [at |-> "none", name |-> Klogd, now |-> 0, last |-> 0, tick |-> 0,
            pid |-> 0]
NoEntry == [name |-> Klogd, state |-> "none"]

(* What init_main leaves: the services started, in the order of            *)
(* start_system_services, and the file written by write_boot_log.          *)
ServicesInit ==
  \E order \in SetToSeqs(ServiceNames) :
    /\ order[1] = Klogd
    /\ time = 0
    /\ services = [s \in ServiceNames |->
                     [status |-> "Running", pid |-> SelectInSeq(order, LAMBDA x : x = s)]]
    /\ spawned = [p \in 1 .. MaxSpawned |->
                    IF p <= Len(order) THEN [name |-> order[p], state |-> "Ready"] ELSE NoEntry]
    /\ waiting = [i \in 1 .. Len(order) |-> i]
    /\ registryHeld = FALSE
    /\ daemon = [s \in ServiceNames |-> [initialized |-> FALSE, last |-> 0, tick |-> 0]]
    /\ kernelLog = Encoded(Text, [of |-> "boot", tick |-> 0])
    /\ doing = [h \in TickHarts |-> Resting]

(* A local that is not used any more is set back to what Resting has. *)
Doing(h, l) == doing[h].at = l
Becomes(h, l) == doing' = [doing EXCEPT ![h].at = l]
Unused == {p \in 1 .. MaxSpawned : spawned[p].state = "none"}

-----------------------------------------------------------------------------
(* start_service and stop_service, by the shell *)

MayStart(s) == services[s].status # "Running"

StartService(s) ==
  /\ Doing(ShellHart, "none") /\ MayStart(s) /\ Unused # {}
  /\ doing' = [doing EXCEPT ![ShellHart] = [Resting EXCEPT !.at = "spawn", !.name = s]]
  /\ UNCHANGED <<time, tableVars, daemon, kernelLog>>

(* spawn_daemon_on_hart, up to the end of its section of the registry. *)
SpawnDaemon ==
  /\ Doing(ShellHart, "spawn") /\ ~registryHeld
  /\ LET p == CHOOSE q \in Unused : \A r \in Unused : q <= r
     IN  /\ spawned' = [spawned EXCEPT ![p] = [name |-> doing[ShellHart].name, state |-> "Ready"]]
         /\ doing' = [doing EXCEPT ![ShellHart].at = "enqueue", ![ShellHart].pid = p]
  /\ UNCHANGED <<time, services, waiting, registryHeld, daemon, kernelLog>>

(* The queue takes the task; register_service. *)
RegisterService ==
  /\ Doing(ShellHart, "enqueue")
  /\ waiting' = Append(waiting, doing[ShellHart].pid)
  /\ services' = [services EXCEPT ![doing[ShellHart].name] =
                    [status |-> "Running", pid |-> doing[ShellHart].pid]]
  /\ doing' = [doing EXCEPT ![ShellHart] = Resting]
  /\ UNCHANGED <<time, spawned, registryHeld, daemon, kernelLog>>

StopService(s) ==
  /\ Doing(ShellHart, "none") /\ services[s].status = "Running"
  /\ doing' = [doing EXCEPT ![ShellHart] = [Resting EXCEPT !.at = "kill", !.name = s]]
  /\ UNCHANGED <<time, tableVars, daemon, kernelLog>>

(* Scheduler::kill of a daemon: it stays in the registry, as a zombie. *)
Killed(p) == [spawned EXCEPT ![p].state = "Zombie"]

(* kill and mark_service_stopped *)
MarkStopped ==
  /\ Doing(ShellHart, "kill") /\ ~registryHeld
  /\ LET s == doing[ShellHart].name
     IN  /\ spawned' = Killed(services[s].pid)
         /\ services' = [services EXCEPT ![s] = [status |-> "Stopped", pid |-> 0]]
  /\ doing' = [doing EXCEPT ![ShellHart] = Resting]
  /\ UNCHANGED <<time, waiting, registryHeld, daemon, kernelLog>>

-----------------------------------------------------------------------------
(* klogd_tick and sysmond_tick *)

(* run_hart0_tasks calls one tick after the other. *)
ShellTicks ==
  /\ Doing(ShellHart, "none")
  /\ doing' = [doing EXCEPT ![ShellHart] = [Resting EXCEPT !.at = "tick"]]
  /\ UNCHANGED <<time, tableVars, daemon, kernelLog>>

(* RunQueue::steal takes the last of several tasks, whatever its affinity. *)
Steals ==
  /\ Doing(Thief, "none") /\ Len(waiting) > 1
  /\ waiting' = SubSeq(waiting, 1, Len(waiting) - 1)
  /\ doing' = [doing EXCEPT ![Thief] =
       [Resting EXCEPT !.at = "run", !.name = spawned[Last(waiting)].name, !.pid = Last(waiting)]]
  /\ UNCHANGED <<time, services, spawned, registryHeld, daemon, kernelLog>>

(* mark_running, and the entry point is called. *)
MarkRunning ==
  /\ Doing(Thief, "run")
  /\ spawned' = [spawned EXCEPT ![doing[Thief].pid].state = "Running"]
  /\ Becomes(Thief, "tick")
  /\ UNCHANGED <<time, services, waiting, registryHeld, daemon, kernelLog>>

(* The tick is over: hart 0 goes on to the next service, the thief to      *)
(* finish_task.                                                            *)
Returns(h) ==
  IF h = Thief
    THEN doing' = [doing EXCEPT ![h] = [Resting EXCEPT !.at = "finish", !.pid = doing[h].pid]]
    ELSE LET rest == IF doing[h].name = Klogd THEN ServiceNames \ {Klogd} ELSE {}
         IN  doing' = [doing EXCEPT ![h] =
               IF rest = {} THEN Resting
               ELSE [Resting EXCEPT !.at = "tick", !.name = CHOOSE s \in rest : TRUE]]

(* The time and LAST_RUN are loaded, then INITIALIZED.  A store between    *)
(* the first two makes the difference negative, and the tick is not due,   *)
(* as it is not when both loads come after the store.                      *)
TickLoads(h) ==
  /\ Doing(h, "tick")
  /\ doing' = [doing EXCEPT ![h].at = "look", ![h].now = time,
                            ![h].last = daemon[doing[h].name].last,
                            ![h].tick = daemon[doing[h].name].tick]
  /\ UNCHANGED <<time, tableVars, daemon, kernelLog>>

TickLooks(h) ==
  /\ Doing(h, "look")
  /\ LET s == doing[h].name
         first == ~daemon[s].initialized
         early == IF first THEN s # Klogd /\ doing[h].now < InitialDelay
                           ELSE doing[h].now - doing[h].last < Period[s]
     IN  IF early THEN Returns(h)
         ELSE doing' = [doing EXCEPT ![h].at = IF first THEN "begin" ELSE "due", ![h].last = 0]
  /\ UNCHANGED <<time, tableVars, daemon, kernelLog>>

(* The first run: INITIALIZED is stored, then LAST_RUN. *)
TickBegins(h) ==
  /\ Doing(h, "begin")
  /\ daemon' = [daemon EXCEPT ![doing[h].name].initialized = TRUE]
  /\ Becomes(h, "began")
  /\ UNCHANGED <<time, tableVars, kernelLog>>

TickBegan(h) ==
  /\ Doing(h, "began")
  /\ daemon' = [daemon EXCEPT ![doing[h].name].last = doing[h].now]
  /\ doing' = [doing EXCEPT ![h].at = "append", ![h].now = 0, ![h].tick = 0]
  /\ UNCHANGED <<time, tableVars, kernelLog>>

(* Mutant: the tick is counted from the value loaded earlier. *)
CountsOld(h) == doing[h].tick + 1

(* TICK.fetch_add(1) + 1 *)
Counts(h) == daemon[doing[h].name].tick + 1

TickDue(h) ==
  /\ Doing(h, "due")
  /\ daemon' = [daemon EXCEPT ![doing[h].name].last = doing[h].now]
  /\ doing' = [doing EXCEPT ![h].at = "number", ![h].now = 0]
  /\ UNCHANGED <<time, tableVars, kernelLog>>

(* sysmond then asks the scheduler for its tasks. *)
TickNumbers(h) ==
  /\ Doing(h, "number")
  /\ daemon' = [daemon EXCEPT ![doing[h].name].tick = Counts(h)]
  /\ doing' = [doing EXCEPT ![h].tick = Counts(h),
                            ![h].at = IF doing[h].name = Klogd THEN "append" ELSE "count"]
  /\ UNCHANGED <<time, tableVars, kernelLog>>

TickCounts(h) ==
  /\ Doing(h, "count") /\ ~registryHeld
  /\ Becomes(h, "append")
  /\ UNCHANGED <<time, tableVars, daemon, kernelLog>>

-----------------------------------------------------------------------------
(* append_to_log *)

(* A hart that panicked keeps the locks of the file system. *)
FsFree == \A h \in TickHarts : ~Doing(h, "panic")

(* &existing[existing.len() - 16384..] *)
Trimmed(file) ==
  IF Len(file) > LogLimit THEN SubSeq(file, Len(file) - LogLimit + 1, Len(file)) ELSE file

(* The slice panics when it does not begin with a character. *)
SlicePanics(file) ==
  Len(file) > LogLimit /\ LogLimit > 0 /\ ~file[Len(file) - LogLimit + 1].start

AppendPanics(h) ==
  /\ Doing(h, "append") /\ FsFree /\ SlicePanics(kernelLog)
  /\ Becomes(h, "panic")
  /\ UNCHANGED <<time, tableVars, daemon, kernelLog>>

AppendToLog(h) ==
  /\ Doing(h, "append") /\ FsFree /\ ~SlicePanics(kernelLog)
  /\ LET s == doing[h].name
         widths == IF s = Klogd /\ doing[h].tick = 0 THEN Banner ELSE Text
     IN  kernelLog' = Trimmed(kernelLog)
                        \o Encoded(widths, [of |-> s, tick |-> doing[h].tick])
  /\ IF doing[h].name # Klogd /\ doing[h].tick > 0 THEN Becomes(h, "reap") ELSE Returns(h)
  /\ UNCHANGED <<time, tableVars, daemon>>

(* reap_zombies passes over daemons, so no line follows for them. *)
TickReaps(h) ==
  /\ Doing(h, "reap") /\ ~registryHeld
  /\ Returns(h)
  /\ UNCHANGED <<time, tableVars, daemon, kernelLog>>

(* finish_task marks the task and spawns it again with the lock in hand. *)
FinishTask ==
  /\ Doing(Thief, "finish") /\ ~registryHeld
  /\ registryHeld' = TRUE
  /\ spawned' = [spawned EXCEPT ![doing[Thief].pid].state = "Zombie"]
  /\ doing' = [doing EXCEPT ![Thief] = [Resting EXCEPT !.at = "caught"]]
  /\ UNCHANGED <<time, services, waiting, daemon, kernelLog>>

TimePasses ==
  /\ time < MaxClock /\ time' = time + 1
  /\ UNCHANGED <<tableVars, daemon, kernelLog, doing>>

TickNext(h) ==
  \/ TickLoads(h) \/ TickLooks(h) \/ TickBegins(h) \/ TickBegan(h)
  \/ TickDue(h) \/ TickNumbers(h) \/ TickCounts(h)
  \/ AppendPanics(h) \/ AppendToLog(h) \/ TickReaps(h)

ServicesNext ==
  \/ \E s \in ServiceNames : StartService(s) \/ StopService(s)
  \/ SpawnDaemon \/ RegisterService \/ MarkStopped \/ ShellTicks
  \/ \E h \in TickHarts : TickNext(h)
  \/ Steals \/ MarkRunning \/ FinishTask \/ TimePasses

-----------------------------------------------------------------------------

(* Two lines of a service never carry the same number, although two harts  *)
(* may be in its tick at once (TICK.fetch_add in klogd_tick and            *)
(* sysmond_tick).                                                          *)
TicksAreNumbered ==
  LET ticks == {i \in DOMAIN kernelLog : kernelLog[i].last /\ kernelLog[i].what.tick > 0}
  IN  \A i, j \in ticks : kernelLog[i].what = kernelLog[j].what => i = j

(* "Truncate if too large (keep last 16KB)" (init.rs:443): shortening the  *)
(* log never fails.                                                        *)
LogIsTruncated == \A h \in TickHarts : ~Doing(h, "panic")
=============================================================================
