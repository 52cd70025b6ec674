------------------------------ MODULE NativeVm ------------------------------
(***************************************************************************)
(* The native host, vm/native.rs and console.rs: hart 0 and the devices on *)
(* the main thread, a thread for every other hart, and a thread that reads *)
(* the keyboard.  The threads meet in SharedState, two flags and the halt  *)
(* code.  What a hart executes is abstracted to how a batch of it ends.    *)
(***************************************************************************)
EXTENDS Integers, Sequences, SequencesExt

CONSTANTS
  Threads,          \* the secondary harts
  BatchSteps,       \* BATCH_SIZE, 256
  ConsoleInterval,  \* CONSOLE_POLL_INTERVAL, 16384
  Keys,             \* what may be typed: "^A", "x" and others
  HaltCodes,        \* what the guest may write to the test finisher
  MaxTyped, MaxDevices  \* bounds

FatalCode == 57005  \* 0xDEAD
CtrlA == "^A"

VARIABLES
  flags,       \* SharedState.flags
  haltCode,    \* SharedState.halt_code
  vpc,         \* where the main thread is
  thr,         \* where each hart's thread is
  ending,      \* what a hart is about to signal
  stepCount,   \* hart 0's step count, modulo the longest interval
  devices,     \* how many VirtIO devices the bus has
  typed,       \* the keys in the console's channel
  escaped,     \* the run loop's escape flag
  signalled    \* ghost: every code signalled

nVars == <<flags, haltCode, vpc, thr, ending, stepCount, devices, typed, escaped,
           signalled>>

NativeInit ==
  /\ flags = {} /\ haltCode = 0
  /\ vpc = "setup"
  /\ thr = [t \in Threads |-> "none"]
  /\ ending = [t \in Threads \cup {0} |-> 0]
  /\ stepCount = 0 /\ devices = 0
  /\ typed = <<>> /\ escaped = FALSE
  /\ signalled = {}

-----------------------------------------------------------------------------
(* SharedState.                                                            *)

\* Mutant: only a request stops a hart.
StopsWhenAsked == "requested" \in flags

ShouldStop == flags # {}

\* signal_halted: the code, and only then the flag.
SignalCode(t) == /\ haltCode' = ending[t]
                 /\ signalled' = signalled \cup {ending[t]}
                 /\ UNCHANGED flags

SignalFlag(t) == /\ flags' = flags \cup {"halted"}
                 /\ UNCHANGED <<haltCode, signalled>>

-----------------------------------------------------------------------------
(* Setting up: load_disk and connect_webtransport need the only reference  *)
(* to the bus, which each running thread shares.                           *)

OnlyReference == \A t \in Threads : thr[t] \in {"none", "exited"}

Attach ==
  /\ vpc \in {"setup", "done"}
  /\ devices < MaxDevices
  /\ OnlyReference
  /\ devices' = devices + 1
  /\ UNCHANGED <<flags, haltCode, vpc, thr, ending, stepCount, typed, escaped, signalled>>

StartWorkers ==
  /\ vpc = "setup"
  /\ \A t \in Threads : thr[t] = "none"
  /\ thr' = [t \in Threads |-> "check"]
  /\ UNCHANGED <<flags, haltCode, vpc, ending, stepCount, devices, typed, escaped, signalled>>

\* run starts the workers unless the host did.
Run ==
  /\ vpc = "setup"
  /\ vpc' = "check"
  /\ thr' = [t \in Threads |-> IF thr[t] = "none" THEN "check" ELSE thr[t]]
  /\ UNCHANGED <<flags, haltCode, ending, stepCount, devices, typed, escaped, signalled>>

\* Dropping a VM that was set up and never run.
DropVm ==
  /\ vpc = "setup"
  /\ vpc' = "shutdown"
  /\ UNCHANGED <<flags, haltCode, thr, ending, stepCount, devices, typed, escaped, signalled>>

-----------------------------------------------------------------------------
(* The run loop.                                                           *)

Check ==
  /\ vpc = "check"
  /\ vpc' = IF ShouldStop THEN "shutdown" ELSE "batch"
  /\ UNCHANGED <<flags, haltCode, thr, ending, stepCount, devices, typed, escaped, signalled>>

\* execute_batch.  A step that traps counts as well, so a whole batch is
\* always BatchSteps.
Batch ==
  /\ vpc = "batch"
  /\ \/ /\ stepCount' = (stepCount + BatchSteps) % ConsoleInterval
        /\ vpc' = "poll"
        /\ UNCHANGED ending
     \/ /\ \E c \in HaltCodes \cup {FatalCode} : ending' = [ending EXCEPT ![0] = c]
        /\ vpc' = "code"
        /\ UNCHANGED stepCount
  /\ UNCHANGED <<flags, haltCode, thr, devices, typed, escaped, signalled>>

HaltCode ==
  /\ vpc = "code"
  /\ SignalCode(0)
  /\ vpc' = "flag"
  /\ UNCHANGED <<thr, ending, stepCount, devices, typed, escaped>>

HaltFlag ==
  /\ vpc = "flag"
  /\ SignalFlag(0)
  /\ vpc' = "shutdown"
  /\ UNCHANGED <<thr, ending, stepCount, devices, typed, escaped>>

\* One key of pump_console: s is the escape flag and whether the user has
\* asked to leave; a key that is not part of an escape goes to the UART.
OneKey(s, key) ==
  IF s.quit THEN s
  ELSE [esc |-> IF s.esc THEN key = "x" ELSE key = CtrlA, quit |-> s.esc /\ key = "x"]

Pump ==
  LET s == FoldLeft(OneKey, [esc |-> escaped, quit |-> FALSE], typed)
  IN  /\ typed' = <<>>
      /\ escaped' = s.esc
      /\ flags' = IF s.quit THEN flags \cup {"requested"} ELSE flags

\* After a batch the devices are polled and the console is pumped, each at
\* its interval.  (What polling a device does is VirtioNet's business.)
Poll ==
  /\ vpc = "poll"
  /\ vpc' = "check"
  /\ IF stepCount % ConsoleInterval = 0 THEN Pump
     ELSE UNCHANGED <<flags, typed, escaped>>
  /\ UNCHANGED <<haltCode, thr, ending, stepCount, devices, signalled>>

-----------------------------------------------------------------------------
(* shutdown and drop: ask every thread to stop, then join them.            *)

Shutdown ==
  /\ vpc = "shutdown"
  /\ flags' = flags \cup {"requested"}
  /\ vpc' = "join"
  /\ UNCHANGED <<haltCode, thr, ending, stepCount, devices, typed, escaped, signalled>>

AllJoined == \A t \in Threads : thr[t] \in {"none", "exited"}

Join ==
  /\ vpc = "join"
  /\ AllJoined
  /\ vpc' = "done"
  /\ UNCHANGED <<flags, haltCode, thr, ending, stepCount, devices, typed, escaped, signalled>>

MainNext == Run \/ Check \/ Batch \/ HaltCode \/ HaltFlag \/ Poll \/ Shutdown \/ Join

-----------------------------------------------------------------------------
(* hart_thread.                                                            *)

ThreadCheck(t) ==
  /\ thr[t] = "check"
  /\ thr' = [thr EXCEPT ![t] = IF ShouldStop THEN "exited" ELSE "batch"]
  /\ UNCHANGED <<flags, haltCode, ending, signalled>>

ThreadBatch(t) ==
  /\ thr[t] = "batch"
  /\ \/ thr' = [thr EXCEPT ![t] = "check"] /\ UNCHANGED ending
     \/ /\ \E c \in HaltCodes \cup {FatalCode} : ending' = [ending EXCEPT ![t] = c]
        /\ thr' = [thr EXCEPT ![t] = "code"]
  /\ UNCHANGED <<flags, haltCode, signalled>>

ThreadCode(t) ==
  /\ thr[t] = "code"
  /\ SignalCode(t)
  /\ thr' = [thr EXCEPT ![t] = "flag"]
  /\ UNCHANGED ending

ThreadFlag(t) ==
  /\ thr[t] = "flag"
  /\ SignalFlag(t)
  /\ thr' = [thr EXCEPT ![t] = "exited"]
  /\ UNCHANGED ending

ThreadNext(t) ==
  /\ ThreadCheck(t) \/ ThreadBatch(t) \/ ThreadCode(t) \/ ThreadFlag(t)
  /\ UNCHANGED <<vpc, stepCount, devices, typed, escaped>>

\* The console thread: a key is read and sent to the run loop.
Type ==
  /\ vpc \notin {"setup", "done"}
  /\ Len(typed) < MaxTyped
  /\ \E key \in Keys : typed' = Append(typed, key)
  /\ UNCHANGED <<flags, haltCode, vpc, thr, ending, stepCount, devices, escaped, signalled>>

NativeNext ==
  \/ Attach \/ StartWorkers \/ DropVm \/ MainNext \/ Type
  \/ \E t \in Threads : ThreadNext(t)

\* The operating system runs every thread that can run.
NativeFairness == WF_nVars(MainNext) /\ \A t \in Threads : WF_nVars(ThreadNext(t))

NativeSpec == NativeInit /\ [][NativeNext]_nVars /\ NativeFairness

-----------------------------------------------------------------------------
\* The keys that wait ask to leave, alone or after what was read before.
LeaveAsked ==
  LET keys == IF escaped THEN <<CtrlA>> \o typed ELSE typed
  IN  Len(keys) >= 2 /\ keys[1] = CtrlA /\ keys[2] = "x"

\* A halt stops the whole machine: once a flag is up, or Ctrl-A x has been
\* typed in one read or in two, every thread exits and run returns, with a
\* code some hart signalled if one did (should_stop in run and hart_thread,
\* pump_console, signal_halted, shutdown).
HaltStopsAll ==
  (flags # {} \/ LeaveAsked) ~>
     /\ vpc = "done" /\ \A t \in Threads : thr[t] \in {"none", "exited"}
     /\ "halted" \in flags => haltCode \in signalled

=============================================================================
