------------------------------- MODULE WasmSmp -------------------------------
(***************************************************************************)
(* The browser host: vm/wasm.rs steps hart 0 on the page's thread, called  *)
(* by runVM of index.ts; worker.rs runs every other hart in a Web Worker,  *)
(* called by runLoop of worker.ts.  They share the SharedControl words of  *)
(* shared_mem.rs, each loaded and stored by one Atomics call.  What a hart *)
(* executes is abstracted to how it ends.  A halt code fits in its low     *)
(* word, which is the only one modelled.                                   *)
(***************************************************************************)
EXTENDS Integers

CONSTANTS
  Workers,          \* the secondary harts
  BootSteps,        \* BOOT_STEPS_THRESHOLD, 1000
  Chunks,           \* batch_size / HALT_CHECK_INTERVAL, 10
  GuestCodes,       \* what the guest may write to the test finisher
  MaxStarts         \* bound on calls of start_workers

PanicCode == 57005  \* 0xDEAD

VARIABLES
  control,     \* SharedControl: halt_requested, halted, halt_code, workers_can_start
  vm,          \* WasmVm: halted, halt_code, boot_steps, workers_signaled, workers_started
  page,        \* where the page's thread is
  pageEnds,    \* what hart 0 is about to signal
  wk,          \* per worker: where it is, its cached flag, chunks left, its code
  starts,      \* ghost: calls of start_workers
  told         \* ghost: every code signalled

wVars == <<control, vm, page, pageEnds, wk, starts, told>>

NoWorker == [at |-> "none", started |-> FALSE, left |-> 0, code |-> 0]

\* init_shared_memory and create_vm_internal.
WasmInit ==
  /\ control = [requested |-> FALSE, halted |-> FALSE, code |-> 0, start |-> FALSE]
  /\ vm = [halted |-> FALSE, code |-> 0, boot |-> 0, signaled |-> FALSE, started |-> FALSE]
  /\ page = "step" /\ pageEnds = 0
  /\ wk = [w \in Workers |-> NoWorker]
  /\ starts = 0 /\ told = {}

\* Mutant: a halt that a hart signalled is not looked at.
StopsWhenRequested == control.requested

ControlStops == control.requested \/ control.halted

-----------------------------------------------------------------------------
(* WasmVm.step, as runVM calls it until it returns false.                  *)

\* Halted already, or is_halted: hart 0 does not look at halt_requested.
StepCheck ==
  /\ page = "step"
  /\ page' = CASE vm.halted -> "stopped" [] control.halted -> "code" [] OTHER -> "boot"
  /\ UNCHANGED <<control, vm, pageEnds, wk, starts, told>>

StepHalted ==
  /\ page = "code"
  /\ vm' = [vm EXCEPT !.halted = TRUE, !.code = control.code]
  /\ page' = "stopped"
  /\ UNCHANGED <<control, pageEnds, wk, starts, told>>

Booted(n) == n >= BootSteps

\* The boot steps are counted until the workers have been signalled.
StepBoot ==
  /\ page = "boot"
  /\ page' = "execute"
  /\ IF vm.signaled THEN UNCHANGED <<vm, control>>
     ELSE LET n == vm.boot + 1
          IN  /\ vm' = [vm EXCEPT !.boot = n, !.signaled = Booted(n)]
              /\ control' = [control EXCEPT !.start = @ \/ Booted(n)]
  /\ UNCHANGED <<pageEnds, wk, starts, told>>

\* A fatal error leaves the VM's own halt code as it was.
StepExecute ==
  /\ page = "execute"
  /\ \/ page' = "step" /\ UNCHANGED <<vm, pageEnds>>
     \/ \E c \in GuestCodes :
          /\ vm' = [vm EXCEPT !.halted = TRUE, !.code = c]
          /\ pageEnds' = c
          /\ page' = "signal"
     \/ /\ vm' = [vm EXCEPT !.halted = TRUE]
        /\ pageEnds' = PanicCode
        /\ page' = "signal"
  /\ UNCHANGED <<control, wk, starts, told>>

\* signal_halted: the code is stored, then the flag.
StoreCode(c) == control' = [control EXCEPT !.code = c] /\ told' = told \cup {c}

StoreFlag == control' = [control EXCEPT !.halted = TRUE] /\ UNCHANGED told

StepSignal ==
  \/ /\ page = "signal" /\ StoreCode(pageEnds) /\ page' = "flag"
     /\ UNCHANGED <<vm, pageEnds, wk, starts>>
  \/ /\ page = "flag" /\ StoreFlag /\ page' = "stopped"
     /\ UNCHANGED <<vm, pageEnds, wk, starts>>

PageNext == StepCheck \/ StepHalted \/ StepBoot \/ StepExecute \/ StepSignal

-----------------------------------------------------------------------------
(* What the host calls between frames.                                     *)

BetweenFrames == page \in {"step", "stopped"}

\* start_workers; each worker then loads its module and receives its message.
WasmStartWorkers ==
  /\ BetweenFrames
  /\ ~vm.started
  /\ starts < MaxStarts
  /\ starts' = starts + 1
  /\ vm' = [vm EXCEPT !.started = TRUE]
  /\ wk' = [w \in Workers |-> [NoWorker EXCEPT !.at = "check"]]
  /\ UNCHANGED <<control, page, pageEnds, told>>

AllowWorkers ==
  /\ BetweenFrames
  /\ control' = [control EXCEPT !.start = TRUE]
  /\ vm' = [vm EXCEPT !.signaled = TRUE]
  /\ UNCHANGED <<page, pageEnds, wk, starts, told>>

\* runVM's stop function: no more frames, and terminate_workers.
StopVm ==
  /\ BetweenFrames
  /\ vm.started
  /\ page' = "stopped"
  /\ control' = [control EXCEPT !.requested = TRUE]
  /\ vm' = [vm EXCEPT !.started = FALSE]
  /\ wk' = [w \in Workers |-> NoWorker]
  /\ UNCHANGED <<pageEnds, starts, told>>

-----------------------------------------------------------------------------
(* WorkerState.step_batch, as runLoop calls it while it returns Continue.  *)

Ends(w) == wk' = [wk EXCEPT ![w] = [NoWorker EXCEPT !.at = "ended"]]

\* should_stop at the start of a batch, then the start signal, cached.
MayStart(w) == wk[w].started \/ control.start

BatchBegin(w) ==
  /\ wk[w].at = "check"
  /\ \/ ControlStops /\ Ends(w)
     \/ /\ ~ControlStops
        /\ MayStart(w)
        /\ wk' = [wk EXCEPT ![w].at = "chunk", ![w].started = TRUE, ![w].left = Chunks]
  /\ UNCHANGED <<control, told>>

\* HALT_CHECK_INTERVAL instructions.
BatchChunk(w) ==
  /\ wk[w].at = "chunk"
  /\ \/ wk' = [wk EXCEPT ![w].at = IF wk[w].left = 1 THEN "check" ELSE "halt?",
                         ![w].left = @ - 1]
     \/ \E c \in GuestCodes \cup {PanicCode} :
          wk' = [wk EXCEPT ![w].at = "code", ![w].code = c]
  /\ UNCHANGED <<control, told>>

\* The halt check inside a batch.
BatchCheck(w) ==
  /\ wk[w].at = "halt?"
  /\ IF ControlStops THEN Ends(w) ELSE wk' = [wk EXCEPT ![w].at = "chunk"]
  /\ UNCHANGED <<control, told>>

BatchSignal(w) ==
  \/ /\ wk[w].at = "code" /\ StoreCode(wk[w].code)
     /\ wk' = [wk EXCEPT ![w].at = "flag"]
  \/ /\ wk[w].at = "flag" /\ StoreFlag /\ Ends(w)

WorkerNext(w) ==
  /\ BatchBegin(w) \/ BatchChunk(w) \/ BatchCheck(w) \/ BatchSignal(w)
  /\ UNCHANGED <<vm, page, pageEnds, starts>>

-----------------------------------------------------------------------------
WasmNext ==
  \/ PageNext \/ WasmStartWorkers \/ AllowWorkers \/ StopVm
  \/ \E w \in Workers : WorkerNext(w)

\* The page schedules every frame and each worker loops.
WasmFairness == WF_wVars(PageNext) /\ \A w \in Workers : WF_wVars(WorkerNext(w))

WasmSpec == WasmInit /\ [][WasmNext]_wVars /\ WasmFairness

-----------------------------------------------------------------------------
\* A halt signalled by any hart stops hart 0 and every worker, and the VM
\* then reports a code some hart signalled; a fatal error of hart 0 itself is
\* the one that reports none (is_halted in step, should_stop in step_batch).
HaltReachesAll ==
  control.halted ~>
     /\ page = "stopped" /\ \A w \in Workers : wk[w].at \in {"none", "ended"}
     /\ vm.halted => vm.code \in told \/ pageEnds = PanicCode

=============================================================================
