----------------------------- MODULE Interrupts -----------------------------
(***************************************************************************)
(* How a device interrupt reaches a hart and is served: the UART and the   *)
(* virtio devices, the interrupt controller, and the poll every hart makes *)
(* once in 256 steps (Cpu::step, SystemBus::check_interrupts_for_hart of   *)
(* the native build).  The poll of a hart reads each device's line under   *)
(* the device's lock, then sets the PLIC's level under the PLIC's lock,    *)
(* then reads the PLIC's caches without a lock, so the polls of several    *)
(* harts and the stores of the others interleave at those points.          *)
(*                                                                         *)
(* A hart is one thread: its guest code does not run while it polls.  The  *)
(* guest is the usual interrupt handler (claim, serve the device,          *)
(* complete) and, outside of it, any store to the registers of the UART,   *)
(* to a priority register or to the registers of the hart's own contexts.  *)
(***************************************************************************)
EXTENDS Plic, Uart, Sequences

CONSTANTS UartIrq,     \* the UART's source
          LineOrder,   \* the order in which a poll refreshes the sources
          GuestCtx,    \* the context each hart's guest uses
          MaxInput,    \* bound: bytes the host ever sends
          MaxKicks,    \* bound: interrupts the virtio devices ever raise
          MaxWrites    \* bound: register writes outside the handler

ASSUME InterruptsAssumption ==
  /\ UartIrq \in Sources
  /\ LineOrder \in Seq(Sources) /\ Len(LineOrder) > 0
  /\ GuestCtx \in [Harts -> Contexts]
  /\ \A h \in Harts : GuestCtx[h] \in {MContext(h), SContext(h)}
  /\ MaxInput \in Nat /\ MaxKicks \in Nat /\ MaxWrites \in Nat

VARIABLES
  vio,       \* the virtio sources with interrupt_status # 0
  pc,        \* per hart: guest, level, pending, priority
  idx,       \* per hart: position in LineOrder
  level,     \* per hart: the line as it was read
  ctx,       \* per hart: the context that is being checked
  cand,      \* per hart: candidates whose priority is not read yet
  mip,       \* per hart: the contexts this poll has found interrupting
  steady,    \* ghost, per hart: the sources that have been raised for ctx
             \* ever since pending was loaded
  handler,   \* per hart: none, claim, iir, rbr, ack, complete
  claimed,   \* per hart: the source its handler claimed
  sent, kicked, writes   \* the counters of the bounds

hartVars == <<pc, idx, level, ctx, cand, mip>>
guestVars == <<handler, claimed>>
counters == <<sent, kicked, writes>>
vars == <<uartVars, plicVars, vio, pc, idx, level, ctx, cand, mip, steady,
          handler, claimed, sent, kicked, writes>>

Virtio == Sources \ {UartIrq}

HartTypeOK ==
  /\ vio \in SUBSET Virtio
  /\ pc \in [Harts -> {"guest", "level", "pending", "priority"}]
  /\ idx \in [Harts -> 1 .. Len(LineOrder)]
  /\ level \in [Harts -> BOOLEAN]
  /\ ctx \in [Harts -> Contexts]
  /\ cand \in [Harts -> SUBSET Sources]
  /\ mip \in [Harts -> SUBSET Contexts]
  /\ steady \in [Harts -> SUBSET Sources]
  /\ handler \in [Harts -> {"none", "claim", "iir", "rbr", "ack", "complete"}]
  /\ claimed \in [Harts -> Sources \cup {0}]
  /\ sent \in 0 .. MaxInput /\ kicked \in 0 .. MaxKicks /\ writes \in 0 .. MaxWrites

TypeOK == UartTypeOK /\ PlicTypeOK /\ HartTypeOK

(* The guest has booted: it has given every source a priority, enabled it  *)
(* for its harts' contexts, and enabled the UART's receive interrupt.      *)
Init ==
  /\ rx = 0 /\ data_ready = FALSE /\ iir = "none" /\ dlab = FALSE
  /\ thre_ip = TRUE /\ interrupting = FALSE
  /\ ier = {"rda"}
  /\ priority \in [Sources -> Priorities \ {0}]
  /\ enable = [c \in Contexts |->
                 IF \E h \in Harts : c = GuestCtx[h] THEN Sources ELSE {}]
  /\ threshold = [c \in Contexts |-> 0]
  /\ pending = {}
  /\ active = [c \in Contexts |-> {}]
  /\ priority_cache = priority /\ pending_cache = pending
  /\ enable_cache = enable /\ threshold_cache = threshold
  /\ vio = {}
  /\ pc = [h \in Harts |-> "guest"]
  /\ idx = [h \in Harts |-> 1]
  /\ level = [h \in Harts |-> FALSE]
  /\ ctx = [h \in Harts |-> SContext(h)]
  /\ cand = [h \in Harts |-> {}]
  /\ mip = [h \in Harts |-> {}]
  /\ steady = [h \in Harts |-> {}]
  /\ handler = [h \in Harts |-> "none"]
  /\ claimed = [h \in Harts |-> 0]
  /\ sent = 0 /\ kicked = 0 /\ writes = 0

(* The ghost: what is still raised after a step that is not a load of      *)
(* pending.                                                                *)
Watch ==
  steady' = [g \in Harts |->
               {s \in steady[g] : \E c \in {ctx[g]} : Raised(s, c)'}]

-----------------------------------------------------------------------------
(* The devices *)

(* uart.is_interrupting and, for a virtio device, interrupt_status # 0. *)
Line(s) == IF s = UartIrq THEN interrupting ELSE s \in vio

(* pump_console hands the UART a byte of the host's. *)
HostInput ==
  /\ sent < MaxInput /\ sent' = sent + 1
  /\ PushInput
  /\ UNCHANGED <<plicVars, vio, hartVars, guestVars, steady, kicked, writes>>

(* A virtio device has used a descriptor. *)
Kick(s) ==
  /\ kicked < MaxKicks /\ kicked' = kicked + 1
  /\ vio' = vio \cup {s}
  /\ UNCHANGED <<uartVars, plicVars, hartVars, guestVars, steady, sent, writes>>

-----------------------------------------------------------------------------
(* The poll of hart h *)

(* poll_counter has wrapped: the first device's is_interrupting(). *)
StartPoll(h) ==
  /\ pc[h] = "guest"
  /\ pc' = [pc EXCEPT ![h] = "level"]
  /\ level' = [level EXCEPT ![h] = Line(LineOrder[1])]
  /\ UNCHANGED <<uartVars, plicVars, vio, idx, ctx, cand, mip, steady, guestVars,
                 counters>>

(* plic.set_source_level(irq, line), and is_interrupting() of the next     *)
(* device.  The two hold different locks and no step needs both, so        *)
(* nothing is lost by joining them.  After the last device the contexts    *)
(* are checked.                                                            *)
SetLevel(h) ==
  /\ pc[h] = "level"
  /\ SetSourceLevel(LineOrder[idx[h]], level[h])
  /\ IF idx[h] < Len(LineOrder)
     THEN /\ idx' = [idx EXCEPT ![h] = @ + 1]
          /\ level' = [level EXCEPT ![h] = Line(LineOrder[idx[h] + 1])]
          /\ UNCHANGED pc
     ELSE /\ idx' = [idx EXCEPT ![h] = 1]
          /\ level' = [level EXCEPT ![h] = FALSE]
          /\ pc' = [pc EXCEPT ![h] = "pending"]
  /\ Watch
  /\ UNCHANGED <<uartVars, vio, ctx, cand, mip, guestVars, counters>>

(* The end of the poll in Cpu::step: an interrupt is taken if a context    *)
(* was found interrupting, unless the hart is in its handler (mstatus.MIE  *)
(* or SIE is 0).  It touches the hart's own registers only.                *)
Deliver(h, bits) ==
  /\ handler' = IF bits # {} /\ handler[h] = "none"
                THEN [handler EXCEPT ![h] = "claim"] ELSE handler
  /\ pc' = [pc EXCEPT ![h] = "guest"]
  /\ ctx' = [ctx EXCEPT ![h] = SContext(h)]
  /\ mip' = [mip EXCEPT ![h] = {}]

(* is_interrupt_pending_for_fast returns.  SEIP is checked first, then     *)
(* MEIP, which ends the poll.  The ghost keeps what an answer FALSE        *)
(* overlooked.                                                             *)
FastCheckReturns(h, found, raised) ==
  LET bits == IF found THEN mip[h] \cup {ctx[h]} ELSE mip[h]
  IN  /\ IF ctx[h] = SContext(h)
         THEN /\ ctx' = [ctx EXCEPT ![h] = MContext(h)]
              /\ mip' = [mip EXCEPT ![h] = bits]
              /\ pc' = [pc EXCEPT ![h] = "pending"]
              /\ UNCHANGED handler
         ELSE Deliver(h, bits)
      /\ cand' = [cand EXCEPT ![h] = {}]
      /\ steady' = [steady EXCEPT ![h] = IF found THEN {} ELSE raised]

(* The loads of pending_cache, enable_cache and threshold_cache.  The last *)
(* two are written by this hart only, so the three are one step.           *)
LoadPending(h) ==
  LET found == pending_cache \cap enable_cache[ctx[h]]
      raised == {s \in Sources : Raised(s, ctx[h])}
  IN  /\ pc[h] = "pending"
      /\ IF found = {}
         THEN FastCheckReturns(h, FALSE, raised)
         ELSE /\ cand' = [cand EXCEPT ![h] = found]
              /\ steady' = [steady EXCEPT ![h] = raised]
              /\ pc' = [pc EXCEPT ![h] = "priority"]
              /\ UNCHANGED <<ctx, mip, handler>>
      /\ UNCHANGED <<uartVars, plicVars, vio, idx, level, claimed, counters>>

(* The candidate whose priority is loaded next. *)
NextCandidate(h) == CHOOSE s \in cand[h] : \A t \in cand[h] : s <= t

(* Mutant: the answer is that of the first candidate. *)
LoadFirstPriority(h) ==
  /\ pc[h] = "priority"
  /\ FastCheckReturns(h, priority_cache[NextCandidate(h)] > threshold_cache[ctx[h]],
                      steady[h])
  /\ UNCHANGED <<uartVars, plicVars, vio, idx, level, claimed, counters>>

(* The load of priority_cache of the next candidate. *)
LoadPriority(h) ==
  LET s == NextCandidate(h)
      over == priority_cache[s] > threshold_cache[ctx[h]]
  IN  /\ pc[h] = "priority"
      /\ IF over \/ cand[h] = {s}
         THEN FastCheckReturns(h, over, steady[h])
         ELSE /\ cand' = [cand EXCEPT ![h] = @ \ {s}]
              /\ UNCHANGED <<pc, ctx, mip, handler, steady>>
      /\ UNCHANGED <<uartVars, plicVars, vio, idx, level, claimed, counters>>

Poll(h) ==
  \/ StartPoll(h)
  \/ SetLevel(h)
  \/ LoadPending(h)
  \/ LoadPriority(h)

-----------------------------------------------------------------------------
(* The guest of hart h *)

(* The handler claims; what it got says which device to serve. *)
Claim(h) ==
  /\ pc[h] = "guest" /\ handler[h] = "claim"
  /\ \E id \in Sources \cup {0} :
       /\ ClaimInterrupt(GuestCtx[h], id)
       /\ claimed' = [claimed EXCEPT ![h] = id]
       /\ handler' = [handler EXCEPT ![h] = IF id = 0 THEN "none"
                                            ELSE IF id = UartIrq THEN "iir" ELSE "ack"]
  /\ UNCHANGED <<uartVars, vio, hartVars, steady, counters>>

(* A UART interrupt: read why, and a byte if there is one. *)
ServeIir(h) ==
  /\ pc[h] = "guest" /\ handler[h] = "iir"
  /\ LoadIir
  /\ handler' = [handler EXCEPT ![h] = IF iir = "rda" THEN "rbr" ELSE "complete"]
  /\ UNCHANGED <<plicVars, vio, hartVars, steady, claimed, counters>>

ServeRbr(h) ==
  /\ pc[h] = "guest" /\ handler[h] = "rbr"
  /\ LoadRbr
  /\ handler' = [handler EXCEPT ![h] = "complete"]
  /\ UNCHANGED <<plicVars, vio, hartVars, steady, claimed, counters>>

(* A virtio interrupt: INTERRUPT_ACK. *)
ServeAck(h) ==
  /\ pc[h] = "guest" /\ handler[h] = "ack"
  /\ vio' = vio \ {claimed[h]}
  /\ handler' = [handler EXCEPT ![h] = "complete"]
  /\ UNCHANGED <<uartVars, plicVars, hartVars, steady, claimed, counters>>

Complete(h) ==
  /\ pc[h] = "guest" /\ handler[h] = "complete"
  /\ CompleteInterrupt(GuestCtx[h], claimed[h])
  /\ handler' = [handler EXCEPT ![h] = "none"]
  /\ claimed' = [claimed EXCEPT ![h] = 0]
  /\ UNCHANGED <<uartVars, vio, hartVars, steady, counters>>

Serve(h) ==
  \/ Claim(h)
  \/ ServeIir(h)
  \/ ServeRbr(h)
  \/ ServeAck(h)
  \/ Complete(h)

(* Outside the handler: a store to the UART, or to the PLIC. *)
WriteUart(h) ==
  /\ pc[h] = "guest" /\ handler[h] = "none"
  /\ writes < MaxWrites /\ writes' = writes + 1
  /\ \/ StoreThr
     \/ StoreFcr
     \/ \E e \in SUBSET Reasons : StoreIer(e)
     \/ \E b \in BOOLEAN : StoreLcr(b)
  /\ UNCHANGED <<plicVars, vio, hartVars, guestVars, steady, sent, kicked>>

WritePlic(h) ==
  /\ pc[h] = "guest" /\ handler[h] = "none"
  /\ writes < MaxWrites /\ writes' = writes + 1
  /\ \/ \E s \in Sources, v \in Priorities : StorePriority(s, v)
     \/ \E set \in SUBSET Sources : StoreEnable(GuestCtx[h], set)
     \/ \E v \in Priorities : StoreThreshold(GuestCtx[h], v)
  /\ Watch
  /\ UNCHANGED <<uartVars, vio, hartVars, guestVars, sent, kicked>>

Next ==
  \/ HostInput
  \/ \E s \in Virtio : Kick(s)
  \/ \E h \in Harts : Poll(h) \/ Serve(h) \/ WriteUart(h) \/ WritePlic(h)

Spec == Init /\ [][Next]_vars

(* Every hart keeps running, and executes instructions of its guest        *)
(* between two polls.                                                      *)
Fairness == \A h \in Harts : WF_vars(Poll(h)) /\ SF_vars(Serve(h))

FairSpec == Spec /\ Fairness

-----------------------------------------------------------------------------

(* is_interrupt_pending_for_fast has no false negatives: when it answers   *)
(* FALSE, no source was raised for the context from its first load to its  *)
(* last, although it loads pending and each priority at different moments  *)
(* while other harts refresh lines and write priorities.                   *)
SteadyIsSeen == \A h \in Harts : steady[h] # {} => pc[h] = "priority"

(* Some hart's guest is to be interrupted by received bytes. *)
Listening ==
  /\ "rda" \in ier /\ ~dlab
  /\ \E h \in Harts : /\ UartIrq \in enable[GuestCtx[h]]
                      /\ priority[UartIrq] > threshold[GuestCtx[h]]

(* A byte the host sends is read by the handler of some hart, as long as   *)
(* one listens: no line, level, claim or completion is lost on the way     *)
(* for good, whichever harts race for it.  In particular a poll may write  *)
(* a level after another hart has written a newer one (the line is read    *)
(* before the PLIC's lock is taken); the next polls repair it.             *)
InputIsRead == rx > 0 ~> (rx = 0 \/ ~Listening)

-----------------------------------------------------------------------------
(* The checked instance: the UART is refreshed before the virtio device;   *)
(* hart 0 takes its interrupts in machine mode, hart 1 in supervisor mode. *)
UartThenVirtio == <<10, 1>>
MachineAndSupervisor == [h \in {0, 1} |-> IF h = 0 THEN 0 ELSE 3]
=============================================================================
