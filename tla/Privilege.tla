----------------------------- MODULE Privilege ------------------------------
(***************************************************************************)
(* Privilege, traps and interrupts of a hart (cpu/core.rs, cpu/csr.rs,     *)
(* cpu/execution.rs): trap entry and delegation, MRET and SRET, the CSR    *)
(* instructions, and the poll of the interrupt lines that step makes once  *)
(* in every PollEvery instructions.  The guest is any sequence of          *)
(* instructions.  Of mstatus the fields that traps use are kept; interrupt *)
(* registers are sets of bit numbers; CSRs without an effect on traps are  *)
(* left out, and so are mcause and scause, which only the guest reads.     *)
(***************************************************************************)
EXTENDS Integers, FiniteSets

CONSTANTS
  PollEvery,      \* steps between two polls: 256 in the code
  Delegations,    \* values of mideleg and medeleg together
  Enables,        \* values written to mie and sie
  Statuses,       \* values written to mstatus and sstatus
  Pcs,            \* addresses the guest jumps to
  Exceptions,     \* causes of the exceptions that plain instructions raise
  MaxTime,        \* bound on mtime
  MaxCsrWrites,   \* bound on the CSR writes that take effect
  Nil             \* no interrupt, nothing saved

VARIABLES
  cpu,        \* the hart: mode, status, ie, ip, mideleg, medeleg, mepc, sepc, pc
  poll,       \* Cpu.poll_counter
  clock,      \* CLINT: mtime, mtimecmp and msip of this hart; stimecmp, Sstc;
              \* wired: those of the lines 3, 9 and 11 that ever change
  outside,    \* the lines the PLIC raises: a subset of {9, 11}
  writes,     \* CSR writes so far
  event,      \* ghost: what the last step did
  saved,      \* ghost: per level, what its last trap interrupted
  overdue     \* ghost: steps for which the machine timer has been due

Modes == {"U", "S", "M"}

StatusBits == [sie : BOOLEAN, spie : BOOLEAN, spp : BOOLEAN,
               mie : BOOLEAN, mpie : BOOLEAN, mpp : 0 .. 3]

HartStates ==
  [mode : Modes, status : StatusBits, ie : SUBSET Int, ip : SUBSET Int,
   mideleg : SUBSET Int, medeleg : SUBSET Int, vectored : BOOLEAN,
   pc : Int, mepc : Int, sepc : Int]

Clocks == [mtime : Nat, mtimecmp : Nat, msip : BOOLEAN, sstc : BOOLEAN, stimecmp : Nat,
           wired : SUBSET {3, 9, 11}]

ASSUME PrivilegeAssumption ==
  /\ PollEvery \in Nat \ {0} /\ MaxTime \in Nat /\ Nil \notin {1, 3, 5, 7, 9, 11}
  /\ Statuses \subseteq StatusBits /\ Enables \subseteq SUBSET Int
  /\ Delegations \subseteq [i : SUBSET Int, e : SUBSET Int]
  /\ Pcs \subseteq Int /\ Pcs # {} /\ Exceptions \subseteq Int

pVars == <<cpu, poll, clock, outside, writes, event, saved, overdue>>

-----------------------------------------------------------------------------
Level(mode) == CASE mode = "U" -> 0 [] mode = "S" -> 1 [] mode = "M" -> 3

ToMpp(mode) == Level(mode)

\* 2 is reserved and read as Machine.
FromMpp(bits) == CASE bits = 0 -> "U" [] bits = 1 -> "S" [] OTHER -> "M"

SieMask == {1, 5, 9}
HwBits  == {3, 7, 9, 11}

\* Trap vectors: with bit 0 of tvec set interrupts are vectored.
Base(level) == IF level = "M" THEN 1000 ELSE 2000

Target(level, interrupt, cause, vectored) ==
  Base(level) + (IF interrupt /\ vectored THEN 4 * cause ELSE 0)

EcallCause(mode) == CASE mode = "U" -> 8 [] mode = "S" -> 9 [] mode = "M" -> 11

-----------------------------------------------------------------------------
(* Trap entry and return.                                                  *)

DelegatedToS(h, interrupt, cause) ==
  /\ h.mode # "M"
  /\ cause \in (IF interrupt THEN h.mideleg ELSE h.medeleg)

TrapToS(h, interrupt, cause, pc) ==
  [h EXCEPT !.sepc = pc,
            !.status.spie = h.status.sie,
            !.status.sie  = FALSE,
            !.status.spp  = (h.mode = "S"),
            !.mode = "S",
            !.pc = Target("S", interrupt, cause, h.vectored)]

TrapToM(h, interrupt, cause, pc) ==
  [h EXCEPT !.mepc = pc,
            !.status.mpie = h.status.mie,
            !.status.mie  = FALSE,
            !.status.mpp  = ToMpp(h.mode),
            !.mode = "M",
            !.pc = Target("M", interrupt, cause, h.vectored)]

HandleTrap(h, interrupt, cause, pc) ==
  IF DelegatedToS(h, interrupt, cause) THEN TrapToS(h, interrupt, cause, pc)
  ELSE TrapToM(h, interrupt, cause, pc)

IllegalInsn(h) == HandleTrap(h, FALSE, 2, h.pc)

\* Mutant: interrupts stay off after MRET.
MretKeepsMie(h) ==
  IF h.mode # "M" THEN IllegalInsn(h)
  ELSE [h EXCEPT !.mode = FromMpp(h.status.mpp), !.status.mpie = TRUE,
                 !.status.mpp = 0, !.pc = h.mepc]

Mret(h) ==
  IF h.mode # "M" THEN IllegalInsn(h)
  ELSE [h EXCEPT !.mode = FromMpp(h.status.mpp),
                 !.status.mie = h.status.mpie,
                 !.status.mpie = TRUE,
                 !.status.mpp = 0,
                 !.pc = h.mepc]

Sret(h) ==
  IF h.mode # "S" THEN IllegalInsn(h)
  ELSE [h EXCEPT !.mode = IF h.status.spp THEN "S" ELSE "U",
                 !.status.sie = h.status.spie,
                 !.status.spie = TRUE,
                 !.status.spp = FALSE,
                 !.pc = h.sepc]

-----------------------------------------------------------------------------
(* The CSR file.  A CSR instruction reads first, so the privilege check of *)
(* the read comes before anything else.                                    *)

CsrLevel(csr) == IF csr \in {"sstatus", "sie", "sip", "sepc"} THEN 1 ELSE 3

CsrWrite(h, csr, val) ==
  CASE csr = "mstatus" -> [h EXCEPT !.status = val]
    [] csr = "sstatus" -> [h EXCEPT !.status.sie = val.sie,
                                    !.status.spie = val.spie,
                                    !.status.spp = val.spp]
    [] csr = "mie"  -> [h EXCEPT !.ie = val]
    [] csr = "sie"  -> [h EXCEPT !.ie = (@ \ SieMask) \cup (val \cap SieMask)]
    [] csr = "mip"  -> [h EXCEPT !.ip = val]
    [] csr = "sip"  -> [h EXCEPT !.ip = (@ \ {1}) \cup (val \cap {1})]
    [] csr = "mepc" -> [h EXCEPT !.mepc = val]
    [] csr = "sepc" -> [h EXCEPT !.sepc = val]
    [] csr = "deleg" -> [h EXCEPT !.mideleg = val.i, !.medeleg = val.e]

\* The address after pc, in the guest's few addresses.
NextPc(pc) == CHOOSE p \in Pcs : pc + 4 \in Pcs => p = pc + 4

CsrInstruction(h, csr, val) ==
  IF Level(h.mode) < CsrLevel(csr) THEN IllegalInsn(h)
  ELSE [CsrWrite(h, csr, val) EXCEPT !.pc = NextPc(h.pc)]

CsrValues ==
  ({"mstatus", "sstatus"} \X Statuses)
    \cup ({"mie", "sie", "mip", "sip"} \X Enables)
    \cup ({"mepc", "sepc"} \X Pcs)
    \cup ({"deleg"} \X Delegations)

-----------------------------------------------------------------------------
(* Interrupts.                                                             *)

\* Mutant: the timer is due after its compare value, not at it.
HwMipLate(c, out) ==
  (IF c.msip THEN {3} ELSE {}) \cup (IF c.mtime > c.mtimecmp THEN {7} ELSE {})
    \cup (IF c.sstc /\ c.stimecmp # 0 /\ c.mtime >= c.stimecmp THEN {5} ELSE {})
    \cup out

\* What bus.poll_interrupts_for_hart and the Sstc comparison report.
HwMip(c, out) ==
  (IF c.msip THEN {3} ELSE {}) \cup (IF c.mtime >= c.mtimecmp THEN {7} ELSE {})
    \cup (IF c.sstc /\ c.stimecmp # 0 /\ c.mtime >= c.stimecmp THEN {5} ELSE {})
    \cup out

\* The polled bits of mip are replaced, the others kept.
RefreshMip(h, c, out) ==
  LET mask == HwBits \cup (IF c.sstc THEN {5} ELSE {})
  IN  [h EXCEPT !.ip = (@ \ mask) \cup (HwMip(c, out) \cap mask)]

First(order, set) ==
  IF \E i \in DOMAIN order : order[i] \in set
  THEN order[CHOOSE i \in DOMAIN order :
               order[i] \in set /\ \A j \in 1 .. i - 1 : order[j] \notin set]
  ELSE Nil

CheckPendingInterrupt(h) ==
  LET mPending == (h.ip \cap h.ie) \ h.mideleg
      sPending == h.ip \cap h.ie \cap SieMask \cap h.mideleg
      mEnabled == h.mode # "M" \/ h.status.mie
      sEnabled == h.mode = "U" \/ (h.mode = "S" /\ h.status.sie)
      fromM    == IF mEnabled THEN First(<<11, 3, 7>>, mPending) ELSE Nil
      fromS    == IF sEnabled THEN First(<<9, 1, 5>>, sPending) ELSE Nil
  IN  IF fromM # Nil THEN fromM ELSE fromS

-----------------------------------------------------------------------------
(* Steps.  A trap to a level saves what was interrupted in the ghost; a    *)
(* return, or a write to what the trap saved, ends that.                   *)

Interrupted(h, pc, before) ==
  LET level == h.mode
      ie == IF level = "M" THEN before.status.mie ELSE before.status.sie
  IN  [saved EXCEPT ![level] = [mode |-> before.mode, ie |-> ie, pc |-> pc]]

Forget(levels) == [l \in {"M", "S"} |-> IF l \in levels THEN Nil ELSE saved[l]]

Became(h, what) == cpu' = h /\ event' = what

Trap(before, interrupt, cause) ==
  \E h \in {HandleTrap(before, interrupt, cause, before.pc)} :
    /\ Became(h, IF interrupt THEN "interrupt" ELSE "trap")
    /\ saved' = Interrupted(h, before.pc, before)
    /\ UNCHANGED writes

\* An instruction that the mode does not allow.
Refused(before, h) ==
  /\ Became(h, "trap")
  /\ saved' = Interrupted(h, before.pc, before)
  /\ UNCHANGED writes

\* One instruction, on the hart h that the poll left.
Instruction(h) ==
  \/ \E cause \in Exceptions \cup {EcallCause(h.mode)} : Trap(h, FALSE, cause)
  \/ \E pc \in Pcs : /\ Became([h EXCEPT !.pc = pc], "other")
                     /\ UNCHANGED <<saved, writes>>
  \/ IF h.mode = "M"
     THEN Became(Mret(h), "mret") /\ saved' = Forget({"M"}) /\ UNCHANGED writes
     ELSE Refused(h, Mret(h))
  \/ IF h.mode = "S"
     THEN Became(Sret(h), "sret") /\ saved' = Forget({"S"}) /\ UNCHANGED writes
     ELSE Refused(h, Sret(h))
  \/ \E v \in CsrValues :
       IF Level(h.mode) < CsrLevel(v[1])
       THEN Refused(h, CsrInstruction(h, v[1], v[2]))
       ELSE /\ writes < MaxCsrWrites
            /\ writes' = writes + 1
            /\ Became(CsrInstruction(h, v[1], v[2]), "other")
            /\ saved' = Forget(CASE v[1] = "mstatus" -> {"M", "S"}
                                 [] v[1] = "mepc" -> {"M"}
                                 [] v[1] \in {"sstatus", "sepc"} -> {"S"}
                                 [] OTHER -> {})

IsPoll(count) == count = 0

Tick(c) == [c EXCEPT !.mtime = IF @ < MaxTime THEN @ + 1 ELSE @]

\* The machine timer is due, enabled and not masked.
TimerDue(h, c) ==
  /\ c.mtime >= c.mtimecmp
  /\ 7 \in h.ie /\ 7 \notin h.mideleg
  /\ h.mode = "M" => h.status.mie

\* Cpu::step on hart 0, whose poll also advances mtime.
Step ==
  LET count == (poll + 1) % PollEvery
      c     == IF IsPoll(count) THEN Tick(clock) ELSE clock
      h     == IF IsPoll(count) THEN RefreshMip(cpu, c, outside) ELSE cpu
      int   == IF IsPoll(count) THEN CheckPendingInterrupt(h) ELSE Nil
  IN  /\ poll' = count
      /\ clock' = c
      /\ IF int # Nil THEN Trap(h, TRUE, int) ELSE Instruction(h)
      /\ overdue' = IF TimerDue(cpu, clock) /\ TimerDue(cpu', c)
                         /\ event' # "interrupt"
                    THEN overdue + 1 ELSE 0
      /\ UNCHANGED outside

\* The guest's store to mtimecmp or stimecmp (past the next ticks, or never),
\* and another hart's store to msip.
SetTimer ==
  /\ \E t \in {MaxTime, MaxTime + 1} :
       clock' = [clock EXCEPT !.mtimecmp = t]
  /\ event' = "other"
  /\ overdue' = 0
  /\ UNCHANGED <<cpu, poll, outside, writes, saved>>

SetMsip ==
  /\ 3 \in clock.wired
  /\ clock' = [clock EXCEPT !.msip = ~@]
  /\ event' = "other"
  /\ UNCHANGED <<cpu, poll, outside, writes, saved, overdue>>

PlicChanges ==
  /\ \E out \in SUBSET ({9, 11} \cap clock.wired) : outside' = out
  /\ event' = "other"
  /\ UNCHANGED <<cpu, poll, clock, writes, saved, overdue>>

PrivilegeNext == Step \/ SetTimer \/ SetMsip \/ PlicChanges

\* Any contents of the registers; nothing is interrupted.
PrivilegeStarts ==
  /\ cpu \in HartStates /\ clock \in Clocks
  /\ poll = 0 /\ outside = {} /\ writes = 0 /\ event = "other"
  /\ saved = [l \in {"M", "S"} |-> Nil] /\ overdue = 0

PrivilegeSpec == PrivilegeStarts /\ [][PrivilegeNext]_pVars

-----------------------------------------------------------------------------
(* Properties.                                                             *)

\* MRET and SRET bring back the mode, the interrupt enable and the pc that the
\* trap of that level interrupted, whatever traps, returns and CSR writes of
\* the other level came in between.
ReturnRestores ==
  [][\A l \in {"M", "S"} :
       event' = (IF l = "M" THEN "mret" ELSE "sret") /\ saved[l] # Nil
       => /\ cpu'.mode = saved[l].mode
          /\ cpu'.pc = saved[l].pc
          /\ saved[l].ie =
               (IF l = "M" THEN cpu'.status.mie ELSE cpu'.status.sie)]_pVars

\* A machine timer interrupt that is due, enabled and not masked waits for at
\* most one round of the poll counter before the hart enters a trap handler,
\* whatever else is pending.
TimerIsPrompt == overdue < PollEvery
=============================================================================
