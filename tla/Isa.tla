--------------------------------- MODULE Isa ---------------------------------
(***************************************************************************)
(* One instruction of the interpreter (src/riscv-vm/src/cpu/execution.rs,  *)
(* step_single_inner): what each decoded Op does to the registers, the     *)
(* memory, the pc and the LR/SC reservation of a hart.                     *)
(*                                                                         *)
(* Words are narrow: a register has XLEN bits instead of 64, so a word has *)
(* XLEN/2, a halfword XLEN/4 and a byte XLEN/8, and a doubleword still is  *)
(* eight addressable bytes.  Every cast and every wrap of the code is kept *)
(* at these widths.  Address translation is a set of unmapped addresses    *)
(* here; Mmu.tla is about the translation itself.                          *)
(***************************************************************************)
EXTENDS Decoder, Bitwise

CONSTANTS
  XLEN,       \* bits of a register: 64 in the code
  Dram,       \* the addresses of the DRAM
  Unmapped,   \* virtual addresses whose translation faults
  Granule,    \* bytes of a reservation granule: 64 in the code
  None        \* no trap, no reservation, no result

WLEN == XLEN \div 2
BLEN == XLEN \div 8

-----------------------------------------------------------------------------
(* Rust's integer casts and operators on XLEN-bit words.                   *)

U(v)  == v % 2^XLEN
S(x)  == Sext(x, XLEN)
W(x)  == x % 2^WLEN
SW(x) == Sext(x, WLEN)

Bool(b) == IF b THEN 1 ELSE 0

Shl(x, n) == x * 2^n
Shr(x, n) == x \div 2^n

\* Rust's division and remainder round towards zero.
TruncDiv(a, b) ==
  LET q == (IF a < 0 THEN -a ELSE a) \div (IF b < 0 THEN -b ELSE b)
  IN  IF (a < 0) = (b < 0) THEN q ELSE -q

TruncRem(a, b) == a - b * TruncDiv(a, b)

MinSigned(n) == -(2^(n - 1))

-----------------------------------------------------------------------------
(* A hart: registers, memory, pc, reservation and the trap of its last     *)
(* instruction.                                                            *)

ReadReg(s, r) == IF r = 0 THEN 0 ELSE s.regs[r]

WriteReg(s, r, v) ==
  IF r = 0 THEN s ELSE [s EXCEPT !.regs[r] = v]

\* An instruction that ends in handle_trap: why, and the faulting pc.  A fault
\* is <<kind, access type, address>>.
Trapped(s, why) == [s EXCEPT !.trap = [why |-> why, epc |-> s.pc]]

IllegalInstruction == <<"IllegalInstruction">>

Retire(s, pc) == [s EXCEPT !.pc = U(pc)]

Translate(vaddr, access) ==
  IF vaddr \in Unmapped THEN <<"PageFault", access, vaddr>> ELSE None

\* The bus's width checks and the DRAM's bounds; width counts bytes.
BusFault(pa, width, access) ==
  CASE pa % width # 0 -> <<"AddressMisaligned", access, pa>>
    [] pa \notin Dram \/ pa + width - 1 \notin Dram ->
         <<"AccessFault", access, pa>>
    [] OTHER -> None

RECURSIVE BusRead(_, _, _)
BusRead(mem, pa, width) ==
  IF width = 0 THEN 0
  ELSE mem[pa] + 2^BLEN * BusRead(mem, pa + 1, width - 1)

BusWrite(mem, pa, width, v) ==
  [a \in DOMAIN mem |-> IF a \in pa .. pa + width - 1
                        THEN Bits(v, BLEN * (a - pa), BLEN)
                        ELSE mem[a]]

\* The first fault of an access: the translation's, then the bus's.
AccessFault(vaddr, width, access) ==
  LET t == Translate(vaddr, access)
  IN  IF t # None THEN t ELSE BusFault(vaddr, width, access)

ReservationGranule(addr) == addr - (addr % Granule)

ClearReservationIfConflict(s, addr) ==
  IF s.reservation # None /\ s.reservation = ReservationGranule(addr)
  THEN [s EXCEPT !.reservation = None] ELSE s

-----------------------------------------------------------------------------
(* The arms of step_single_inner.  len is the length of the instruction.   *)

ExecUpper(s, op, len) ==
  Retire(WriteReg(s, op.rd, U(IF op.kind = "Lui" THEN op.imm
                              ELSE s.pc + op.imm)), s.pc + len)

ExecJal(s, op, len) ==
  Retire(WriteReg(s, op.rd, U(s.pc + len)), s.pc + op.imm)

ExecJalr(s, op, len) ==
  LET target == U(ReadReg(s, op.rs1) + op.imm)
  IN  Retire(WriteReg(s, op.rd, U(s.pc + len)), target - (target % 2))

ExecBranch(s, op, len) ==
  LET a == ReadReg(s, op.rs1)
      b == ReadReg(s, op.rs2)
      taken == CASE op.funct3 = 0 -> a = b
                 [] op.funct3 = 1 -> a # b
                 [] op.funct3 = 4 -> S(a) < S(b)
                 [] op.funct3 = 5 -> S(a) >= S(b)
                 [] op.funct3 = 6 -> a < b
                 [] op.funct3 = 7 -> a >= b
  IN  IF op.funct3 \in {2, 3} THEN Trapped(s, IllegalInstruction)
      ELSE Retire(s, s.pc + (IF taken THEN op.imm ELSE len))

ExecLoad(s, op, len) ==
  LET addr  == U(ReadReg(s, op.rs1) + op.imm)
      width == 2^(op.funct3 % 4)
      fault == AccessFault(addr, width, "Load")
      raw   == BusRead(s.mem, addr, width)
      val   == IF op.funct3 < 4 THEN U(Sext(raw, BLEN * width)) ELSE raw
  IN  CASE op.funct3 = 7 -> Trapped(s, IllegalInstruction)
        [] op.funct3 # 7 /\ fault # None -> Trapped(s, fault)
        [] OTHER -> Retire(WriteReg(s, op.rd, val), s.pc + len)

\* The reservation is cleared before the width is looked at and before the
\* write, so even by a store that then traps in the bus.
ExecStore(s, op, len) ==
  LET addr  == U(ReadReg(s, op.rs1) + op.imm)
      width == 2^op.funct3
      fault == BusFault(addr, width, "Store")
      t     == Translate(addr, "Store")
      r     == ClearReservationIfConflict(s, addr)
  IN  CASE t # None -> Trapped(s, t)
        [] t = None /\ op.funct3 > 3 -> Trapped(r, IllegalInstruction)
        [] t = None /\ op.funct3 <= 3 /\ fault # None ->
             Trapped(r, fault)
        [] OTHER -> Retire([r EXCEPT !.mem = BusWrite(@, addr, width,
                                                      ReadReg(s, op.rs2))],
                           s.pc + len)

ExecOpImm(s, op, len) ==
  LET a     == ReadReg(s, op.rs1)
      imm   == U(op.imm)
      shamt == op.imm % XLEN
      res == CASE op.funct3 = 0 -> U(a + imm)
               [] op.funct3 = 2 -> Bool(S(a) < op.imm)
               [] op.funct3 = 3 -> Bool(a < imm)
               [] op.funct3 = 4 -> a ^^ imm
               [] op.funct3 = 6 -> a | imm
               [] op.funct3 = 7 -> a & imm
               [] op.funct3 = 1 -> U(Shl(a, shamt))
               [] op.funct3 = 5 -> IF Bits(op.funct7, 5, 1) = 1
                                   THEN U(Shr(S(a), shamt)) ELSE Shr(a, shamt)
  IN  Retire(WriteReg(s, op.rd, res), s.pc + len)

\* The ten base register-register instructions and the M extension.
ExecOp(s, op, len) ==
  LET a == ReadReg(s, op.rs1)
      b == ReadReg(s, op.rs2)
      f == <<op.funct3, op.funct7>>
      overflow == S(a) = MinSigned(XLEN) /\ S(b) = -1
      res == CASE f = <<0, 0>>  -> U(a + b)
               [] f = <<0, 32>> -> U(a - b)
               [] f = <<0, 1>>  -> U(S(a) * S(b))
               [] f = <<1, 0>>  -> U(Shl(a, b % XLEN))
               [] f = <<1, 1>>  -> U(Shr(S(a) * S(b), XLEN))
               [] f = <<2, 0>>  -> Bool(S(a) < S(b))
               [] f = <<2, 1>>  -> U(Shr(S(a) * b, XLEN))
               [] f = <<3, 0>>  -> Bool(a < b)
               [] f = <<3, 1>>  -> U(Shr(a * b, XLEN))
               [] f = <<4, 0>>  -> a ^^ b
               [] f = <<4, 1>>  -> CASE b = 0 -> U(-1)
                                     [] overflow -> U(MinSigned(XLEN))
                                     [] OTHER -> U(TruncDiv(S(a), S(b)))
               [] f = <<5, 0>>  -> Shr(a, b % XLEN)
               [] f = <<5, 1>>  -> IF b = 0 THEN U(-1) ELSE a \div b
               [] f = <<5, 32>> -> U(Shr(S(a), b % XLEN))
               [] f = <<6, 0>>  -> a | b
               [] f = <<6, 1>>  -> CASE b = 0 -> a
                                     [] overflow -> 0
                                     [] OTHER -> U(TruncRem(S(a), S(b)))
               [] f = <<7, 0>>  -> a & b
               [] f = <<7, 1>>  -> IF b = 0 THEN a ELSE a % b
               [] OTHER -> None
  IN  IF res = None THEN Trapped(s, IllegalInstruction)
      ELSE Retire(WriteReg(s, op.rd, res), s.pc + len)

ExecOpImm32(s, op, len) ==
  LET a     == ReadReg(s, op.rs1)
      shamt == op.imm % WLEN
      res == CASE op.funct3 = 0 -> U(SW(a + op.imm))
               [] op.funct3 = 1 -> U(SW(Shl(W(a), shamt)))
               [] op.funct3 = 5 -> IF Bits(op.funct7, 5, 1) = 1
                                   THEN U(Shr(SW(a), shamt))
                                   ELSE U(SW(Shr(W(a), shamt)))
               [] OTHER -> None
  IN  IF res = None THEN Trapped(s, IllegalInstruction)
      ELSE Retire(WriteReg(s, op.rd, res), s.pc + len)

\* The W forms: the operands are cut to a word, the result sign-extended.
\* Division works on the operands widened again, as the i64 casts do.
ExecOp32(s, op, len) ==
  LET x == ReadReg(s, op.rs1)
      y == ReadReg(s, op.rs2)
      a == SW(x)
      b == SW(y)
      f == <<op.funct3, op.funct7>>
      overflow == a = MinSigned(WLEN) /\ b = -1
      res == CASE f = <<0, 0>>  -> SW(x + y)
               [] f = <<0, 32>> -> SW(x - y)
               [] f = <<0, 1>>  -> SW(a * b)
               [] f = <<1, 0>>  -> SW(Shl(W(x), y % WLEN))
               [] f = <<5, 0>>  -> SW(Shr(W(x), y % WLEN))
               [] f = <<4, 1>>  -> CASE b = 0 -> -1
                                     [] overflow -> MinSigned(WLEN)
                                     [] OTHER -> SW(TruncDiv(a, b))
               [] f = <<5, 32>> -> Shr(a, y % WLEN)
               [] f = <<5, 1>>  -> SW(IF W(y) = 0 THEN U(-1)
                                      ELSE W(x) \div W(y))
               [] f = <<6, 1>>  -> CASE b = 0 -> a
                                     [] overflow -> 0
                                     [] OTHER -> SW(TruncRem(a, b))
               [] f = <<7, 1>>  -> SW(IF W(y) = 0 THEN W(x) ELSE W(x) % W(y))
               [] OTHER -> None
  IN  IF res = None THEN Trapped(s, IllegalInstruction)
      ELSE Retire(WriteReg(s, op.rd, U(res)), s.pc + len)

-----------------------------------------------------------------------------
(* The A extension on a single hart; Atomics.tla is about several.         *)

\* What the atomic_* methods of the bus leave in memory: old is the value
\* read, sign-extended for a word except where it is compared unsigned.
AmoResult(funct5, old, val, word) ==
  LET o == IF word THEN W(old) ELSE old
      v == IF word THEN W(val) ELSE val
  IN  CASE funct5 = 1  -> val
        [] funct5 = 0  -> old + val
        [] funct5 = 4  -> old ^^ val
        [] funct5 = 8  -> old | val
        [] funct5 = 12 -> old & val
        [] funct5 = 16 -> IF S(old) < S(val) THEN old ELSE val
        [] funct5 = 20 -> IF S(old) > S(val) THEN old ELSE val
        [] funct5 = 24 -> IF o < v THEN old ELSE val
        [] funct5 = 28 -> IF o > v THEN old ELSE val

\* LR: load, then reserve the granule of the virtual address.
ExecLr(s, op, addr, width, len) ==
  LET fault == BusFault(addr, width, "Load")
      val   == U(Sext(BusRead(s.mem, addr, width), BLEN * width))
  IN  IF fault # None THEN Trapped(s, fault)
      ELSE Retire([WriteReg(s, op.rd, val)
                     EXCEPT !.reservation = ReservationGranule(addr)],
                  s.pc + len)

\* SC: it stores only under this hart's own reservation of the granule, and
\* only a successful one gives the reservation up.
ExecSc(s, op, addr, width, len) ==
  LET fault == BusFault(addr, width, "Store")
      holds == s.reservation = ReservationGranule(addr)
      wrote == [s EXCEPT !.mem = BusWrite(@, addr, width, ReadReg(s, op.rs2)),
                         !.reservation = None]
  IN  CASE addr % width # 0 -> Trapped(s, <<"AddressMisaligned", "Store", addr>>)
        [] addr % width = 0 /\ ~holds ->
             Retire(WriteReg(s, op.rd, 1), s.pc + len)
        [] addr % width = 0 /\ holds /\ fault # None -> Trapped(s, fault)
        [] OTHER -> Retire(WriteReg(wrote, op.rd, 0), s.pc + len)

\* AMO: read, combine, write, under the bus's lock.
ExecRmw(s, op, addr, width, len) ==
  LET r     == ClearReservationIfConflict(s, addr)
      fault == BusFault(addr, width, "Load")
      old   == U(Sext(BusRead(s.mem, addr, width), BLEN * width))
      new   == AmoResult(op.funct5, old, ReadReg(s, op.rs2), width = 4)
  IN  IF fault # None THEN Trapped(r, fault)
      ELSE Retire(WriteReg([r EXCEPT !.mem = BusWrite(@, addr, width, new)],
                           op.rd, old), s.pc + len)

ExecAmo(s, op, len) ==
  LET addr  == ReadReg(s, op.rs1)
      width == 2^op.funct3
      t     == Translate(addr, "Load")
  IN  CASE t # None -> Trapped(s, t)
        [] t = None /\ op.funct3 \notin {2, 3} -> Trapped(s, IllegalInstruction)
        [] OTHER ->
             CASE op.funct5 = 2 -> ExecLr(s, op, addr, width, len)
               [] op.funct5 = 3 -> ExecSc(s, op, addr, width, len)
               [] op.funct5 \in {0, 1, 4, 8, 12, 16, 20, 24, 28} ->
                    ExecRmw(s, op, addr, width, len)
               [] OTHER -> Trapped(s, IllegalInstruction)

\* A system instruction acts on the privileged state, which Hart.tla models:
\* here it ends the run with a trap that names it.  WFI only spins; the
\* encodings no arm of the match names are illegal.
ExecSystem(s, op, len) ==
  LET plain == op.rd = 0 /\ op.rs1 = 0
      known == \/ op.funct3 \in {1, 2, 3, 5, 6, 7}
               \/ op.funct3 = 0 /\ op.rd = 0 /\ op.imm \div 32 = 9
               \/ op.funct3 = 0 /\ plain /\ op.imm \in {0, 1, 258, 770}
  IN  CASE known -> Trapped(s, <<"System", op.funct3, op.imm>>)
        [] op.funct3 = 0 /\ plain /\ op.imm = 261 -> Retire(s, s.pc + len)
        [] OTHER -> Trapped(s, IllegalInstruction)

\* One step of the interpreter at s.pc, for the decoded op there.
StepSingle(s, op, len) ==
  CASE op.kind \in {"Lui", "Auipc"} -> ExecUpper(s, op, len)
    [] op.kind = "Jal"     -> ExecJal(s, op, len)
    [] op.kind = "Jalr"    -> ExecJalr(s, op, len)
    [] op.kind = "Branch"  -> ExecBranch(s, op, len)
    [] op.kind = "Load"    -> ExecLoad(s, op, len)
    [] op.kind = "Store"   -> ExecStore(s, op, len)
    [] op.kind = "OpImm"   -> ExecOpImm(s, op, len)
    [] op.kind = "Op"      -> ExecOp(s, op, len)
    [] op.kind = "OpImm32" -> ExecOpImm32(s, op, len)
    [] op.kind = "Op32"    -> ExecOp32(s, op, len)
    [] op.kind = "Amo"     -> ExecAmo(s, op, len)
    [] op.kind = "System"  -> ExecSystem(s, op, len)
    [] op.kind = "Fence"   -> Retire(s, s.pc + len)
    [] op.kind = "Illegal" -> Trapped(s, IllegalInstruction)

-----------------------------------------------------------------------------
(* Fetching.  prog gives the instruction that starts at each address.      *)

FetchTrap(why) == [op |-> Illegal, len |-> 0, why |-> why]

\* The word is read at once at a multiple of four; elsewhere the high half of
\* a four-byte instruction is translated on its own.
Fetch(prog, pc) ==
  LET straddles == pc % 4 # 0 /\ prog[pc].len = 4
      high      == U(pc + 2)
  IN  CASE pc % 2 # 0 -> FetchTrap(<<"AddressMisaligned", "Fetch", pc>>)
        [] pc % 2 = 0 /\ pc \in Unmapped ->
             FetchTrap(<<"PageFault", "Fetch", pc>>)
        [] pc % 2 = 0 /\ pc \notin Unmapped /\ pc \notin DOMAIN prog ->
             FetchTrap(<<"AccessFault", "Fetch", pc>>)
        [] OTHER ->
             IF straddles /\ high \in Unmapped
             THEN FetchTrap(<<"PageFault", "Fetch", high>>)
             ELSE [op |-> prog[pc].op, len |-> prog[pc].len,
                   why |-> IF prog[pc].op = Illegal THEN IllegalInstruction
                           ELSE None]

\* step_single: fetch, expand, decode and execute the instruction at s.pc.
StepAt(prog, s) ==
  LET f == Fetch(prog, s.pc)
  IN  IF f.why # None THEN Trapped(s, f.why) ELSE StepSingle(s, f.op, f.len)
==============================================================================
