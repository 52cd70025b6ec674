------------------------------ MODULE MicroOps ------------------------------
(***************************************************************************)
(* The micro-operations of the block engine: the transcoder that makes     *)
(* them out of decoded instructions (engine/microop.rs, engine/block.rs)   *)
(* and what each does when a block is run (cpu/core.rs,                    *)
(* execute_block_inner), on the hart and the narrow words of Isa.tla.      *)
(* A micro-op is a record of its name, its operands and the byte offset of *)
(* its instruction in the block.                                           *)
(***************************************************************************)
EXTENDS Isa, TLC

-----------------------------------------------------------------------------
(* The variants of MicroOp, in the groups of the source.                   *)

RegImmOps == {"Addi", "Xori", "Ori", "Andi", "Slti", "Sltiu",
              "Slli", "Srli", "Srai"}

RegRegOps == {"Add", "Sub", "Xor", "Or", "And", "Sll", "Srl", "Sra",
              "Slt", "Sltu"}

WordOps == {"Addiw", "Slliw", "Srliw", "Sraiw", "Addw", "Subw",
            "Sllw", "Srlw", "Sraw"}

MulDivOps == {"Mul", "Mulh", "Mulhsu", "Mulhu", "Div", "Divu", "Rem", "Remu",
              "Mulw", "Divw", "Divuw", "Remw", "Remuw"}

UpperOps == {"Lui", "Auipc"}

LoadOps == {"Lb", "Lbu", "Lh", "Lhu", "Lw", "Lwu", "Ld"}

StoreOps == {"Sb", "Sh", "Sw", "Sd"}

ControlOps == {"Jal", "Jalr", "Beq", "Bne", "Blt", "Bge", "Bltu", "Bgeu"}

CsrOps == {"Csrrw", "Csrrs", "Csrrc", "Csrrwi", "Csrrsi", "Csrrci"}

SystemOps == {"Ecall", "Ebreak", "Mret", "Sret", "Wfi", "SfenceVma", "Fence"}

AtomicOps == {"LrW", "LrD", "ScW", "ScD", "AmoSwap", "AmoAdd", "AmoXor",
              "AmoAnd", "AmoOr", "AmoMin", "AmoMax", "AmoMinu", "AmoMaxu"}

\* is_terminator: the block ends after such an op.
IsTerminator(m) ==
  m.op \in ControlOps \cup CsrOps \cup AtomicOps
             \cup (SystemOps \ {"Wfi", "Fence"})

-----------------------------------------------------------------------------
(* transcode.  A field value with no arm of its own becomes a Fence.       *)

FenceOp == [op |-> "Fence"]

Pick(table, key) == IF key \in DOMAIN table THEN table[key] ELSE "Fence"

TranscodeBranch(op, off, len) ==
  LET name == Pick(0 :> "Beq" @@ 1 :> "Bne" @@ 4 :> "Blt" @@ 5 :> "Bge"
                     @@ 6 :> "Bltu" @@ 7 :> "Bgeu", op.funct3)
  IN  IF name = "Fence" THEN FenceOp
      ELSE [op |-> name, rs1 |-> op.rs1, rs2 |-> op.rs2, imm |-> op.imm,
            off |-> off, len |-> len]

TranscodeLoad(op, off) ==
  LET name == Pick(0 :> "Lb" @@ 1 :> "Lh" @@ 2 :> "Lw" @@ 3 :> "Ld"
                     @@ 4 :> "Lbu" @@ 5 :> "Lhu" @@ 6 :> "Lwu", op.funct3)
  IN  IF name = "Fence" THEN FenceOp
      ELSE [op |-> name, rd |-> op.rd, rs1 |-> op.rs1, imm |-> op.imm,
            off |-> off]

TranscodeStore(op, off) ==
  LET name == Pick(0 :> "Sb" @@ 1 :> "Sh" @@ 2 :> "Sw" @@ 3 :> "Sd", op.funct3)
  IN  IF name = "Fence" THEN FenceOp
      ELSE [op |-> name, rs1 |-> op.rs1, rs2 |-> op.rs2, imm |-> op.imm,
            off |-> off]

\* Bit 5 of funct7 tells an arithmetic right shift from a logical one.
IsArith(funct7) == Bits(funct7, 5, 1) = 1

TranscodeOpImm(op) ==
  LET name == Pick(0 :> "Addi" @@ 2 :> "Slti" @@ 3 :> "Sltiu" @@ 4 :> "Xori"
                     @@ 6 :> "Ori" @@ 7 :> "Andi", op.funct3)
      shift(n) == [op |-> n, rd |-> op.rd, rs1 |-> op.rs1,
                   shamt |-> op.imm % 64]
  IN  CASE op.funct3 = 1 -> shift("Slli")
        [] op.funct3 = 5 ->
             shift(IF IsArith(op.funct7) THEN "Srai" ELSE "Srli")
        [] OTHER -> [op |-> name, rd |-> op.rd, rs1 |-> op.rs1, imm |-> op.imm]

RegisterOps ==
  <<0, 0>> :> "Add" @@ <<0, 32>> :> "Sub" @@ <<0, 1>> :> "Mul"
    @@ <<1, 0>> :> "Sll" @@ <<1, 1>> :> "Mulh" @@ <<2, 0>> :> "Slt"
    @@ <<2, 1>> :> "Mulhsu" @@ <<3, 0>> :> "Sltu" @@ <<3, 1>> :> "Mulhu"
    @@ <<4, 0>> :> "Xor" @@ <<4, 1>> :> "Div" @@ <<5, 0>> :> "Srl"
    @@ <<5, 32>> :> "Sra" @@ <<5, 1>> :> "Divu" @@ <<6, 0>> :> "Or"
    @@ <<6, 1>> :> "Rem" @@ <<7, 0>> :> "And" @@ <<7, 1>> :> "Remu"

Register32Ops ==
  <<0, 0>> :> "Addw" @@ <<0, 32>> :> "Subw" @@ <<0, 1>> :> "Mulw"
    @@ <<1, 0>> :> "Sllw" @@ <<5, 0>> :> "Srlw" @@ <<5, 32>> :> "Sraw"
    @@ <<4, 1>> :> "Divw" @@ <<5, 1>> :> "Divuw" @@ <<6, 1>> :> "Remw"
    @@ <<7, 1>> :> "Remuw"

RegReg(table, op) ==
  LET name == Pick(table, <<op.funct3, op.funct7>>)
  IN  IF name = "Fence" THEN FenceOp
      ELSE [op |-> name, rd |-> op.rd, rs1 |-> op.rs1, rs2 |-> op.rs2]

TranscodeOp(op) == RegReg(RegisterOps, op)

TranscodeOpImm32(op) ==
  LET shift(n) == [op |-> n, rd |-> op.rd, rs1 |-> op.rs1,
                   shamt |-> op.imm % 32]
  IN  CASE op.funct3 = 0 ->
             [op |-> "Addiw", rd |-> op.rd, rs1 |-> op.rs1, imm |-> op.imm]
        [] op.funct3 = 1 -> shift("Slliw")
        [] op.funct3 = 5 ->
             shift(IF IsArith(op.funct7) THEN "Sraiw" ELSE "Srliw")
        [] OTHER -> FenceOp

TranscodeOp32(op) == RegReg(Register32Ops, op)

\* Every system and atomic op exits to the interpreter, which decodes the
\* instruction again: of its operands only the offset is used.
TranscodeSystem(op, off) ==
  LET name ==
        IF op.funct3 = 0
        THEN CASE op.imm = 0   -> "Ecall"
               [] op.imm = 1   -> "Ebreak"
               [] op.imm = 770 -> "Mret"
               [] op.imm = 258 -> "Sret"
               [] op.imm = 261 -> "Wfi"
               [] op.imm \div 32 = 9 -> "SfenceVma"
               [] OTHER -> "Fence"
        ELSE Pick(1 :> "Csrrw" @@ 2 :> "Csrrs" @@ 3 :> "Csrrc" @@ 5 :> "Csrrwi"
                    @@ 6 :> "Csrrsi" @@ 7 :> "Csrrci", op.funct3)
  IN  IF name = "Fence" THEN FenceOp ELSE [op |-> name, off |-> off]

TranscodeAmo(op, off) ==
  LET word == op.funct3 = 2
      name == Pick(2 :> (IF word THEN "LrW" ELSE "LrD")
                     @@ 3 :> (IF word THEN "ScW" ELSE "ScD")
                     @@ 1 :> "AmoSwap" @@ 0 :> "AmoAdd" @@ 4 :> "AmoXor"
                     @@ 12 :> "AmoAnd" @@ 8 :> "AmoOr" @@ 16 :> "AmoMin"
                     @@ 20 :> "AmoMax" @@ 24 :> "AmoMinu" @@ 28 :> "AmoMaxu",
                   op.funct5)
  IN  IF name = "Fence" THEN FenceOp ELSE [op |-> name, off |-> off]

Transcode(op, off, len) ==
  CASE op.kind = "Lui"    -> [op |-> "Lui", rd |-> op.rd, imm |-> op.imm]
    [] op.kind = "Auipc"  -> [op |-> "Auipc", rd |-> op.rd, imm |-> op.imm,
                              off |-> off]
    [] op.kind = "Jal"    -> [op |-> "Jal", rd |-> op.rd, imm |-> op.imm,
                              off |-> off, len |-> len]
    [] op.kind = "Jalr"   -> [op |-> "Jalr", rd |-> op.rd, rs1 |-> op.rs1,
                              imm |-> op.imm, off |-> off, len |-> len]
    [] op.kind = "Branch"  -> TranscodeBranch(op, off, len)
    [] op.kind = "Load"    -> TranscodeLoad(op, off)
    [] op.kind = "Store"   -> TranscodeStore(op, off)
    [] op.kind = "OpImm"   -> TranscodeOpImm(op)
    [] op.kind = "Op"      -> TranscodeOp(op)
    [] op.kind = "OpImm32" -> TranscodeOpImm32(op)
    [] op.kind = "Op32"    -> TranscodeOp32(op)
    [] op.kind = "System"  -> TranscodeSystem(op, off)
    [] op.kind = "Amo"     -> TranscodeAmo(op, off)
    [] op.kind = "Fence"   -> FenceOp

-----------------------------------------------------------------------------
(* Execution; base is the pc of the block.  A result is the hart           *)
(* afterwards and how the block goes on: with the next op, with a jump to  *)
(* hart.pc, with a trap, or by giving the instruction at hart.pc to the    *)
(* interpreter.                                                            *)

GoOn(s)  == [hart |-> s, flow |-> "next"]
Jump(s, pc) == [hart |-> [s EXCEPT !.pc = U(pc)], flow |-> "continue"]
Fault(s, why, pc) ==
  [hart |-> [s EXCEPT !.trap = [why |-> why, epc |-> pc]], flow |-> "trap"]
Exit(s, pc) == [hart |-> [s EXCEPT !.pc = U(pc)], flow |-> "exit"]

\* The operands; the engine indexes the register file directly, x0 included.
A(s, m) == s.regs[m.rs1]
B(s, m) == s.regs[m.rs2]

ArithmeticResult(s, m) ==
  CASE m.op = "Addi" -> U(A(s, m) + m.imm)
    [] m.op = "Add"  -> U(A(s, m) + B(s, m))
    [] m.op = "Sub"  -> U(A(s, m) - B(s, m))
    [] m.op = "Xori" -> A(s, m) ^^ U(m.imm)
    [] m.op = "Ori"  -> A(s, m) | U(m.imm)
    [] m.op = "Andi" -> A(s, m) & U(m.imm)
    [] m.op = "Xor"  -> A(s, m) ^^ B(s, m)
    [] m.op = "Or"   -> A(s, m) | B(s, m)
    [] m.op = "And"  -> A(s, m) & B(s, m)

ShiftResult(s, m) ==
  CASE m.op = "Slli" -> U(Shl(A(s, m), m.shamt % XLEN))
    [] m.op = "Srli" -> Shr(A(s, m), m.shamt % XLEN)
    [] m.op = "Srai" -> U(Shr(S(A(s, m)), m.shamt % XLEN))
    [] m.op = "Sll"  -> U(Shl(A(s, m), B(s, m) % XLEN))
    [] m.op = "Srl"  -> Shr(A(s, m), B(s, m) % XLEN)
    [] m.op = "Sra"  -> U(Shr(S(A(s, m)), B(s, m) % XLEN))

CompareResult(s, m) ==
  Bool(CASE m.op = "Slti"  -> S(A(s, m)) < m.imm
         [] m.op = "Sltiu" -> A(s, m) < U(m.imm)
         [] m.op = "Slt"   -> S(A(s, m)) < S(B(s, m))
         [] m.op = "Sltu"  -> A(s, m) < B(s, m))

UpperResult(m, base) ==
  U(IF m.op = "Lui" THEN m.imm ELSE base + m.off + m.imm)

AluResult(s, m, base) ==
  CASE m.op \in UpperOps -> UpperResult(m, base)
    [] m.op \in {"Slli", "Srli", "Srai", "Sll", "Srl", "Sra"} -> ShiftResult(s, m)
    [] m.op \in {"Slti", "Sltiu", "Slt", "Sltu"} -> CompareResult(s, m)
    [] OTHER -> ArithmeticResult(s, m)

WordResult(s, m) ==
  LET a == s.regs[m.rs1]
      b == s.regs[m.rs2]
  IN  U(CASE m.op = "Addiw" -> SW(a + m.imm)
          [] m.op = "Addw"  -> SW(a + b)
          [] m.op = "Subw"  -> SW(a - b)
          [] m.op = "Slliw" -> SW(Shl(W(a), m.shamt % WLEN))
          [] m.op = "Srliw" -> SW(Shr(W(a), m.shamt % WLEN))
          [] m.op = "Sraiw" -> Shr(SW(a), m.shamt % WLEN)
          [] m.op = "Sllw"  -> SW(Shl(W(a), b % WLEN))
          [] m.op = "Srlw"  -> SW(Shr(W(a), b % WLEN))
          [] m.op = "Sraw"  -> Shr(SW(a), b % WLEN))

MulDivResult(s, m) ==
  LET a == s.regs[m.rs1]
      b == s.regs[m.rs2]
      wraps(x, y, n) == x = MinSigned(n) /\ y = -1
  IN  U(CASE m.op = "Mul"    -> S(a) * S(b)
          [] m.op = "Mulh"   -> Shr(S(a) * S(b), XLEN)
          [] m.op = "Mulhsu" -> Shr(S(a) * b, XLEN)
          [] m.op = "Mulhu"  -> Shr(a * b, XLEN)
          [] m.op = "Div"    -> CASE b = 0 -> -1
                                  [] wraps(S(a), S(b), XLEN) -> MinSigned(XLEN)
                                  [] OTHER -> TruncDiv(S(a), S(b))
          [] m.op = "Divu"   -> IF b = 0 THEN -1 ELSE a \div b
          [] m.op = "Rem"    -> CASE b = 0 -> a
                                  [] wraps(S(a), S(b), XLEN) -> 0
                                  [] OTHER -> TruncRem(S(a), S(b))
          [] m.op = "Remu"   -> IF b = 0 THEN a ELSE a % b
          [] m.op = "Mulw"   -> SW(SW(a) * SW(b))
          [] m.op = "Divw"   -> CASE SW(b) = 0 -> -1
                                  [] wraps(SW(a), SW(b), WLEN) -> MinSigned(WLEN)
                                  [] OTHER -> TruncDiv(SW(a), SW(b))
          [] m.op = "Divuw"  -> IF W(b) = 0 THEN -1 ELSE SW(W(a) \div W(b))
          [] m.op = "Remw"   -> CASE SW(b) = 0 -> SW(a)
                                  [] wraps(SW(a), SW(b), WLEN) -> 0
                                  [] OTHER -> TruncRem(SW(a), SW(b))
          [] m.op = "Remuw"  -> SW(IF W(b) = 0 THEN W(a) ELSE W(a) % W(b)))

\* Mutant: a fault is reported at the start of the block.
LoadFaultsAtBlock(s, m, base) ==
  LET addr  == U(s.regs[m.rs1] + m.imm)
      width == CASE m.op \in {"Lb", "Lbu"} -> 1 [] m.op \in {"Lh", "Lhu"} -> 2
                 [] m.op \in {"Lw", "Lwu"} -> 4 [] m.op = "Ld" -> 8
      fault == AccessFault(addr, width, "Load")
  IN  IF fault # None THEN Fault(s, fault, base)
      ELSE GoOn(WriteReg(s, m.rd, BusRead(s.mem, addr, width)))

RunLoad(s, m, base) ==
  LET addr  == U(s.regs[m.rs1] + m.imm)
      width == CASE m.op \in {"Lb", "Lbu"} -> 1
                 [] m.op \in {"Lh", "Lhu"} -> 2
                 [] m.op \in {"Lw", "Lwu"} -> 4
                 [] m.op = "Ld" -> 8
      fault == AccessFault(addr, width, "Load")
      raw   == BusRead(s.mem, addr, width)
      val   == IF m.op \in {"Lb", "Lh", "Lw"} THEN U(Sext(raw, BLEN * width))
               ELSE raw
  IN  IF fault # None THEN Fault(s, fault, U(base + m.off))
      ELSE GoOn(WriteReg(s, m.rd, val))

\* Here the reservation is cleared after the write, so not by one that traps.
RunStore(s, m, base) ==
  LET addr  == U(s.regs[m.rs1] + m.imm)
      width == CASE m.op = "Sb" -> 1 [] m.op = "Sh" -> 2
                 [] m.op = "Sw" -> 4 [] m.op = "Sd" -> 8
      fault == AccessFault(addr, width, "Store")
      wrote == [s EXCEPT !.mem = BusWrite(@, addr, width, s.regs[m.rs2])]
  IN  IF fault # None THEN Fault(s, fault, U(base + m.off))
      ELSE GoOn(ClearReservationIfConflict(wrote, addr))

RunControl(s, m, base) ==
  LET pc == base + m.off
      a  == s.regs[m.rs1]
      b  == s.regs[m.rs2]
      target == U(a + m.imm)
      taken == CASE m.op = "Beq"  -> a = b
                 [] m.op = "Bne"  -> a # b
                 [] m.op = "Blt"  -> S(a) < S(b)
                 [] m.op = "Bge"  -> S(a) >= S(b)
                 [] m.op = "Bltu" -> a < b
                 [] m.op = "Bgeu" -> a >= b
  IN  CASE m.op = "Jal"  -> Jump(WriteReg(s, m.rd, U(pc + m.len)), pc + m.imm)
        [] m.op = "Jalr" -> Jump(WriteReg(s, m.rd, U(pc + m.len)),
                                 target - (target % 2))
        [] OTHER -> Jump(s, pc + (IF taken THEN m.imm ELSE m.len))

\* One turn of the loop of execute_block_inner.
RunMicroOp(s, m, base) ==
  CASE m.op \in RegImmOps \cup RegRegOps \cup UpperOps ->
         GoOn(WriteReg(s, m.rd, AluResult(s, m, base)))
    [] m.op \in WordOps   -> GoOn(WriteReg(s, m.rd, WordResult(s, m)))
    [] m.op \in MulDivOps -> GoOn(WriteReg(s, m.rd, MulDivResult(s, m)))
    [] m.op \in LoadOps    -> RunLoad(s, m, base)
    [] m.op \in StoreOps   -> RunStore(s, m, base)
    [] m.op \in ControlOps -> RunControl(s, m, base)
    [] m.op \in {"Wfi", "Fence"} -> GoOn(s)
    [] OTHER -> Exit(s, base + m.off)
=============================================================================
