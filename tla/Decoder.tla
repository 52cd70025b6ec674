------------------------------- MODULE Decoder -------------------------------
(***************************************************************************)
(* The instruction decoder (src/riscv-vm/src/engine/decoder.rs).  A 32-bit *)
(* instruction word is the record of its R-type fields, since TLC's        *)
(* integers are 32 bits wide and signed; a 16-bit instruction is a number. *)
(* decode turns a word into an Op; expand_compressed turns a 16-bit        *)
(* instruction into the word it stands for.  Immediates are signed         *)
(* integers, the U-type one in units of 4096.                              *)
(***************************************************************************)
EXTENDS Integers, Sequences

\* The n bits of x from bit lo upwards.
Bits(x, lo, n) == (x \div 2^lo) % 2^n

\* The lowest n bits of value, read as a two's complement number.
Sext(value, n) ==
  LET v == value % 2^n IN IF v >= 2^(n - 1) THEN v - 2^n ELSE v

Illegal == [kind |-> "Illegal"]

-----------------------------------------------------------------------------
(* The immediates of decode, from the fields they are scattered over.      *)

ImmI(w) == Sext(w.funct7 * 32 + w.rs2, 12)

ImmS(w) == Sext(w.funct7 * 32 + w.rd, 12)

ImmB(w) ==
  Sext(Bits(w.funct7, 6, 1) * 2^12 + Bits(w.rd, 0, 1) * 2^11
         + Bits(w.funct7, 0, 6) * 2^5 + Bits(w.rd, 1, 4) * 2, 13)

ImmU(w) == Sext(w.funct7 * 2^13 + w.rs2 * 2^8 + w.rs1 * 2^3 + w.funct3, 20)

ImmJ(w) ==
  Sext(Bits(w.funct7, 6, 1) * 2^20 + (w.rs1 * 8 + w.funct3) * 2^12
         + Bits(w.rs2, 0, 1) * 2^11
         + (Bits(w.funct7, 0, 6) * 2^4 + Bits(w.rs2, 1, 4)) * 2, 21)

\* Words whose operands are an rs1 and an I-immediate; funct7 is kept for the
\* shifts.
IType(kind, w) ==
  [kind |-> kind, rd |-> w.rd, rs1 |-> w.rs1, imm |-> ImmI(w),
   funct3 |-> w.funct3, funct7 |-> w.funct7]

RType(kind, w) ==
  [kind |-> kind, rd |-> w.rd, rs1 |-> w.rs1, rs2 |-> w.rs2,
   funct3 |-> w.funct3, funct7 |-> w.funct7]

Decode(w) ==
  CASE w.opcode = 55  -> [kind |-> "Lui",   rd |-> w.rd, imm |-> ImmU(w)]
    [] w.opcode = 23  -> [kind |-> "Auipc", rd |-> w.rd, imm |-> ImmU(w)]
    [] w.opcode = 111 -> [kind |-> "Jal",   rd |-> w.rd, imm |-> ImmJ(w)]
    [] w.opcode = 103 -> [kind |-> "Jalr",  rd |-> w.rd, rs1 |-> w.rs1,
                          imm |-> ImmI(w)]
    [] w.opcode = 99  -> [kind |-> "Branch", rs1 |-> w.rs1, rs2 |-> w.rs2,
                          imm |-> ImmB(w), funct3 |-> w.funct3]
    [] w.opcode = 3   -> [kind |-> "Load", rd |-> w.rd, rs1 |-> w.rs1,
                          imm |-> ImmI(w), funct3 |-> w.funct3]
    [] w.opcode = 35  -> [kind |-> "Store", rs1 |-> w.rs1, rs2 |-> w.rs2,
                          imm |-> ImmS(w), funct3 |-> w.funct3]
    [] w.opcode = 19  -> IType("OpImm", w)
    [] w.opcode = 51  -> RType("Op", w)
    [] w.opcode = 27  -> IType("OpImm32", w)
    [] w.opcode = 59  -> RType("Op32", w)
    [] w.opcode = 47  -> [kind |-> "Amo", rd |-> w.rd, rs1 |-> w.rs1,
                          rs2 |-> w.rs2, funct3 |-> w.funct3,
                          funct5 |-> w.funct7 \div 4]
    [] w.opcode = 115 -> [kind |-> "System", rd |-> w.rd, rs1 |-> w.rs1,
                          funct3 |-> w.funct3,
                          imm |-> w.funct7 * 32 + w.rs2]
    [] w.opcode = 15  -> [kind |-> "Fence"]
    [] OTHER          -> Illegal

-----------------------------------------------------------------------------
(* The encoders the expansion of compressed instructions is built from.    *)

EncodeR(funct7, rs2, rs1, funct3, rd, opcode) ==
  [opcode |-> opcode, rd |-> rd, funct3 |-> funct3, rs1 |-> rs1,
   rs2 |-> rs2, funct7 |-> funct7]

EncodeI(imm, rs1, funct3, rd, opcode) ==
  LET imm12 == imm % 2^12
  IN  EncodeR(imm12 \div 32, imm12 % 32, rs1, funct3, rd, opcode)

\* imm counts units of 4096, as ImmU does.
EncodeU(imm, rd, opcode) ==
  LET imm20 == imm % 2^20
  IN  EncodeR(Bits(imm20, 13, 7), Bits(imm20, 8, 5), Bits(imm20, 3, 5),
              Bits(imm20, 0, 3), rd, opcode)

EncodeS(imm, rs2, rs1, funct3, opcode) ==
  LET imm12 == imm % 2^12
  IN  EncodeR(Bits(imm12, 5, 7), rs2, rs1, funct3, Bits(imm12, 0, 5), opcode)

EncodeJ(imm, rd) ==
  EncodeR(Bits(imm, 20, 1) * 64 + Bits(imm, 5, 6),
          Bits(imm, 1, 4) * 2 + Bits(imm, 11, 1),
          Bits(imm, 15, 5), Bits(imm, 12, 3), rd, 111)

EncodeB(imm, rs2, rs1, funct3, opcode) ==
  LET imm13 == imm % 2^13
  IN  EncodeR(Bits(imm13, 12, 1) * 64 + Bits(imm13, 5, 6), rs2, rs1, funct3,
              Bits(imm13, 1, 4) * 2 + Bits(imm13, 11, 1), opcode)

-----------------------------------------------------------------------------
(* Expansion of the compressed (C) extension: quadrants 0, 1 and 2.        *)

Rd(c)  == Bits(c, 7, 5)
Rs2(c) == Bits(c, 2, 5)

\* The three-bit register fields name x8 to x15.
RdPrime(c)  == 8 + Bits(c, 2, 3)
Rs1Prime(c) == 8 + Bits(c, 7, 3)

\* The six-bit immediate of C.ADDI, C.LI, the shifts and others.
Imm6(c) == Bits(c, 2, 5) + Bits(c, 12, 1) * 32

UimmW(c) == Bits(c, 6, 1) * 2^2 + Bits(c, 10, 3) * 2^3 + Bits(c, 5, 1) * 2^6

UimmD(c) == Bits(c, 10, 3) * 2^3 + Bits(c, 5, 2) * 2^6

ExpandQ0(c) ==
  LET nzuimm == Bits(c, 6, 1) * 2^2 + Bits(c, 5, 1) * 2^3
                  + Bits(c, 11, 2) * 2^4 + Bits(c, 7, 4) * 2^6
      funct3 == Bits(c, 13, 3)
  IN  CASE funct3 = 0 /\ nzuimm # 0 -> EncodeI(nzuimm, 2, 0, RdPrime(c), 19)
        [] funct3 = 2 -> EncodeI(UimmW(c), Rs1Prime(c), 2, RdPrime(c), 3)
        [] funct3 = 3 -> EncodeI(UimmD(c), Rs1Prime(c), 3, RdPrime(c), 3)
        [] funct3 = 6 -> EncodeS(UimmW(c), RdPrime(c), Rs1Prime(c), 2, 35)
        [] funct3 = 7 -> EncodeS(UimmD(c), RdPrime(c), Rs1Prime(c), 3, 35)
        [] OTHER      -> Illegal

\* C.ADDI16SP and C.LUI.
ExpandLui(c) ==
  LET nz == Bits(c, 12, 1) * 2^9 + Bits(c, 3, 2) * 2^7 + Bits(c, 5, 1) * 2^6
              + Bits(c, 2, 1) * 2^5 + Bits(c, 6, 1) * 2^4
  IN  CASE Rd(c) = 2 /\ nz # 0 -> EncodeI(Sext(nz, 10), 2, 0, 2, 19)
        [] Rd(c) \notin {0, 2} /\ Imm6(c) # 0 ->
             EncodeU(Sext(Imm6(c), 6), Rd(c), 55)
        [] OTHER -> Illegal

\* C.SRLI, C.SRAI, C.ANDI and the register-register group.
ExpandAlu(c) ==
  LET r      == Rs1Prime(c)
      funct2 == Bits(c, 5, 2)
      op     == Bits(c, 10, 2)
  IN  CASE op = 0 -> EncodeI(Imm6(c), r, 5, r, 19)
        [] op = 1 -> EncodeI(32 * 64 + Imm6(c), r, 5, r, 19)
        [] op = 2 -> EncodeI(Sext(Imm6(c), 6), r, 7, r, 19)
        [] op = 3 /\ Bits(c, 12, 1) = 0 ->
             EncodeR(IF funct2 = 0 THEN 32 ELSE 0, RdPrime(c), r,
                     <<0, 4, 6, 7>>[funct2 + 1], r, 51)
        [] op = 3 /\ Bits(c, 12, 1) = 1 /\ funct2 \in {0, 1} ->
             EncodeR(IF funct2 = 0 THEN 32 ELSE 0, RdPrime(c), r, 0, r, 59)
        [] OTHER -> Illegal

\* Mutant: bits 6 and 7 of C.J's offset are not swapped back.
JumpOffsetInOrder(c) ==
  Sext(Bits(c, 12, 1) * 2^11 + Bits(c, 11, 1) * 2^4 + Bits(c, 9, 2) * 2^8
         + Bits(c, 8, 1) * 2^10 + Bits(c, 6, 2) * 2^6
         + Bits(c, 3, 3) * 2 + Bits(c, 2, 1) * 2^5, 12)

JumpOffset(c) ==
  Sext(Bits(c, 12, 1) * 2^11 + Bits(c, 11, 1) * 2^4 + Bits(c, 9, 2) * 2^8
         + Bits(c, 8, 1) * 2^10 + Bits(c, 7, 1) * 2^6 + Bits(c, 6, 1) * 2^7
         + Bits(c, 3, 3) * 2 + Bits(c, 2, 1) * 2^5, 12)

BranchOffset(c) ==
  Sext(Bits(c, 12, 1) * 2^8 + Bits(c, 10, 2) * 2^3 + Bits(c, 5, 2) * 2^6
         + Bits(c, 3, 2) * 2 + Bits(c, 2, 1) * 2^5, 9)

ExpandQ1(c) ==
  LET funct3 == Bits(c, 13, 3)
      imm    == Sext(Imm6(c), 6)
  IN  CASE funct3 = 0 /\ Rd(c) # 0 -> EncodeI(imm, Rd(c), 0, Rd(c), 19)
        [] funct3 = 0 /\ Rd(c) = 0 /\ imm = 0 -> EncodeI(0, 0, 0, 0, 19)
        [] funct3 = 1 /\ Rd(c) # 0 -> EncodeI(imm, Rd(c), 0, Rd(c), 27)
        [] funct3 = 2 /\ Rd(c) # 0 -> EncodeI(imm, 0, 0, Rd(c), 19)
        [] funct3 = 3 -> ExpandLui(c)
        [] funct3 = 4 -> ExpandAlu(c)
        [] funct3 = 5 -> EncodeJ(JumpOffset(c), 0)
        [] funct3 = 6 -> EncodeB(BranchOffset(c), 0, Rs1Prime(c), 0, 99)
        [] funct3 = 7 -> EncodeB(BranchOffset(c), 0, Rs1Prime(c), 1, 99)
        [] OTHER -> Illegal

\* C.JR, C.MV, C.EBREAK, C.JALR and C.ADD.
ExpandJr(c) ==
  LET rd == Rd(c) rs2 == Rs2(c) bit12 == Bits(c, 12, 1)
  IN  CASE bit12 = 0 /\ rs2 = 0 /\ rd # 0 -> EncodeI(0, rd, 0, 0, 103)
        [] bit12 = 0 /\ rs2 # 0 /\ rd # 0 -> EncodeR(0, rs2, 0, 0, rd, 51)
        [] bit12 = 1 /\ rs2 = 0 /\ rd = 0 -> EncodeR(0, 1, 0, 0, 0, 115)
        [] bit12 = 1 /\ rs2 = 0 /\ rd # 0 -> EncodeI(0, rd, 0, 1, 103)
        [] bit12 = 1 /\ rs2 # 0 /\ rd # 0 -> EncodeR(0, rs2, rd, 0, rd, 51)
        [] OTHER -> Illegal

ExpandQ2(c) ==
  LET funct3 == Bits(c, 13, 3)
      lwsp == Bits(c, 4, 3) * 2^2 + Bits(c, 12, 1) * 2^5 + Bits(c, 2, 2) * 2^6
      ldsp == Bits(c, 12, 1) * 2^5 + Bits(c, 5, 2) * 2^3 + Bits(c, 2, 3) * 2^6
      swsp == Bits(c, 9, 4) * 2^2 + Bits(c, 7, 2) * 2^6
      sdsp == Bits(c, 10, 3) * 2^3 + Bits(c, 7, 3) * 2^6
  IN  CASE funct3 = 0 /\ Rd(c) # 0 -> EncodeI(Imm6(c), Rd(c), 1, Rd(c), 19)
        [] funct3 = 2 /\ Rd(c) # 0 -> EncodeI(lwsp, 2, 2, Rd(c), 3)
        [] funct3 = 3 /\ Rd(c) # 0 -> EncodeI(ldsp, 2, 3, Rd(c), 3)
        [] funct3 = 4 -> ExpandJr(c)
        [] funct3 = 6 -> EncodeS(swsp, Rs2(c), 2, 2, 35)
        [] funct3 = 7 -> EncodeS(sdsp, Rs2(c), 2, 3, 35)
        [] OTHER -> Illegal

ExpandCompressed(c) ==
  CASE Bits(c, 0, 2) = 0 -> ExpandQ0(c)
    [] Bits(c, 0, 2) = 1 -> ExpandQ1(c)
    [] Bits(c, 0, 2) = 2 -> ExpandQ2(c)
    [] OTHER -> Illegal

\* A 16-bit instruction as the hart sees it: expanded, then decoded.
DecodeCompressed(c) ==
  LET w == ExpandCompressed(c) IN IF w = Illegal THEN Illegal ELSE Decode(w)
=============================================================================
