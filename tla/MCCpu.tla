------------------------------- MODULE MCCpu --------------------------------
(***************************************************************************)
(* The harts for TLC, one machine in each behaviour: the engine on a       *)
(* program, the decoder on an instruction, the traps of one hart, two      *)
(* harts on a doubleword, two harts on the page tables.                    *)
(***************************************************************************)
EXTENDS BlockEngine, Privilege, Atomics, Mmu

CONSTANTS LastHalf   \* the 16-bit instructions swept: 0 .. LastHalf

VARIABLES machine,   \* the one that runs
          half       \* the 16-bit instruction of the decoder; 0 with the others

iVars == <<hart, prog, useBlocks, cache, generation, block, half>>
vars == <<machine, iVars, pVars, aVars, mVars>>

-----------------------------------------------------------------------------
(* The compressed instructions as the tables of the C extension lay them   *)
(* out, as a reference for expand_compressed and decode: which bits of the *)
(* instruction are which bits of the immediate, and which instruction is   *)
(* meant.  Encodings the tables reserve or give to hints are left open.    *)

\* The immediate whose bits, named by dests, stand from bit hi downwards.
RECURSIVE Scatter(_, _, _)
Scatter(c, hi, dests) ==
  IF dests = <<>> THEN 0
  ELSE Bits(c, hi, 1) * 2^Head(dests) + Scatter(c, hi - 1, Tail(dests))

\* Bits 12:10 and 6:5; bit 12 and bits 6:2; bits 12:7; bits 12:10 and 6:2.
Split3(c, a, b) == Scatter(c, 12, a) + Scatter(c, 6, b)

ImmediateOp(name, rd, rs1, imm) == [op |-> name, rd |-> rd, rs1 |-> rs1, imm |-> imm]
ShiftOp(name, rd, shamt) == [op |-> name, rd |-> rd, rs1 |-> rd, shamt |-> shamt]
RegisterOp(name, rd, rs1, rs2) ==
  [op |-> name, rd |-> rd, rs1 |-> rs1, rs2 |-> rs2]
LoadOp(name, rd, rs1, imm) ==
  [op |-> name, rd |-> rd, rs1 |-> rs1, imm |-> imm, off |-> 0]
StoreOp(name, rs1, rs2, imm) ==
  [op |-> name, rs1 |-> rs1, rs2 |-> rs2, imm |-> imm, off |-> 0]
JumpOp(rd, imm) == [op |-> "Jal", rd |-> rd, imm |-> imm, off |-> 0, len |-> 2]
JumpRegisterOp(rd, rs1) ==
  [op |-> "Jalr", rd |-> rd, rs1 |-> rs1, imm |-> 0, off |-> 0, len |-> 2]
BranchOp(name, rs1, imm) ==
  [op |-> name, rs1 |-> rs1, rs2 |-> 0, imm |-> imm, off |-> 0, len |-> 2]

Quadrant0(c) ==
  LET x == 8 + Bits(c, 2, 3)
      y == 8 + Bits(c, 7, 3)
      spn == Scatter(c, 12, <<5, 4, 9, 8, 7, 6, 2, 3>>)
      w == Split3(c, <<5, 4, 3>>, <<2, 6>>)
      d == Split3(c, <<5, 4, 3>>, <<7, 6>>)
      f == Bits(c, 13, 3)
  IN  CASE f = 0 /\ spn # 0 -> {ImmediateOp("Addi", x, 2, spn)}
        [] f = 2 -> {LoadOp("Lw", x, y, w)}
        [] f = 3 -> {LoadOp("Ld", x, y, d)}
        [] f = 6 -> {StoreOp("Sw", y, x, w)}
        [] f = 7 -> {StoreOp("Sd", y, x, d)}
        [] OTHER -> {}

Arithmetic(c) ==
  LET x == 8 + Bits(c, 2, 3)
      y == 8 + Bits(c, 7, 3)
      imm == Split3(c, <<5>>, <<4, 3, 2, 1, 0>>)
      which == <<Bits(c, 10, 2), Bits(c, 12, 1), Bits(c, 5, 2)>>
      names == <<3, 0, 0>> :> "Sub" @@ <<3, 0, 1>> :> "Xor" @@ <<3, 0, 2>> :> "Or"
                 @@ <<3, 0, 3>> :> "And" @@ <<3, 1, 0>> :> "Subw"
                 @@ <<3, 1, 1>> :> "Addw"
  IN  CASE which[1] = 0 -> {ShiftOp("Srli", y, imm)}
        [] which[1] = 1 -> {ShiftOp("Srai", y, imm)}
        [] which[1] = 2 -> {ImmediateOp("Andi", y, y, Sext(imm, 6))}
        [] which \in DOMAIN names -> {RegisterOp(names[which], y, y, x)}
        [] OTHER -> {}

Quadrant1(c) ==
  LET r == Bits(c, 7, 5)
      imm == Sext(Split3(c, <<5>>, <<4, 3, 2, 1, 0>>), 6)
      sp  == Sext(Split3(c, <<9>>, <<4, 6, 8, 7, 5>>), 10)
      j   == Sext(Scatter(c, 12, <<11, 4, 9, 8, 10, 6, 7, 3, 2, 1, 5>>), 12)
      b   == Sext(Split3(c, <<8, 4, 3>>, <<7, 6, 2, 1, 5>>), 9)
      y == 8 + Bits(c, 7, 3)
      f == Bits(c, 13, 3)
  IN  CASE f = 0 /\ (r # 0 <=> imm # 0) -> {ImmediateOp("Addi", r, r, imm)}
        [] f = 1 /\ r # 0 -> {ImmediateOp("Addiw", r, r, imm)}
        [] f = 2 /\ r # 0 -> {ImmediateOp("Addi", r, 0, imm)}
        [] f = 3 /\ r = 2 /\ sp # 0 -> {ImmediateOp("Addi", 2, 2, sp)}
        [] f = 3 /\ r \notin {0, 2} /\ imm # 0 ->
             {[op |-> "Lui", rd |-> r, imm |-> imm]}
        [] f = 4 -> Arithmetic(c)
        [] f = 5 -> {JumpOp(0, j)}
        [] f = 6 -> {BranchOp("Beq", y, b)}
        [] f = 7 -> {BranchOp("Bne", y, b)}
        [] OTHER -> {}

Quadrant2(c) ==
  LET r == Bits(c, 7, 5)
      t == Bits(c, 2, 5)
      bit == Bits(c, 12, 1)
      shamt == Split3(c, <<5>>, <<4, 3, 2, 1, 0>>)
      lw == Split3(c, <<5>>, <<4, 3, 2, 7, 6>>)
      ld == Split3(c, <<5>>, <<4, 3, 8, 7, 6>>)
      sw == Scatter(c, 12, <<5, 4, 3, 2, 7, 6>>)
      sd == Scatter(c, 12, <<5, 4, 3, 8, 7, 6>>)
      f == Bits(c, 13, 3)
  IN  CASE f = 0 /\ r # 0 -> {ShiftOp("Slli", r, shamt)}
        [] f = 2 /\ r # 0 -> {LoadOp("Lw", r, 2, lw)}
        [] f = 3 /\ r # 0 -> {LoadOp("Ld", r, 2, ld)}
        [] f = 4 /\ t = 0 /\ r # 0 -> {JumpRegisterOp(bit, r)}
        [] f = 4 /\ t = 0 /\ r = 0 /\ bit = 1 -> {[op |-> "Ebreak", off |-> 0]}
        [] f = 4 /\ t # 0 /\ r # 0 ->
             {RegisterOp("Add", r, IF bit = 1 THEN r ELSE 0, t)}
        [] f = 6 -> {StoreOp("Sw", 2, t, sw)}
        [] f = 7 -> {StoreOp("Sd", 2, t, sd)}
        [] OTHER -> {}

Means(c) ==
  CASE Bits(c, 0, 2) = 0 -> Quadrant0(c)
    [] Bits(c, 0, 2) = 1 -> Quadrant1(c)
    [] Bits(c, 0, 2) = 2 -> Quadrant2(c)
    [] OTHER -> {}

DecodesAsSpecified(c) ==
  \A m \in Means(c) :
    LET op == DecodeCompressed(c)
    IN  op # Illegal /\ Transcode(op, 0, 2) = m

\* The encodings of C.SRAI.
MisreadShifts ==
  {c \in 32768 .. 40959 : Bits(c, 0, 2) = 1 /\ Bits(c, 10, 2) = 1}

-----------------------------------------------------------------------------
(* The engine: every instruction alone, and programs.                      *)

Registers == 0 .. 3
Values    == {0, 1, 3, 8, 127, 128, 200, 255}
DramBytes == 0 .. 15
NoPage    == {24, 25, 26, 27, 28, 29, 30, 31} \cup 112 .. 127
Entry     == 64

Memory == [a \in DramBytes |-> IF a \in {1, 2, 5, 7, 8, 11, 15} THEN 1 ELSE 0]

Hart(a, b) ==
  [regs |-> 0 :> 0 @@ 1 :> a @@ 2 :> b @@ 3 :> 9, mem |-> Memory, pc |-> Entry,
   reservation |-> None, trap |-> None]

Code(pc, op, len) == pc :> [op |-> op, len |-> len]

-----------------------------------------------------------------------------
(* Every instruction alone.                                                *)

R(f7, f3, opcode) == Decode(EncodeR(f7, 2, 1, f3, 3, opcode))
I(imm, f3, opcode) == Decode(EncodeI(imm, 1, f3, 3, opcode))

ValueOps ==
  {R(f7, f3, op) : f7 \in {0, 1, 2, 32}, f3 \in 0 .. 7, op \in {51, 59}}
    \cup {I(imm, f3, op) : imm \in {-1, 3, 130, 1026}, f3 \in 0 .. 7,
                           op \in {19, 27}}
    \cup {Decode(EncodeB(imm, 2, 1, f3, 99)) : imm \in {-4, 8}, f3 \in 0 .. 7}
    \cup {Decode(EncodeU(5, 3, op)) : op \in {23, 55}}
    \cup {Decode(EncodeR(32, 2, 1, 0, 0, 51)), Decode(EncodeR(0, 0, 0, 0, 0, 127)),
          Decode(EncodeJ(-6, 3)), I(2, 0, 103), I(0, 0, 15)}

MemoryOps ==
  {I(imm, f3, 3) : imm \in {-1, 0, 4}, f3 \in 0 .. 7}
    \cup {Decode(EncodeS(imm, 2, 1, f3, 35)) : imm \in {-1, 0, 4}, f3 \in 0 .. 7}
    \cup {Decode(EncodeR(f5 * 4, 2, 1, f3, 3, 47)) :
            f5 \in {0, 1, 2, 3, 4, 8, 12, 16, 20, 24, 28, 31}, f3 \in {0, 2, 3}}

SystemWords ==
  {Decode(EncodeI(imm, 0, f3, 0, 115)) :
     imm \in {0, 1, 258, 261, 288, 768, 770}, f3 \in {0, 1, 4}}

Alone ==
  {<<Code(Entry, op, 4), a, b>> : op \in ValueOps, a \in Values, b \in Values}
    \cup {<<Code(Entry, op, 4), a, b>> :
            op \in MemoryOps, a \in {0, 3, 8, 12, 16, 28}, b \in {1, 214}}
    \cup {<<Code(Entry, op, 4), 1, 1>> : op \in SystemWords}

-----------------------------------------------------------------------------
(* Programs.                                                               *)

Addi(rd, rs, imm) == Decode(EncodeI(imm, rs, 0, rd, 19))
Bne(rs1, rs2, imm) == Decode(EncodeB(imm, rs2, rs1, 1, 99))
Lw(rd, rs, imm) == Decode(EncodeI(imm, rs, 2, rd, 3))
Sw(rs2, rs1, imm) == Decode(EncodeS(imm, rs2, rs1, 2, 35))
Ecall == Decode(EncodeI(0, 0, 0, 0, 115))

\* A loop over memory, its body longer than a block and across a page end.
Loop ==
  Code(64, Addi(3, 0, 0), 2) @@ Code(66, Lw(2, 1, -4), 4) @@ Code(70, Addi(2, 2, 3), 4)
    @@ Code(74, Sw(2, 1, -4), 2) @@ Code(76, Addi(1, 1, -4), 2)
    @@ Code(78, Addi(3, 3, 1), 4) @@ Code(82, Bne(1, 0, -18), 2) @@ Code(84, Ecall, 4)

\* LR, SC, a store between two of them, and the SC's retry.
Reserve ==
  Code(64, Decode(EncodeR(8, 0, 1, 2, 3, 47)), 4)
    @@ Code(68, Decode(EncodeR(12, 2, 1, 2, 3, 47)), 4)
    @@ Code(72, Decode(EncodeR(8, 0, 1, 2, 3, 47)), 4)
    @@ Code(76, Sw(2, 1, 4), 2)
    @@ Code(78, Decode(EncodeR(12, 2, 1, 2, 3, 47)), 4)
    @@ Code(82, Bne(3, 0, -2), 2) @@ Code(84, Ecall, 4)

\* Four blocks that jump to each other, with a computed jump into a block.
Maze ==
  Code(64, Addi(1, 1, -1), 2) @@ Code(66, Bne(1, 0, 14), 4) @@ Code(70, Ecall, 4)
    @@ Code(80, Addi(2, 2, 2), 4)
    @@ Code(84, Decode(EncodeI(96, 0, 0, 3, 103)), 4)
    @@ Code(96, Addi(2, 2, 1), 2) @@ Code(98, Addi(2, 2, 1), 2)
    @@ Code(100, Bne(3, 1, 4), 4) @@ Code(104, Decode(EncodeJ(-40, 3)), 4)

\* Straight into a page that is not mapped, with its last word across the end.
Cliff == Code(64, Decode(EncodeJ(40, 0)), 4) @@ Code(104, Addi(1, 1, 1), 4)
           @@ Code(108, Addi(1, 1, 1), 2) @@ Code(110, Lw(2, 0, 0), 4)

Gap == Code(64, Addi(1, 1, 5), 2) @@ Code(66, Addi(2, 2, 7), 4)
         @@ Code(70, Illegal, 2)

Programs ==
  {<<Loop, 12, 5>>, <<Loop, 6, 5>>, <<Loop, 28, 5>>, <<Reserve, 0, 7>>,
   <<Reserve, 8, 7>>, <<Maze, 3, 0>>, <<Cliff, 0, 0>>, <<Gap, 0, 0>>}

-----------------------------------------------------------------------------
\* The engine has stopped at an illegal instruction.
EngineAtRest ==
  /\ hart = Trapped(Hart(0, 0), IllegalInstruction)
  /\ prog = Code(Entry, Illegal, 2) /\ useBlocks = FALSE

EngineInit ==
  \/ \E p \in Programs \cup Alone :
       hart = Hart(p[2], p[3]) /\ prog = p[1] /\ useBlocks = TRUE
  \/ \E p \in Programs :
       hart = Hart(p[2], p[3]) /\ prog = p[1] /\ useBlocks = FALSE


-----------------------------------------------------------------------------
Off == [sie |-> FALSE, spie |-> FALSE, spp |-> FALSE,
        mie |-> FALSE, mpie |-> FALSE, mpp |-> 0]

MCStatuses == {[Off EXCEPT !.sie = TRUE, !.spp = TRUE, !.mie = TRUE, !.mpp = 2]}
MCDelegations == {[i |-> {1, 5, 9}, e |-> {8, 13}], [i |-> {}, e |-> {}]}
MCEnables == {{1, 3, 7}}

PrivilegeInit ==
  /\ cpu = [mode |-> "M", status |-> [Off EXCEPT !.mpp = 1, !.mpie = TRUE],
            ie |-> {1, 5, 7, 9}, ip |-> {}, mideleg |-> {1, 5, 9}, medeleg |-> {8, 13},
            vectored |-> TRUE, pc |-> 0, mepc |-> 0, sepc |-> 0]
  /\ clock \in {[mtime |-> 0, mtimecmp |-> 1, msip |-> FALSE,
                 sstc |-> sstc, stimecmp |-> 1, wired |-> IF sstc THEN {9} ELSE {3}] :
                sstc \in BOOLEAN}
  /\ PrivilegeStarts

-----------------------------------------------------------------------------
Amo(op, val, part) == [kind |-> "amo", op |-> op, val |-> val, part |-> part]
Plain(kind, val, part) == [kind |-> kind, op |-> "none", val |-> val, part |-> part]

AllOps == {"swap", "add", "and", "or", "xor", "min", "max", "minu", "maxu"}

Same(ops) == [h \in AtomicHarts |-> ops]

\* One hart does ops, the others only others.
Mainly(ops, others) ==
  [h \in AtomicHarts |-> IF h = CHOOSE x \in AtomicHarts : TRUE THEN ops ELSE others]

\* Builds and operations for which the code is atomic.
MCMixes ==
  {\* native: AMOs of every width and loads, or plain accesses, on every hart
   [build |-> "native",
    ops |-> Same({Amo(op, 1, p) : op \in {"swap", "add"}, p \in {"lo", "both"}}
                   \cup {Amo(op, 14, "both") : op \in {"xor", "maxu", "min"}}
                   \cup {Amo("max", 14, "hi"), Plain("load", 0, "both")})],
   [build |-> "native",
    ops |-> Same({Plain("load", 0, p) : p \in {"lo", "both"}}
                   \cup {Plain("store", 6, p) : p \in {"hi", "both"}})],
   \* native: LR and SC of one hart, another that loads
   [build |-> "native",
    ops |-> Mainly({Plain("lr", 0, "lo"), Plain("sc", 1, "lo"), Plain("store", 2, "both")},
                   {Plain("load", 0, "both")})],
   \* WASM: 32-bit accesses of every kind on every hart
   [build |-> "wasm",
    ops |-> Same({Amo(op, 3, "lo") : op \in AllOps}
                   \cup {Plain("load", 0, "lo"), Plain("store", 2, "lo"),
                         Plain("sc", 1, "lo"), Amo("minu", 13, "hi")})],
   \* WASM: 64-bit accesses of one hart, another that stores the high word
   [build |-> "wasm",
    ops |-> Mainly({Amo("max", 9, "both"), Amo("minu", 6, "both")},
                   {Plain("store", 1, "hi")})],
   [build |-> "wasm",
    ops |-> Mainly({Amo(op, 6, "both") : op \in AllOps}
                     \cup {Plain(k, 9, "both") : k \in {"load", "store", "lr", "sc"}}, {})],
   \* WASM outside the DRAM: one hart
   [build |-> "mmio", ops |-> Mainly({Amo("or", 5, "both"), Amo("and", 3, "lo")}, {})]}

AtomicsInit ==
  /\ mix \in Mixes
  /\ dword = Pair(0)
  /\ amoLock = Nobody
  /\ reserved = [h \in AtomicHarts |-> FALSE]
  /\ at = [h \in AtomicHarts |-> Idle]
  /\ done = [h \in AtomicHarts |-> <<>>]

-----------------------------------------------------------------------------
Pte(bits, ppn) == [bits |-> bits, ppn |-> ppn]

\* Two levels of two entries.  Pages 0 and 1 hold tables, page 0 is the root:
\* a superpage, and a table with one page of the user's.
Tables == (<<0, 0>> :> Pte({"V", "R", "W", "G"}, 2)) @@ (<<0, 1>> :> Pte({"V"}, 1))
            @@ (<<1, 0>> :> Pte({}, 0)) @@ (<<1, 1>> :> Pte({"V", "R", "W", "U"}, 5))

\* The first hart does everything, the second one shares a page with it.
Busy == CHOOSE h \in MmuHarts : TRUE
Space(asid, root) == [sv |-> TRUE, asid |-> asid, root |-> root]

MCSatps == [h \in MmuHarts |-> IF h = Busy THEN {Space(0, 0), Space(1, 1)}
                               ELSE {Space(0, 0)}]

Ask(va, access, c) == [va |-> va, access |-> access, ctx |-> c]
User == [mode |-> "U", sum |-> FALSE, mxr |-> FALSE]
Sum  == [mode |-> "S", sum |-> TRUE, mxr |-> FALSE]
Mxr  == [mode |-> "S", sum |-> FALSE, mxr |-> TRUE]

MCContexts == {User, Sum, Mxr, [mode |-> "M", sum |-> FALSE, mxr |-> FALSE]}

MCRequests == [h \in MmuHarts |-> IF h = Busy
              THEN {Ask(0, "Load", Mxr), Ask(1, "Store", Sum),
               Ask(7, "Store", User), Ask(7, "Load", User), Ask(6, "Instruction", Mxr)}
              ELSE {Ask(7, "Store", User), Ask(7, "Load", User)}]

MCEdits == {<<<<1, 1>>, Pte({"V", "X"}, 6)>>, <<<<0, 0>>, Pte({"V", "R"}, 3)>>,
            <<<<1, 0>>, Pte({"V"}, 4)>>, <<<<0, 1>>, Pte({"V"}, 7)>>}

MmuInit ==
  /\ ptes = Tables
  /\ satp = [h \in MmuHarts |-> [sv |-> TRUE, asid |-> 0, root |-> 0]]
  /\ tlb = [h \in MmuHarts |-> EmptyTlb]
  /\ walk = [h \in MmuHarts |-> Absent]
  /\ edits = 0
  /\ outcome = Absent
  /\ seen = [h \in MmuHarts |-> FreshView]

-----------------------------------------------------------------------------
\* The machines that do not run rest in an initial state.
Init ==
  /\ machine \in {"engine", "decoder", "privilege", "atomics", "mmu"}
  /\ cache = <<>> /\ generation = 0 /\ block = None
  /\ IF machine = "engine" THEN EngineInit ELSE EngineAtRest
  /\ half \in IF machine = "decoder" THEN 0 .. LastHalf ELSE {0}
  /\ PrivilegeInit /\ AtomicsInit /\ MmuInit
  /\ machine # "privilege" => ~clock.sstc
  /\ machine # "atomics" => mix = CHOOSE x \in Mixes : TRUE

Next ==
  /\ UNCHANGED machine
  /\ \/ machine = "engine" /\ EngineNext /\ UNCHANGED <<half, pVars, aVars, mVars>>
     \/ machine = "privilege" /\ PrivilegeNext /\ UNCHANGED <<iVars, aVars, mVars>>
     \/ machine = "atomics" /\ AtomicsNext /\ UNCHANGED <<iVars, pVars, mVars>>
     \/ machine = "mmu" /\ MmuNext /\ UNCHANGED <<iVars, pVars, aVars>>

Spec == Init /\ [][Next]_vars

SpecDecoder == (Init /\ machine = "decoder") /\ [][Next]_vars

-----------------------------------------------------------------------------
\* The 16-bit instruction at hand means what the C extension's tables say.
DecodesCompressed ==
  machine = "decoder" => half \in MisreadShifts \/ DecodesAsSpecified(half)

\* C.SRAI is an arithmetic shift, as the comment in expand_q1 says.
DecodesShifts == half \in MisreadShifts => DecodesAsSpecified(half)
=============================================================================
