---------------------------- MODULE BlockEngine -----------------------------
(***************************************************************************)
(* The superblock engine: try_execute_block (cpu/execution.rs), the        *)
(* compiler (engine/block.rs), the cache of compiled blocks                *)
(* (engine/cache.rs) and the way a block goes on (handle_block_result).    *)
(* The instructions are in prog; data memory is part of the hart.          *)
(***************************************************************************)
EXTENDS MicroOps, FiniteSets

CONSTANTS
  MaxBlock,        \* ops of a block: 64 in the code
  PageSize,        \* bytes of a page: 4096 in the code
  CacheSize,       \* blocks the cache is made for: 4096 in the code
  Hot,             \* executions from which a block is not cold: 10 in the code
  MaxGeneration    \* bound on the calls of flush

VARIABLES
  hart,        \* the registers, memory, pc, reservation and last trap
  prog,        \* address -> [op, len], the instructions
  useBlocks,   \* Cpu.use_blocks
  cache,       \* BlockCache.blocks: pc -> block
  generation,  \* BlockCache.generation
  block        \* the block being executed and the next index, or None

-----------------------------------------------------------------------------
(* The compiler.                                                           *)

NextPage(pc) == pc - (pc % PageSize) + PageSize

\* The loop of compile, from pc on, with the ops and byte lengths so far.
RECURSIVE CompileFrom(_, _, _, _, _)

CompileFrom(pg, start, pc, ops, lens) ==
  LET f == Fetch(pg, pc)
      m == Transcode(f.op, pc - start, f.len)
      after == U(pc + f.len)
      done  == \/ IsTerminator(m)
               \/ after >= NextPage(start)
  IN  CASE f.why # None \/ Len(ops) >= MaxBlock -> [ops |-> ops, lens |-> lens]
        [] OTHER ->
             IF done THEN [ops |-> Append(ops, m), lens |-> Append(lens, f.len)]
             ELSE CompileFrom(pg, start, after, Append(ops, m),
                              Append(lens, f.len))

\* A trap on the first instruction is the result; a later one ends the block.
Compile(pg, pc) ==
  LET f == Fetch(pg, pc)
      b == CompileFrom(pg, pc, pc, <<>>, <<>>)
  IN  [why |-> f.why, ops |-> b.ops, lens |-> b.lens]

-----------------------------------------------------------------------------
(* The cache.                                                              *)

CacheHit(pc) == pc \in DOMAIN cache /\ cache[pc].generation = generation

\* evict_cold: the first cold blocks that the map's order yields, at least
\* one; if that leaves the cache full, all but the last two generations (in
\* 32-bit arithmetic, so none at all is kept at generation 0).
ColdChoices ==
  LET cold  == {pc \in DOMAIN cache : cache[pc].execCount < Hot}
      quarter == Cardinality(DOMAIN cache) \div 4
      want  == IF quarter = 0 THEN 1 ELSE quarter
      count == IF Cardinality(cold) < want THEN Cardinality(cold) ELSE want
  IN  {c \in SUBSET cold : Cardinality(c) = count}

Keep(pcs) == [pc \in pcs |-> cache[pc]]

AfterEviction(c) ==
  LET kept == DOMAIN cache \ c
  IN  IF Cardinality(kept) < CacheSize THEN kept
      ELSE {pc \in kept : generation # 0
                            /\ cache[pc].generation >= generation - 1}

Insert(pc, b) ==
  \E c \in IF Cardinality(DOMAIN cache) >= CacheSize THEN ColdChoices ELSE {{}} :
    LET kept == IF Cardinality(DOMAIN cache) >= CacheSize
                THEN AfterEviction(c) ELSE DOMAIN cache
    IN  cache' = (pc :> b) @@ Keep(kept)

-----------------------------------------------------------------------------
(* Execution.  at is the offset of the next op, lens what it is summed of. *)

Running(pc, b) == [pc |-> pc, ops |-> b.ops, lens |-> b.lens, idx |-> 1, at |-> 0]

Ready == hart.trap = None /\ block = None

\* A block of the current generation: run it, and count the execution.
LookupHit ==
  /\ Ready /\ useBlocks /\ CacheHit(hart.pc)
  /\ block' = Running(hart.pc, cache[hart.pc])
  /\ cache' = [cache EXCEPT ![hart.pc].execCount =
                 IF @ < Hot THEN @ + 1 ELSE @]
  /\ UNCHANGED <<hart, prog, useBlocks, generation>>

CompileBlock ==
  /\ Ready /\ useBlocks /\ ~CacheHit(hart.pc)
  /\ LET c == Compile(prog, hart.pc)
         b == [ops |-> c.ops, lens |-> c.lens, generation |-> generation,
               execCount |-> 0]
     IN  /\ c.why = None
         /\ Insert(hart.pc, b)
         /\ block' = Running(hart.pc, b)
  /\ UNCHANGED <<hart, prog, useBlocks, generation>>

CompileTrap ==
  /\ Ready /\ useBlocks /\ ~CacheHit(hart.pc)
  /\ LET c == Compile(prog, hart.pc)
     IN  /\ c.why # None
         /\ hart' = Trapped(hart, c.why)
  /\ UNCHANGED <<prog, useBlocks, cache, generation, block>>

\* One op of the block.  An Exit is followed at once by the interpreter's step
\* of that instruction.
MicroStep ==
  /\ block # None /\ block.idx <= Len(block.ops)
  /\ LET r == RunMicroOp(hart, block.ops[block.idx], block.pc)
     IN  /\ hart' = IF r.flow = "exit" THEN StepAt(prog, r.hart) ELSE r.hart
         /\ block' = IF r.flow = "next"
                     THEN [block EXCEPT !.idx = @ + 1,
                                        !.at = @ + block.lens[block.idx]]
                     ELSE None
  /\ UNCHANGED <<prog, useBlocks, cache, generation>>

\* The ops are used up without a terminator: on with the bytes that follow.
FallThrough ==
  /\ block # None /\ block.idx > Len(block.ops)
  /\ hart' = [hart EXCEPT !.pc = U(block.pc + block.at)]
  /\ block' = None
  /\ UNCHANGED <<prog, useBlocks, cache, generation>>

Interpret ==
  /\ Ready /\ ~useBlocks
  /\ hart' = StepAt(prog, hart)
  /\ UNCHANGED <<prog, useBlocks, cache, generation, block>>

\* BlockCache::flush, by invalidate_blocks, between two calls of step.
Flush ==
  /\ Ready /\ useBlocks /\ generation < MaxGeneration
  /\ generation' = generation + 1
  /\ UNCHANGED <<hart, prog, useBlocks, cache, block>>

\* BlockCache::invalidate_range: the blocks that overlap the range go.
ByteLen(b) == IF b.lens = <<>> THEN 0
              ELSE LET sum[i \in 1 .. Len(b.lens)] ==
                         b.lens[i] + (IF i = 1 THEN 0 ELSE sum[i - 1])
                   IN  sum[Len(b.lens)]

InvalidateRange(from, to) ==
  /\ Ready /\ useBlocks
  /\ cache' = Keep({pc \in DOMAIN cache :
                      ~(pc < to /\ pc + ByteLen(cache[pc]) > from)})
  /\ UNCHANGED <<hart, prog, useBlocks, generation, block>>

EngineNext ==
  \/ LookupHit \/ CompileBlock \/ CompileTrap \/ MicroStep \/ FallThrough
  \/ Interpret \/ Flush
  \/ \E page \in {pc - (pc % PageSize) : pc \in DOMAIN cache} :
       InvalidateRange(page, page + PageSize)

-----------------------------------------------------------------------------
(* Properties.                                                             *)

\* The hart as the instruction at hand finds it: within a block the pc lags
\* behind, and the instruction's own address is the block's plus the offset;
\* with a trap it is the faulting pc that is handed to handle_trap.
ArchitecturalHart ==
  CASE hart.trap # None -> [hart EXCEPT !.pc = hart.trap.epc]
    [] hart.trap = None /\ block # None ->
         [hart EXCEPT !.pc = U(block.pc + block.at)]
    [] OTHER -> hart

Architecture == INSTANCE Execution WITH hart <- ArchitecturalHart

\* Every step of the block engine is an instruction of the interpreter or
\* changes nothing a program can see: the result, the next pc, the trap and
\* its faulting pc of each micro-op of execute_block_inner are those of
\* step_single_inner, across block ends, page ends, partial blocks, evictions
\* and flushes.
RunsTheProgram == Architecture!ExecutionSpec

=============================================================================
