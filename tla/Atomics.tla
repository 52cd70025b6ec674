------------------------------ MODULE Atomics -------------------------------
(***************************************************************************)
(* The harts of an SMP machine on one doubleword of DRAM (bus.rs, dram.rs, *)
(* the Amo arm of cpu/execution.rs).  A native build runs an AMO as a read *)
(* and a write under AMO_LOCK, which plain accesses do not take.  A WASM   *)
(* build has an atomic instruction of JavaScript for most 32-bit AMOs, a   *)
(* compare-and-exchange loop for minima and maxima, and makes 64-bit       *)
(* accesses from two 32-bit ones; outside the DRAM ("mmio") it reads and   *)
(* writes without more ado.  LR reserves for its own hart only, and SC     *)
(* looks at nothing else.                                                  *)
(*                                                                         *)
(* A word has WordBits bits; an operation is on the low word, the high     *)
(* word or both: its part.                                                 *)
(***************************************************************************)
EXTENDS Integers, Sequences, Bitwise

CONSTANTS
  AtomicHarts,
  WordBits,     \* 32 in the code
  Mixes,        \* [build, ops]: where the code runs, and what each hart does
  MaxOps,       \* bound on the operations that the harts begin
  Nobody        \* AMO_LOCK is free

VARIABLES
  mix,          \* the build, and the operations the harts may do
  dword,        \* memory: [lo, hi]
  amoLock,      \* AMO_LOCK
  reserved,     \* Cpu.reservation = Some(this granule), per hart
  at,           \* per hart, the operation under way, its stage, what it read
  done          \* ghost: per hart, the operations it completed, with results

aVars == <<mix, dword, amoLock, reserved, at, done>>

-----------------------------------------------------------------------------
(* Values.                                                                 *)

Half == 2^WordBits
Full == Half * Half

Signed(x, mod) == IF 2 * x >= mod THEN x - mod ELSE x

Pair(x) == [lo |-> x % Half, hi |-> x \div Half]

\* What a register gets: a word is sign-extended.
Loaded(m, part) ==
  CASE part = "lo" -> Signed(m.lo, Half) % Full
    [] part = "hi" -> Signed(m.hi, Half) % Full
    [] part = "both" -> m.lo + Half * m.hi

Stored(m, part, v) ==
  CASE part = "lo" -> [m EXCEPT !.lo = v % Half]
    [] part = "hi" -> [m EXCEPT !.hi = v % Half]
    [] part = "both" -> Pair(v % Full)

\* What an AMO leaves in memory.  The signed minimum and maximum compare the
\* whole register even for a word, the unsigned ones its low word.
Combine(op, old, val, part) ==
  LET low(x) == IF part = "both" THEN x ELSE x % Half
  IN  CASE op = "swap" -> val
        [] op = "add"  -> (old + val) % Full
        [] op = "and"  -> old & val
        [] op = "or"   -> old | val
        [] op = "xor"  -> old ^^ val
        [] op = "min"  -> IF Signed(old, Full) < Signed(val, Full) THEN old ELSE val
        [] op = "max"  -> IF Signed(old, Full) > Signed(val, Full) THEN old ELSE val
        [] op = "minu" -> IF low(old) < low(val) THEN old ELSE val
        [] op = "maxu" -> IF low(old) > low(val) THEN old ELSE val

ByLoop(op) == op \in {"min", "max", "minu", "maxu"}

-----------------------------------------------------------------------------
(* Bookkeeping.                                                            *)

Idle == [stage |-> "idle", do |-> Nobody, got |-> Pair(0)]

RECURSIVE Total(_, _)
Total(f, harts) ==
  IF harts = {} THEN 0
  ELSE LET h == CHOOSE x \in harts : TRUE
       IN  f[h] + Total(f, harts \ {h})

Begun == Total([h \in AtomicHarts |->
                  Len(done[h]) + (IF at[h] = Idle THEN 0 ELSE 1)], AtomicHarts)

\* Hart h starts operation o, of the given kinds, on a build.
Starts(h, o, builds, kinds) ==
  /\ at[h] = Idle
  /\ Begun < MaxOps
  /\ mix.build \in builds
  /\ o \in mix.ops[h]
  /\ o.kind \in kinds

Reaches(h, stage, o, got) ==
  at' = [at EXCEPT ![h] = [stage |-> stage, do |-> o, got |-> got]]

Completes(h, o, res) ==
  /\ at' = [at EXCEPT ![h] = Idle]
  /\ done' = [done EXCEPT ![h] = Append(@, [do |-> o, res |-> res])]

At(h, stage) == at[h].stage = stage

\* LR reserves; a store or an AMO of the hart ends its own reservation.
Reservation(h, o) ==
  reserved' = [reserved EXCEPT ![h] = o.kind = "lr" \/ (@ /\ o.kind = "load")]

-----------------------------------------------------------------------------
(* Accesses that are one step: any plain access of a native build, and the *)
(* 32-bit ones of a WASM build.                                            *)

IsWord(o) == o.part # "both"

OneStep(o) == mix.build # "wasm" \/ IsWord(o)

Load(h) ==
  \E o \in mix.ops[h] :
    /\ Starts(h, o, {"native", "wasm", "mmio"}, {"load", "lr"})
    /\ OneStep(o)
    /\ Reservation(h, o)
    /\ Completes(h, o, Loaded(dword, o.part))
    /\ UNCHANGED <<mix, dword, amoLock>>

Store(h) ==
  \E o \in mix.ops[h] :
    /\ Starts(h, o, {"native", "wasm", "mmio"}, {"store"})
    /\ OneStep(o)
    /\ dword' = Stored(dword, o.part, o.val)
    /\ Reservation(h, o)
    /\ Completes(h, o, 0)
    /\ UNCHANGED <<mix, amoLock>>

\* SC without the reservation touches nothing, the reservation included.
StoreConditional(h) ==
  \E o \in mix.ops[h] :
    /\ Starts(h, o, {"native", "wasm", "mmio"}, {"sc"})
    /\ OneStep(o) \/ ~reserved[h]
    /\ IF reserved[h]
       THEN /\ dword' = Stored(dword, o.part, o.val)
            /\ reserved' = [reserved EXCEPT ![h] = FALSE]
            /\ Completes(h, o, 0)
       ELSE Completes(h, o, 1) /\ UNCHANGED <<dword, reserved>>
    /\ UNCHANGED <<mix, amoLock>>

-----------------------------------------------------------------------------
(* AMOs of a native build, and those outside the DRAM.                     *)

\* Mutant: the lock is not waited for.
TakeAmoLockAnyway(h) == mix.build = "native" /\ amoLock' = h

TakeAmoLock(h) ==
  /\ mix.build = "native"
  /\ amoLock = Nobody
  /\ amoLock' = h

AmoRead(h) ==
  \E o \in mix.ops[h] :
    /\ Starts(h, o, {"native", "mmio"}, {"amo"})
    /\ TakeAmoLock(h) \/ (mix.build = "mmio" /\ UNCHANGED amoLock)
    /\ Reservation(h, o)
    /\ Reaches(h, "write", o, dword)
    /\ UNCHANGED <<mix, dword, done>>

AmoWrite(h) ==
  LET o   == at[h].do
      old == Loaded(at[h].got, o.part)
  IN  /\ At(h, "write")
      /\ dword' = Stored(dword, o.part, Combine(o.op, old, o.val, o.part))
      /\ amoLock' = Nobody
      /\ Completes(h, o, old)
      /\ UNCHANGED <<mix, reserved>>

-----------------------------------------------------------------------------
(* WASM: a 32-bit AMO with an instruction of its own.                      *)

\* Atomics.exchange, add, and, or, xor.
Updated(o) == Stored(dword, o.part, Combine(o.op, Loaded(dword, o.part), o.val, o.part))

AtomicsRmw(h) ==
  \E o \in mix.ops[h] :
    /\ Starts(h, o, {"wasm"}, {"amo"})
    /\ IsWord(o) /\ ~ByLoop(o.op)
    /\ dword' = Updated(o)
    /\ Reservation(h, o)
    /\ Completes(h, o, Loaded(dword, o.part))
    /\ UNCHANGED <<mix, amoLock>>

\* A loop, or a 64-bit load, begins with one word.
Begins(h, o) ==
  Reaches(h, IF IsWord(o) THEN "cas" ELSE "high", o, dword)

LoadFirst(h) ==
  /\ \/ \E o \in mix.ops[h] :
          /\ Starts(h, o, {"wasm"}, {"amo", "load", "lr"})
          /\ IF o.kind = "amo"
             THEN (IF IsWord(o) THEN ByLoop(o.op) ELSE o.op # "swap")
             ELSE ~IsWord(o)
          /\ Reservation(h, o)
          /\ Begins(h, o)
     \/ /\ At(h, "again")
        /\ Begins(h, at[h].do)
        /\ UNCHANGED reserved
  /\ UNCHANGED <<mix, dword, amoLock, done>>

LoadHigh(h) ==
  LET o   == at[h].do
      got == [at[h].got EXCEPT !.hi = dword.hi]
  IN  /\ At(h, "high")
      /\ IF o.kind = "amo" THEN Reaches(h, "cas", o, got) /\ UNCHANGED done
         ELSE Completes(h, o, Loaded(got, "both"))
      /\ UNCHANGED <<mix, dword, amoLock, reserved>>

\* The memory a loop wants to leave, given what it read.
Wanted(h) ==
  LET o == at[h].do
  IN  Stored(at[h].got, o.part,
             Combine(o.op, Loaded(at[h].got, o.part), o.val, o.part))

\* The first exchange of a loop: of its word, or of the low one of two.
FirstWordIsSame(h) ==
  IF at[h].do.part = "hi" THEN dword.hi = at[h].got.hi ELSE dword.lo = at[h].got.lo

CompareExchange(h) ==
  LET o    == at[h].do
      same == FirstWordIsSame(h)
  IN  /\ At(h, "cas")
      /\ dword' = CASE ~same -> dword
                    [] same /\ o.part = "hi" -> [dword EXCEPT !.hi = Wanted(h).hi]
                    [] OTHER -> [dword EXCEPT !.lo = Wanted(h).lo]
      /\ CASE ~same -> Reaches(h, "again", o, Pair(0)) /\ UNCHANGED done
           [] same /\ IsWord(o) -> Completes(h, o, Loaded(at[h].got, o.part))
           [] same /\ ~IsWord(o) ->
                /\ Reaches(h, IF ByLoop(o.op) THEN "casHigh" ELSE "storeHigh",
                           o, at[h].got)
                /\ UNCHANGED done
      /\ UNCHANGED <<mix, amoLock, reserved>>

\* Minima and maxima compare the high word too, and take the low one back if
\* it changed.
CompareExchangeHigh(h) ==
  LET o    == at[h].do
      same == dword.hi = at[h].got.hi
  IN  /\ At(h, "casHigh")
      /\ dword' = IF same THEN [dword EXCEPT !.hi = Wanted(h).hi] ELSE dword
      /\ IF same THEN Completes(h, o, Loaded(at[h].got, "both"))
         ELSE Reaches(h, "restore", o, at[h].got) /\ UNCHANGED done
      /\ UNCHANGED <<mix, amoLock, reserved>>

RestoreLow(h) ==
  /\ At(h, "restore")
  /\ dword' = [dword EXCEPT !.lo = at[h].got.lo]
  /\ Reaches(h, "again", at[h].do, Pair(0))
  /\ UNCHANGED <<mix, amoLock, reserved, done>>

\* The 64-bit swap, the plain 64-bit store and SC.D write the low word first.
StoreLow(h) ==
  \E o \in mix.ops[h] :
    /\ Starts(h, o, {"wasm"}, {"amo", "store", "sc"})
    /\ ~IsWord(o)
    /\ o.kind = "amo" => o.op = "swap"
    /\ o.kind = "sc" => reserved[h]
    /\ dword' = [dword EXCEPT !.lo = Pair(o.val).lo]
    /\ Reservation(h, o)
    /\ Reaches(h, "storeHigh", o, dword)
    /\ UNCHANGED <<mix, amoLock, done>>

StoreHigh(h) ==
  LET o  == at[h].do
      op == IF o.kind = "amo" THEN o.op ELSE "store"
  IN  /\ At(h, "storeHigh")
      /\ dword' = [dword EXCEPT !.hi = IF op \in {"swap", "store"} THEN Pair(o.val).hi
                                       ELSE Wanted(h).hi]
      /\ Completes(h, o, CASE op = "store" -> 0
                           [] op = "swap" -> Loaded([at[h].got EXCEPT !.hi = dword.hi],
                                                    "both")
                           [] OTHER -> Loaded(at[h].got, "both"))
      /\ UNCHANGED <<mix, amoLock, reserved>>

AtomicsNext ==
  \E h \in AtomicHarts :
    \/ Load(h) \/ Store(h) \/ StoreConditional(h)
    \/ AmoRead(h) \/ AmoWrite(h)
    \/ AtomicsRmw(h) \/ LoadFirst(h) \/ LoadHigh(h)
    \/ CompareExchange(h) \/ CompareExchangeHigh(h) \/ RestoreLow(h)
    \/ StoreLow(h) \/ StoreHigh(h)

-----------------------------------------------------------------------------
(* Properties.                                                             *)

\* One whole operation on memory m with reservations r: is e, of hart h, what
\* it returns, and what does it leave?
Agrees(e, h, m, r) ==
  CASE e.do.kind \in {"load", "lr", "amo"} -> e.res = Loaded(m, e.do.part)
    [] e.do.kind = "sc" /\ e.res = 0 -> h \in r
    [] OTHER -> TRUE

Leaves(e, m) ==
  CASE e.do.kind = "amo" ->
         Stored(m, e.do.part, Combine(e.do.op, e.res, e.do.val, e.do.part))
    [] e.do.kind = "store" \/ (e.do.kind = "sc" /\ e.res = 0) ->
         Stored(m, e.do.part, e.do.val)
    [] OTHER -> m

Writes(e) == e.do.kind \in {"amo", "store"} \/ (e.do.kind = "sc" /\ e.res = 0)

RECURSIVE Explained(_, _, _)
Explained(left, m, r) ==
  \/ (\A h \in AtomicHarts : left[h] = <<>>) /\ m = dword
  \/ \E h \in AtomicHarts :
       /\ left[h] # <<>>
       /\ Agrees(Head(left[h]), h, m, r)
       /\ Explained([left EXCEPT ![h] = Tail(@)], Leaves(Head(left[h]), m),
                    CASE Head(left[h]).do.kind = "lr" -> r \cup {h}
                      [] Writes(Head(left[h])) -> {}
                      [] OTHER -> r)

\* Whenever no operation is under way, what the harts read and what memory
\* holds is the outcome of the operations taken whole, one after another, in
\* some order that keeps each hart's own: AMOs are atomic, and an SC succeeds
\* only if nothing was written since its LR.
Serializable ==
  (\A h \in AtomicHarts : at[h] = Idle) => Explained(done, Pair(0), {})
=============================================================================
