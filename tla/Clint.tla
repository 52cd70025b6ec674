------------------------------- MODULE Clint --------------------------------
(***************************************************************************)
(* The timers and software interrupts of the harts (devices/clint.rs, and  *)
(* SharedClint of shared_mem.rs in a WASM build).  A native register is a  *)
(* 64-bit atomic; half of one is stored by a compare-and-exchange loop.    *)
(* A shared register is two 32-bit words of a SharedArrayBuffer, each      *)
(* accessed by an Atomics call of its own, so that a 64-bit access and a   *)
(* tick are several steps.                                                 *)
(*                                                                         *)
(* A word has Word values.  Hart 0 drives the time: with every poll in a   *)
(* native build, between its instructions in a WASM build.                 *)
(***************************************************************************)
EXTENDS Integers

CONSTANTS
  ClintHarts,    \* of which 0 is one
  Word,          \* 2^32 in the code
  Boards,        \* the boards that are checked
  Registers,     \* what a hart stores to, per board: <<"mtimecmp", 0>>, ...
  Values,        \* the 64-bit values they store
  MaxTicks,      \* per board
  MaxStores

ASSUME ClintAssumption ==
  /\ Word \in Nat \ {0, 1} /\ 0 \in ClintHarts /\ Values \subseteq Nat
  /\ Boards \subseteq {"native", "shared"}
  /\ Registers \in [Boards -> [ClintHarts -> SUBSET ({"mtimecmp", "msip", "mtime"} \X ClintHarts)]]
  /\ MaxTicks \in [Boards -> Nat]

\* A hart sets its own timer, and the time does not overflow; a carry between
\* the two words of a shared register is torn (see the README).
ASSUME TimersAssumption ==
  \A b \in Boards :
    IF b = "native" THEN MaxTicks[b] < Word * Word
    ELSE /\ MaxTicks[b] < Word
         /\ \A h \in ClintHarts : \A r \in Registers[b][h] : r[1] = "mtimecmp" => r[2] = h

VARIABLES
  board,         \* "native" or "shared"
  mtime,         \* [lo, hi]
  mtimecmp,      \* per hart, [lo, hi]
  msip,          \* per hart
  doing,         \* per hart, the access under way
  now,           \* ghost: the ticks so far, a number
  due,           \* ghost: per hart, its timer was due during this poll
  reported,      \* per hart, what its last poll returned for the timer
  stores         \* ghost: stores begun

cVars == <<board, mtime, mtimecmp, msip, doing, now, due, reported, stores>>

-----------------------------------------------------------------------------
Split(x) == [lo |-> x % Word, hi |-> (x \div Word) % Word]
Whole(r) == r.lo + Word * r.hi

ClintMax == Word * Word - 1

Resting == [stage |-> "none", reg |-> <<"none", 0>>, part |-> "both", val |-> Split(0),
            seen |-> Split(0)]

ClintAt(h, stage) == doing[h].stage = stage

Goes(h, d) == doing' = [doing EXCEPT ![h] = d]

Polling(d) == d.stage \in {"mtime", "time_hi", "cmp", "cmp_hi"}

\* The ghost of every step: the timer of a polling hart is due, or was.
Watch == due' = [h \in ClintHarts |->
                   /\ Polling(doing'[h])
                   /\ (Polling(doing[h]) /\ due[h]) \/ now' >= Whole(mtimecmp'[h])]

-----------------------------------------------------------------------------
(* Stores (bus.rs clint_store).                                            *)

\* The hart executes a store to a register, or to one half of it.
ClintStore(h) ==
  /\ ClintAt(h, "none")
  /\ stores < MaxStores
  /\ \E reg \in Registers[board][h], part \in {"lo", "hi", "both"}, v \in Values :
       /\ reg[1] = "msip" => part # "hi" /\ (part = "both" => board = "native")
       /\ Goes(h, [Resting EXCEPT !.stage = "store", !.reg = reg, !.part = part,
                                  !.val = Split(v)])
  /\ stores' = stores + 1
  /\ UNCHANGED <<board, mtime, mtimecmp, msip, now, reported>>

StoreOf(h, name) == ClintAt(h, "store") /\ doing[h].reg[1] = name

\* Only bit 0 of MSIP means anything: a native build keeps no other.
StoreMsip(h) ==
  /\ StoreOf(h, "msip")
  /\ msip' = [msip EXCEPT ![doing[h].reg[2]] =
                IF board = "shared" THEN doing[h].val.lo
                ELSE IF doing[h].part = "lo" THEN doing[h].val.lo % 2
                ELSE @]                       \* sizes other than 4 are ignored
  /\ Goes(h, Resting)
  /\ UNCHANGED <<board, mtime, mtimecmp, now, reported, stores>>

\* MTIME and HART_COUNT are read-only in a native build.  (A shared CLINT
\* takes the store; no guest makes it, and no hart here.)
StoreReadOnly(h) ==
  /\ StoreOf(h, "mtime") /\ board = "native"
  /\ Goes(h, Resting)
  /\ UNCHANGED <<board, mtime, mtimecmp, msip, now, reported, stores>>

\* 64 bits at once.
StoreMtimecmp(h) ==
  /\ StoreOf(h, "mtimecmp") /\ board = "native" /\ doing[h].part = "both"
  /\ mtimecmp' = [mtimecmp EXCEPT ![doing[h].reg[2]] = doing[h].val]
  /\ Goes(h, Resting)
  /\ UNCHANGED <<board, mtime, msip, now, reported, stores>>

\* The compare-and-exchange loop of one half: read, then exchange unless the
\* register changed in between (or spuriously: compare_exchange_weak).
HalfRead(h) ==
  /\ StoreOf(h, "mtimecmp") /\ board = "native" /\ doing[h].part # "both"
  /\ Goes(h, [doing[h] EXCEPT !.stage = "cas", !.seen = mtimecmp[doing[h].reg[2]]])
  /\ UNCHANGED <<board, mtime, mtimecmp, msip, now, reported, stores>>

SameCurrent(h) == mtimecmp[doing[h].reg[2]] = doing[h].seen

HalfExchange(h) ==
  /\ ClintAt(h, "cas")
  /\ SameCurrent(h)
  /\ mtimecmp' = [mtimecmp EXCEPT ![doing[h].reg[2]] =
                    IF doing[h].part = "lo"
                    THEN [doing[h].seen EXCEPT !.lo = doing[h].val.lo]
                    ELSE [doing[h].seen EXCEPT !.hi = doing[h].val.lo]]
  /\ Goes(h, Resting)
  /\ UNCHANGED <<board, mtime, msip, now, reported, stores>>

HalfRetry(h) ==
  /\ ClintAt(h, "cas")
  /\ Goes(h, [doing[h] EXCEPT !.stage = "store", !.seen = Split(0)])
  /\ UNCHANGED <<board, mtime, mtimecmp, msip, now, reported, stores>>

\* A shared register: the addressed word, and for 64 bits the next one.
StoreWord(h) ==
  /\ StoreOf(h, "mtimecmp") /\ board = "shared"
  /\ LET t == doing[h].reg[2]
         half == IF doing[h].part = "hi" THEN "hi" ELSE "lo"
     IN  mtimecmp' = [mtimecmp EXCEPT ![t][half] = doing[h].val.lo]
  /\ Goes(h, IF doing[h].part = "both" THEN [doing[h] EXCEPT !.stage = "high"] ELSE Resting)
  /\ UNCHANGED <<board, mtime, msip, now, reported, stores>>

StoreSecondWord(h) ==
  /\ ClintAt(h, "high")
  /\ mtimecmp' = [mtimecmp EXCEPT ![doing[h].reg[2]].hi = doing[h].val.hi]
  /\ Goes(h, Resting)
  /\ UNCHANGED <<board, mtime, msip, now, reported, stores>>

-----------------------------------------------------------------------------
(* The time.                                                               *)

\* SharedClint::tick reads the time, which nobody else writes, and stores
\* its words one after the other.
TickLow ==
  /\ board = "shared" /\ ClintAt(0, "none")
  /\ now < MaxTicks[board]
  /\ mtime' = [mtime EXCEPT !.lo = Split(Whole(mtime) + 1).lo]
  /\ now' = now + 1
  /\ Goes(0, [Resting EXCEPT !.stage = "tick", !.val = Split(Whole(mtime) + 1)])
  /\ UNCHANGED <<board, mtimecmp, msip, reported, stores>>

TickHigh ==
  /\ ClintAt(0, "tick")
  /\ mtime' = [mtime EXCEPT !.hi = doing[0].val.hi]
  /\ Goes(0, Resting)
  /\ UNCHANGED <<board, mtimecmp, msip, now, reported, stores>>

-----------------------------------------------------------------------------
(* check_interrupts_for_hart: the bits of mip, and the tick of hart 0.     *)

\* Mutant: every hart advances the time.
TicksFromAnywhere(h) == TRUE

TicksHere(h) == h = 0

NativePoll(h) ==
  /\ board = "native" /\ ClintAt(h, "none")
  /\ TicksHere(h) => now < MaxTicks[board]
  /\ IF TicksHere(h)
     THEN mtime' = Split(Whole(mtime) + 1) /\ now' = now + (IF h = 0 THEN 1 ELSE 0)
     ELSE UNCHANGED <<mtime, now>>
  /\ Goes(h, [Resting EXCEPT !.stage = "mtime"])
  /\ UNCHANGED <<board, mtimecmp, msip, reported, stores>>

SharedPoll(h) ==
  /\ board = "shared" /\ ClintAt(h, "none")
  /\ Goes(h, [Resting EXCEPT !.stage = "mtime"])
  /\ UNCHANGED <<board, mtime, mtimecmp, msip, now, reported, stores>>

\* The time: one load, or its low word.
ReadMtime(h) ==
  /\ ClintAt(h, "mtime")
  /\ Goes(h, [doing[h] EXCEPT !.stage = IF board = "native" THEN "cmp" ELSE "time_hi",
                              !.val = mtime])
  /\ UNCHANGED <<board, mtime, mtimecmp, msip, now, reported, stores>>

ReadMtimeHigh(h) ==
  /\ ClintAt(h, "time_hi")
  /\ Goes(h, [doing[h] EXCEPT !.stage = "cmp", !.val.hi = mtime.hi])
  /\ UNCHANGED <<board, mtime, mtimecmp, msip, now, reported, stores>>

Reports(h, cmp) ==
  /\ reported' = [reported EXCEPT ![h] = Whole(doing[h].val) >= Whole(cmp)]
  /\ Goes(h, Resting)

ReadMtimecmp(h) ==
  /\ ClintAt(h, "cmp")
  /\ IF board = "native" THEN Reports(h, mtimecmp[h])
     ELSE /\ Goes(h, [doing[h] EXCEPT !.stage = "cmp_hi", !.seen = mtimecmp[h]])
          /\ UNCHANGED reported
  /\ UNCHANGED <<board, mtime, mtimecmp, msip, now, stores>>

ReadMtimecmpHigh(h) ==
  /\ ClintAt(h, "cmp_hi")
  /\ Reports(h, [doing[h].seen EXCEPT !.hi = mtimecmp[h].hi])
  /\ UNCHANGED <<board, mtime, mtimecmp, msip, now, stores>>

-----------------------------------------------------------------------------
ClintInit ==
  /\ board \in Boards /\ mtime = Split(0) /\ now = 0
  /\ mtimecmp = [h \in ClintHarts |-> Split(ClintMax)]
  /\ msip = [h \in ClintHarts |-> 0]
  /\ doing = [h \in ClintHarts |-> Resting]
  /\ due = [h \in ClintHarts |-> FALSE]
  /\ reported = [h \in ClintHarts |-> FALSE]
  /\ stores = 0

ClintStep(h) ==
  \/ ClintStore(h) \/ StoreMsip(h) \/ StoreReadOnly(h) \/ StoreMtimecmp(h)
  \/ HalfRead(h) \/ HalfExchange(h) \/ HalfRetry(h)
  \/ StoreWord(h) \/ StoreSecondWord(h)
  \/ NativePoll(h) \/ SharedPoll(h) \/ ReadMtime(h) \/ ReadMtimeHigh(h)
  \/ ReadMtimecmp(h) \/ ReadMtimecmpHigh(h)

ClintNext == (TickLow \/ TickHigh \/ \E h \in ClintHarts : ClintStep(h)) /\ Watch

ClintSpec == ClintInit /\ [][ClintNext]_cVars

-----------------------------------------------------------------------------
(* Properties.                                                             *)

\* A poll reports the timer only if at some moment of the poll the time had
\* reached the compare register, although the two are read at different
\* moments (check_interrupts_for_hart).  Stores to a hart's own register in
\* a shared CLINT come from that hart.
TimerIsDue ==
  [][\A h \in ClintHarts :
       Polling(doing[h]) /\ ~Polling(doing'[h]) /\ reported'[h] => due[h]]_cVars

=============================================================================
