---------------------------- MODULE HartProofs -----------------------------
(***************************************************************************)
(* Interrupts of a hart: no hart is told of a timer that was not due, a    *)
(* timer that is due is soon taken, and a return restores what its trap    *)
(* interrupted.                                                            *)
(***************************************************************************)
EXTENDS Clint, Privilege, TLAPS

(* The two words of a register, and an access under way. *)
Halves == [lo : 0 .. Word - 1, hi : 0 .. Word - 1]

Stages == {"none", "store", "cas", "high", "tick", "mtime", "time_hi", "cmp", "cmp_hi"}

Accesses == [stage : Stages, reg : {"mtimecmp", "msip", "mtime", "none"} \X ClintHarts,
             part : {"lo", "hi", "both"}, val : Halves, seen : Halves]

(* What the two words of a number are, and when they are all of it. *)
LEMMA SplitFacts ==
  ASSUME NEW x \in Nat
  PROVE  /\ Split(x) \in Halves
         /\ x < Word * Word => Whole(Split(x)) = x
         /\ x < Word => Split(x).hi = 0 /\ Split(x).lo = x
<1>1. /\ x % Word \in 0 .. Word - 1 /\ (x \div Word) % Word \in 0 .. Word - 1
      /\ x \div Word \in Nat /\ x = Word * (x \div Word) + (x % Word)
  BY ClintAssumption
<1>2. Split(x) \in Halves
  BY <1>1 DEF Split, Halves
<1>3. ASSUME x < Word * Word PROVE (x \div Word) % Word = x \div Word
  <2>1. x \div Word < Word
    BY <1>1, <1>3, ClintAssumption
  <2> QED BY <2>1, <1>1, ClintAssumption
<1>4. ASSUME x < Word * Word PROVE Whole(Split(x)) = x
  BY <1>1, <1>3, <1>4, ClintAssumption DEF Whole, Split
<1>5. ASSUME x < Word PROVE Split(x).hi = 0 /\ Split(x).lo = x
  <2>1. x % Word = x /\ x \div Word = 0
    BY <1>5, ClintAssumption
  <2>2. 0 % Word = 0
    BY ClintAssumption
  <2> QED BY <2>1, <2>2 DEF Split
<1> QED BY <1>2, <1>4, <1>5

ClintType ==
  /\ board \in Boards /\ mtime \in Halves /\ mtimecmp \in [ClintHarts -> Halves]
  /\ doing \in [ClintHarts -> Accesses] /\ now \in 0 .. MaxTicks[board]
  /\ due \in [ClintHarts -> BOOLEAN] /\ reported \in [ClintHarts -> BOOLEAN]

(* The register is the time, and a shared one has not carried. *)
TimeIs ==
  /\ Whole(mtime) = now
  /\ board = "shared" => mtime.hi = 0 /\ mtime.lo = now

(* An access d of hart h, at time n, when its compare register is c. *)
AccessIs(d, h, b, c, n) ==
  /\ d.stage = "store" /\ b = "shared" /\ d.reg[1] = "mtimecmp" => d.reg[2] = h
  /\ d.stage = "high" => b = "shared" /\ d.reg[2] = h
  /\ d.stage = "cas" => b = "native"
  /\ d.stage = "tick" => b = "shared" /\ d.val.hi = 0
  /\ d.stage = "time_hi" => b = "shared" /\ d.val.lo <= n
  /\ d.stage \in {"cmp", "cmp_hi"} => Whole(d.val) <= n
  /\ d.stage = "cmp_hi" => b = "shared" /\ d.seen.lo = c.lo

(* A timer that is due in a poll has been noted by the ghost. *)
DueIs == \A h \in ClintHarts : Polling(doing[h]) /\ now >= Whole(mtimecmp[h]) => due[h]

ClintInv ==
  /\ ClintType /\ TimeIs /\ DueIs
  /\ \A h \in ClintHarts : AccessIs(doing[h], h, board, mtimecmp[h], now)

(* What a step of hart h that takes its access to d has to do. *)
StepsTo(h, d) ==
  /\ d \in Accesses /\ Goes(h, d) /\ board' = board
  /\ mtime' \in Halves /\ mtimecmp' \in [ClintHarts -> Halves]
  /\ now' \in 0 .. MaxTicks[board] /\ now <= now'
  /\ TimeIs'
  /\ AccessIs(d, h, board, mtimecmp'[h], now')
  /\ board = "shared" => \A g \in ClintHarts \ {h} : mtimecmp'[g] = mtimecmp[g]
  /\ reported' \in [ClintHarts -> BOOLEAN]

(* ... for the invariant to hold after it, with the ghost of Watch. *)
LEMMA StepsToKeeps ==
  ASSUME ClintInv, Watch, NEW h \in ClintHarts, NEW d, StepsTo(h, d)
  PROVE  ClintInv'
<1>1. doing' \in [ClintHarts -> Accesses] /\ doing'[h] = d
      /\ \A g \in ClintHarts \ {h} : doing'[g] = doing[g]
  BY DEF StepsTo, Goes, ClintInv, ClintType
<1>2. \A g \in ClintHarts : due'[g] \in BOOLEAN /\ (Polling(doing'[g]) /\ now' >= Whole(mtimecmp'[g]) => due'[g])
  BY DEF Watch
<1>3. due' \in [ClintHarts -> BOOLEAN]
  BY <1>2 DEF Watch
<1>4. ClintType'
  BY <1>1, <1>3 DEF StepsTo, ClintInv, ClintType
<1>5. ASSUME NEW g \in ClintHarts
      PROVE  AccessIs(doing'[g], g, board', mtimecmp'[g], now')
  <2>1. CASE g = h
    BY <2>1, <1>1 DEF StepsTo
  <2>2. CASE g # h
    <3>1. AccessIs(doing[g], g, board, mtimecmp[g], now)
      BY DEF ClintInv
    <3>2. doing'[g] = doing[g] /\ board' = board /\ now <= now' /\ now \in Nat /\ now' \in Nat
          /\ (board = "shared" => mtimecmp'[g] = mtimecmp[g])
      BY <2>2, <1>1, ClintAssumption DEF StepsTo, ClintInv, ClintType
    <3>3. doing[g].val.lo \in Nat /\ Whole(doing[g].val) \in Int
      BY ClintAssumption DEF ClintInv, ClintType, Accesses, Halves, Whole
    <3> QED BY <3>1, <3>2, <3>3 DEF AccessIs
  <2> QED BY <2>1, <2>2
<1>6. DueIs'
  BY <1>2 DEF DueIs
<1> QED BY <1>4, <1>5, <1>6 DEF StepsTo, ClintInv

(* Clint::new and SharedClint's zeroed memory. *)
LEMMA InitClint == ClintInit => ClintInv
<1> SUFFICES ASSUME ClintInit PROVE ClintInv
  OBVIOUS
<1>1. 0 \in Nat /\ 0 < Word * Word /\ 0 < Word /\ ClintMax \in Nat
  BY ClintAssumption DEF ClintMax
<1>2. Split(0) \in Halves /\ Split(ClintMax) \in Halves
      /\ Whole(Split(0)) = 0 /\ Split(0).hi = 0 /\ Split(0).lo = 0
  BY <1>1, SplitFacts
<1>3. Resting \in Accesses /\ Resting.stage = "none"
  BY <1>2, ClintAssumption DEF Resting, Accesses, Stages
<1>4. ClintType
  BY <1>2, <1>3, ClintAssumption DEF ClintInit, ClintType
<1>5. TimeIs
  BY <1>2 DEF ClintInit, TimeIs
<1>6. DueIs
  BY <1>3 DEF ClintInit, DueIs, Polling
<1>7. \A h \in ClintHarts : AccessIs(doing[h], h, board, mtimecmp[h], now)
  BY <1>3, Zenon DEF ClintInit, AccessIs
<1> QED BY <1>4, <1>5, <1>6, <1>7 DEF ClintInv

(* A hart that accesses nothing. *)
LEMMA RestingIs ==
  /\ Resting \in Accesses /\ Resting.stage = "none"
  /\ \A h, b, c, n : AccessIs(Resting, h, b, c, n)
<1>1. Split(0) \in Halves
  BY SplitFacts
<1>2. Resting \in Accesses /\ Resting.stage = "none"
  BY <1>1, ClintAssumption DEF Resting, Accesses, Stages
<1> QED BY <1>2 DEF AccessIs

(* A step that leaves the registers and the time alone. *)
LEMMA QuietSteps ==
  ASSUME ClintInv, NEW h \in ClintHarts, NEW d \in Accesses, Goes(h, d),
         board' = board, mtime' = mtime, mtimecmp' = mtimecmp, now' = now,
         reported' \in [ClintHarts -> BOOLEAN],
         AccessIs(d, h, board, mtimecmp[h], now)
  PROVE  StepsTo(h, d)
<1>1. mtime \in Halves /\ mtimecmp \in [ClintHarts -> Halves] /\ now \in 0 .. MaxTicks[board]
      /\ now <= now
  BY ClintAssumption DEF ClintInv, ClintType
<1>2. TimeIs'
  BY DEF ClintInv, TimeIs
<1> QED BY <1>1, <1>2 DEF StepsTo

(* The stores. *)
LEMMA StoreStep ==
  ASSUME ClintInv, NEW h \in ClintHarts,
         \/ ClintStore(h) \/ StoreMsip(h) \/ StoreReadOnly(h) \/ StoreMtimecmp(h)
         \/ HalfRead(h) \/ HalfExchange(h) \/ HalfRetry(h) \/ StoreWord(h) \/ StoreSecondWord(h)
  PROVE  \E d : StepsTo(h, d)
<1>t. /\ doing[h] \in Accesses /\ board \in Boards /\ mtimecmp \in [ClintHarts -> Halves]
      /\ mtime \in Halves /\ now \in 0 .. MaxTicks[board] /\ now <= now
      /\ reported \in [ClintHarts -> BOOLEAN]
      /\ AccessIs(doing[h], h, board, mtimecmp[h], now) /\ TimeIs
  BY ClintAssumption DEF ClintInv, ClintType
<1>u. /\ doing[h].reg[2] \in ClintHarts /\ doing[h].val \in Halves /\ doing[h].seen \in Halves
  BY <1>t DEF Accesses
<1>b. board = "native" \/ board = "shared"
  BY <1>t, ClintAssumption
<1>1. CASE ClintStore(h)
  <2>1. PICK reg \in Registers[board][h], part \in {"lo", "hi", "both"}, v \in Values :
          Goes(h, [Resting EXCEPT !.stage = "store", !.reg = reg, !.part = part, !.val = Split(v)])
    BY <1>1, Zenon DEF ClintStore
  <2>2. PICK d : d = [Resting EXCEPT !.stage = "store", !.reg = reg, !.part = part, !.val = Split(v)]
    OBVIOUS
  <2>3. reg \in {"mtimecmp", "msip", "mtime", "none"} \X ClintHarts
    BY <1>t, ClintAssumption
  <2>4. Split(v) \in Halves
    BY SplitFacts, ClintAssumption
  <2>5. d \in Accesses /\ d.stage = "store" /\ d.reg = reg
    BY <2>2, <2>3, <2>4, RestingIs, Zenon DEF Accesses, Stages
  <2>6. board = "shared" /\ reg[1] = "mtimecmp" => reg[2] = h
    BY <1>t, TimersAssumption
  <2>7. AccessIs(d, h, board, mtimecmp[h], now)
    BY <2>5, <2>6 DEF AccessIs
  <2>8. board' = board /\ mtime' = mtime /\ mtimecmp' = mtimecmp /\ now' = now /\ reported' = reported
    BY <1>1, Zenon DEF ClintStore
  <2>9. StepsTo(h, d)
    BY <2>1, <2>2, <2>5, <2>7, <2>8, <1>t, QuietSteps
  <2> QED BY <2>9, Zenon
<1>2. CASE StoreMsip(h) \/ StoreReadOnly(h)
  <2>1. board' = board /\ mtime' = mtime /\ mtimecmp' = mtimecmp /\ now' = now /\ reported' = reported
        /\ Goes(h, Resting)
    BY <1>2 DEF StoreMsip, StoreReadOnly
  <2>2. StepsTo(h, Resting)
    BY <2>1, <1>t, QuietSteps, RestingIs
  <2> QED BY <2>2
<1> DEFINE NativeStore == /\ board = "native" /\ board' = board /\ mtime' = mtime /\ now' = now
                          /\ reported' = reported /\ Goes(h, Resting)
                          /\ \E c \in Halves : mtimecmp' = [mtimecmp EXCEPT ![doing[h].reg[2]] = c]
<1>n. ASSUME NativeStore PROVE StepsTo(h, Resting)
  <2>1. mtimecmp' \in [ClintHarts -> Halves]
    BY <1>n, <1>t, Zenon
  <2>2. TimeIs'
    BY <1>n, <1>t DEF TimeIs
  <2> QED BY <1>n, <2>1, <2>2, <1>t, RestingIs DEF StepsTo
<1>3. CASE StoreMtimecmp(h)
  <2>1. NativeStore
    BY <1>3, <1>u, Zenon DEF StoreMtimecmp
  <2> QED BY <2>1, <1>n, Zenon
<1>4. CASE HalfExchange(h)
  <2>1. board = "native" /\ doing[h].val.lo \in 0 .. Word - 1
    BY <1>4, <1>t, <1>u DEF HalfExchange, ClintAt, AccessIs, Halves
  <2>2. [doing[h].seen EXCEPT !.lo = doing[h].val.lo] \in Halves
        /\ [doing[h].seen EXCEPT !.hi = doing[h].val.lo] \in Halves
    BY <2>1, <1>u DEF Halves
  <2>3. NativeStore
    BY <1>4, <2>1, <2>2, Zenon DEF HalfExchange
  <2> QED BY <2>3, <1>n, Zenon
<1>5. CASE HalfRead(h)
  <2>1. PICK d : d = [doing[h] EXCEPT !.stage = "cas", !.seen = mtimecmp[doing[h].reg[2]]]
    OBVIOUS
  <2>2. d \in Accesses /\ d.stage = "cas"
    BY <2>1, <1>t, <1>u, Zenon DEF Accesses, Stages
  <2>3. board' = board /\ mtime' = mtime /\ mtimecmp' = mtimecmp /\ now' = now /\ reported' = reported
        /\ Goes(h, d) /\ board = "native"
    BY <1>5, <2>1 DEF HalfRead
  <2>4. AccessIs(d, h, board, mtimecmp[h], now)
    BY <2>2, <2>3 DEF AccessIs
  <2>5. StepsTo(h, d)
    BY <2>2, <2>3, <2>4, <1>t, QuietSteps
  <2> QED BY <2>5
<1>6. CASE HalfRetry(h)
  <2>1. PICK d : d = [doing[h] EXCEPT !.stage = "store", !.seen = Split(0)]
    OBVIOUS
  <2>2. d \in Accesses /\ d.stage = "store"
    BY <2>1, <1>t, SplitFacts, Zenon DEF Accesses, Stages
  <2>3. board' = board /\ mtime' = mtime /\ mtimecmp' = mtimecmp /\ now' = now /\ reported' = reported
        /\ Goes(h, d) /\ board = "native"
    BY <1>6, <2>1, <1>t DEF HalfRetry, ClintAt, AccessIs
  <2>4. AccessIs(d, h, board, mtimecmp[h], now)
    BY <2>2, <2>3 DEF AccessIs
  <2>5. StepsTo(h, d)
    BY <2>2, <2>3, <2>4, <1>t, QuietSteps
  <2> QED BY <2>5
<1> HIDE DEF NativeStore
<1>7. CASE StoreWord(h)
  <2>1. PICK half \in {"lo", "hi"} : mtimecmp' = [mtimecmp EXCEPT ![doing[h].reg[2]][half] = doing[h].val.lo]
    BY <1>7, Zenon DEF StoreWord
  <2>2. doing[h].reg[2] = h /\ board = "shared"
    BY <1>7, <1>t DEF StoreWord, StoreOf, ClintAt, AccessIs
  <2>3. mtimecmp' \in [ClintHarts -> Halves] /\ \A g \in ClintHarts \ {h} : mtimecmp'[g] = mtimecmp[g]
    BY <2>1, <2>2, <1>t, <1>u DEF Halves
  <2>4. PICK d : d = IF doing[h].part = "both" THEN [doing[h] EXCEPT !.stage = "high"] ELSE Resting
    BY Zenon
  <2>5. d \in Accesses /\ d.stage \in {"high", "none"} /\ (d.stage = "high" => d.reg[2] = h)
    <3>1. CASE doing[h].part = "both"
      BY <3>1, <2>4, <2>2, <1>t DEF Accesses, Stages
    <3>2. CASE doing[h].part # "both"
      BY <3>2, <2>4, RestingIs
    <3> QED BY <3>1, <3>2
  <2>6. AccessIs(d, h, board, mtimecmp'[h], now)
    BY <2>2, <2>5 DEF AccessIs
  <2>7. board' = board /\ mtime' = mtime /\ now' = now /\ reported' = reported /\ Goes(h, d)
    BY <1>7, <2>4 DEF StoreWord
  <2>8. TimeIs'
    BY <2>7, <1>t DEF TimeIs
  <2>9. StepsTo(h, d)
    BY <2>3, <2>5, <2>6, <2>7, <2>8, <1>t DEF StepsTo
  <2> QED BY <2>9
<1>8. CASE StoreSecondWord(h)
  <2>2. doing[h].reg[2] = h /\ board = "shared"
    BY <1>8, <1>t DEF StoreSecondWord, ClintAt, AccessIs
  <2>1. mtimecmp' = [mtimecmp EXCEPT ![h].hi = doing[h].val.hi]
    BY <1>8, <2>2 DEF StoreSecondWord
  <2>3. mtimecmp' \in [ClintHarts -> Halves] /\ \A g \in ClintHarts \ {h} : mtimecmp'[g] = mtimecmp[g]
    BY <2>1, <1>t, <1>u DEF Halves
  <2>7. board' = board /\ mtime' = mtime /\ now' = now /\ reported' = reported /\ Goes(h, Resting)
    BY <1>8 DEF StoreSecondWord
  <2>8. TimeIs'
    BY <2>7, <1>t DEF TimeIs
  <2>9. StepsTo(h, Resting)
    BY <2>3, <2>7, <2>8, <1>t, RestingIs DEF StepsTo
  <2> QED BY <2>9
<1> QED BY <1>1, <1>2, <1>3, <1>4, <1>5, <1>6, <1>7, <1>8, <1>n

(* The time. *)
LEMMA TickStep ==
  ASSUME ClintInv, TickLow \/ TickHigh
  PROVE  \E d : StepsTo(0, d)
<1>t. /\ doing[0] \in Accesses /\ board \in Boards /\ mtimecmp \in [ClintHarts -> Halves]
      /\ mtime \in Halves /\ now \in 0 .. MaxTicks[board] /\ now <= now /\ MaxTicks[board] \in Nat
      /\ reported \in [ClintHarts -> BOOLEAN] /\ 0 \in ClintHarts
      /\ AccessIs(doing[0], 0, board, mtimecmp[0], now) /\ TimeIs
  BY ClintAssumption DEF ClintInv, ClintType
<1>1. CASE TickLow
  <2>1. /\ board = "shared" /\ now < MaxTicks[board] /\ MaxTicks[board] < Word
        /\ Whole(mtime) + 1 = now + 1 /\ now + 1 \in Nat /\ now + 1 < Word
        /\ now + 1 \in 0 .. MaxTicks[board] /\ now <= now + 1
    BY <1>1, <1>t, TimersAssumption, ClintAssumption DEF TickLow, TimeIs
  <2>2. Split(now + 1).lo = now + 1 /\ Split(now + 1).hi = 0 /\ Split(now + 1) \in Halves
    BY <2>1, SplitFacts
  <2>3. PICK d : d = [Resting EXCEPT !.stage = "tick", !.val = Split(now + 1)]
    OBVIOUS
  <2>4. d \in Accesses /\ d.stage = "tick" /\ d.val.hi = 0
    BY <2>2, <2>3, RestingIs, Zenon DEF Accesses, Stages
  <2>5. mtime' = [mtime EXCEPT !.lo = now + 1] /\ now' = now + 1 /\ Goes(0, d)
        /\ board' = board /\ mtimecmp' = mtimecmp /\ reported' = reported
    BY <1>1, <2>1, <2>2, <2>3, Zenon DEF TickLow
  <2>6. mtime' \in Halves /\ mtime'.lo = now + 1 /\ mtime'.hi = 0
    <3>1. now + 1 \in 0 .. Word - 1
      BY <2>1, ClintAssumption
    <3>2. mtime.hi = 0
      BY <2>1, <1>t DEF TimeIs
    <3> QED BY <3>1, <3>2, <2>5, <1>t DEF Halves
  <2>7. TimeIs'
    BY <2>1, <2>5, <2>6, ClintAssumption DEF TimeIs, Whole
  <2>8. AccessIs(d, 0, board, mtimecmp'[0], now')
    BY <2>1, <2>4 DEF AccessIs
  <2>9. StepsTo(0, d)
    BY <2>1, <2>4, <2>5, <2>6, <2>7, <2>8, <1>t DEF StepsTo
  <2> QED BY <2>9
<1>2. CASE TickHigh
  <2>1. board = "shared" /\ doing[0].val.hi = 0 /\ mtime.hi = 0
    BY <1>2, <1>t DEF TickHigh, ClintAt, AccessIs, TimeIs
  <2>2. mtime' = [mtime EXCEPT !.hi = 0] /\ now' = now /\ Goes(0, Resting)
        /\ board' = board /\ mtimecmp' = mtimecmp /\ reported' = reported
    BY <1>2, <2>1 DEF TickHigh
  <2>3. mtime' = mtime
    BY <2>1, <2>2, <1>t DEF Halves
  <2>4. StepsTo(0, Resting)
    BY <2>2, <2>3, <1>t, QuietSteps, RestingIs
  <2> QED BY <2>4
<1> QED BY <1>1, <1>2

(* The polls, and what the last step of one found. *)
LEMMA PollStep ==
  ASSUME ClintInv, NEW h \in ClintHarts,
         \/ NativePoll(h) \/ SharedPoll(h) \/ ReadMtime(h) \/ ReadMtimeHigh(h)
         \/ ReadMtimecmp(h) \/ ReadMtimecmpHigh(h)
  PROVE  /\ \E d : StepsTo(h, d)
         /\ Polling(doing[h]) /\ ~Polling(doing'[h]) /\ reported'[h]
              => now >= Whole(mtimecmp[h])
<1>t. /\ doing[h] \in Accesses /\ board \in Boards /\ mtimecmp \in [ClintHarts -> Halves]
      /\ mtime \in Halves /\ now \in 0 .. MaxTicks[board] /\ now <= now /\ MaxTicks[board] \in Nat
      /\ reported \in [ClintHarts -> BOOLEAN]
      /\ AccessIs(doing[h], h, board, mtimecmp[h], now) /\ TimeIs
      /\ doing \in [ClintHarts -> Accesses]
  BY ClintAssumption DEF ClintInv, ClintType
<1>b. board = "native" \/ board = "shared"
  BY <1>t, ClintAssumption
<1>d. ASSUME NEW d, Goes(h, d) PROVE doing'[h] = d
  BY <1>d, <1>t DEF Goes
<1>1. CASE NativePoll(h)
  <2>0. doing[h].stage = "none" /\ ~Polling(doing[h])
    BY <1>1 DEF NativePoll, ClintAt, Polling
  <2>1. PICK d : d = [Resting EXCEPT !.stage = "mtime"]
    BY Zenon
  <2>2. d \in Accesses /\ d.stage = "mtime"
    BY <2>1, RestingIs DEF Accesses, Stages
  <2>3. board = "native" /\ Goes(h, d) /\ board' = board /\ mtimecmp' = mtimecmp /\ reported' = reported
    BY <1>1, <2>1 DEF NativePoll
  <2>4. \A n : AccessIs(d, h, board, mtimecmp[h], n)
    BY <2>2 DEF AccessIs
  <2>5. CASE TicksHere(h)
    <3>1. h = 0 /\ now < MaxTicks[board] /\ now' = now + 1 /\ mtime' = Split(Whole(mtime) + 1)
      BY <1>1, <2>5 DEF NativePoll, TicksHere
    <3>2. /\ now + 1 \in Nat /\ now + 1 < Word * Word /\ Whole(mtime) + 1 = now + 1
          /\ now + 1 \in 0 .. MaxTicks[board] /\ now <= now + 1
      BY <3>1, <2>3, <1>t, TimersAssumption, ClintAssumption DEF TimeIs
    <3>3. mtime' \in Halves /\ Whole(mtime') = now + 1
      BY <3>1, <3>2, SplitFacts
    <3>4. TimeIs'
      BY <3>1, <3>3, <2>3 DEF TimeIs, Whole
    <3>5. StepsTo(h, d)
      BY <2>2, <2>3, <2>4, <3>1, <3>2, <3>3, <3>4, <1>t DEF StepsTo
    <3> QED BY <3>5, <2>0
  <2>6. CASE ~TicksHere(h)
    <3>1. mtime' = mtime /\ now' = now
      BY <1>1, <2>6 DEF NativePoll
    <3>2. StepsTo(h, d)
      BY <3>1, <2>2, <2>3, <2>4, <1>t, QuietSteps
    <3> QED BY <3>2, <2>0
  <2> QED BY <2>5, <2>6
<1>2. CASE SharedPoll(h)
  <2>0. doing[h].stage = "none" /\ ~Polling(doing[h])
    BY <1>2 DEF SharedPoll, ClintAt, Polling
  <2>1. PICK d : d = [Resting EXCEPT !.stage = "mtime"]
    BY Zenon
  <2>2. d \in Accesses /\ d.stage = "mtime"
    BY <2>1, RestingIs DEF Accesses, Stages
  <2>3. Goes(h, d) /\ board' = board /\ mtimecmp' = mtimecmp /\ reported' = reported
        /\ mtime' = mtime /\ now' = now
    BY <1>2, <2>1 DEF SharedPoll
  <2>4. AccessIs(d, h, board, mtimecmp[h], now)
    BY <2>2 DEF AccessIs
  <2>5. StepsTo(h, d)
    BY <2>2, <2>3, <2>4, <1>t, QuietSteps
  <2> QED BY <2>5, <2>0
<1>3. CASE ReadMtime(h)
  <2>0. PICK l \in {"cmp", "time_hi"} : l = IF board = "native" THEN "cmp" ELSE "time_hi"
    OBVIOUS
  <2>1. PICK d : d = [doing[h] EXCEPT !.stage = l, !.val = mtime]
    OBVIOUS
  <2>2. d \in Accesses /\ d.stage = l /\ d.val = mtime
    BY <2>1, <1>t, Zenon DEF Accesses, Stages
  <2>3. Goes(h, d) /\ board' = board /\ mtimecmp' = mtimecmp /\ reported' = reported
        /\ mtime' = mtime /\ now' = now
    BY <1>3, <2>0, <2>1 DEF ReadMtime
  <2>4. AccessIs(d, h, board, mtimecmp[h], now)
    BY <2>0, <2>2, <1>b, <1>t DEF AccessIs, TimeIs
  <2>5. StepsTo(h, d)
    BY <2>2, <2>3, <2>4, <1>t, QuietSteps
  <2>6. Polling(doing'[h])
    BY <2>2, <2>3, <1>d DEF Polling
  <2> QED BY <2>5, <2>6
<1>4. CASE ReadMtimeHigh(h)
  <2>1. PICK d : d = [doing[h] EXCEPT !.stage = "cmp", !.val.hi = mtime.hi]
    OBVIOUS
  <2>2. board = "shared" /\ doing[h].val.lo <= now /\ mtime.hi = 0 /\ doing[h].val.lo \in Nat
    BY <1>4, <1>t, ClintAssumption DEF ReadMtimeHigh, ClintAt, AccessIs, TimeIs, Accesses, Halves
  <2>3. d \in Accesses /\ d.stage = "cmp" /\ d.val.hi = 0 /\ d.val.lo = doing[h].val.lo
    BY <2>1, <2>2, <1>t, ZenonT(40) DEF Accesses, Stages, Halves
  <2>4. Whole(d.val) <= now
    BY <2>2, <2>3, ClintAssumption DEF Whole
  <2>5. Goes(h, d) /\ board' = board /\ mtimecmp' = mtimecmp /\ reported' = reported
        /\ mtime' = mtime /\ now' = now
    BY <1>4, <2>1 DEF ReadMtimeHigh
  <2>6. AccessIs(d, h, board, mtimecmp[h], now)
    BY <2>3, <2>4 DEF AccessIs
  <2>7. StepsTo(h, d)
    BY <2>3, <2>5, <2>6, <1>t, QuietSteps
  <2>8. Polling(doing'[h])
    BY <2>3, <2>5, <1>d DEF Polling
  <2> QED BY <2>7, <2>8
<1>r. ASSUME NEW c, Reports(h, c), Whole(doing[h].val) <= now, Whole(c) = Whole(mtimecmp[h]),
             board' = board, mtimecmp' = mtimecmp, mtime' = mtime, now' = now
      PROVE  /\ \E d : StepsTo(h, d)
             /\ reported'[h] => now >= Whole(mtimecmp[h])
  <2>1. reported' = [reported EXCEPT ![h] = Whole(doing[h].val) >= Whole(c)] /\ Goes(h, Resting)
    BY <1>r DEF Reports
  <2>2. reported' \in [ClintHarts -> BOOLEAN]
    BY <2>1, <1>t
  <2>3. StepsTo(h, Resting)
    BY <2>1, <2>2, <1>r, <1>t, QuietSteps, RestingIs, Zenon
  <2>4. /\ Whole(doing[h].val) \in Int /\ Whole(mtimecmp[h]) \in Int /\ now \in Int
        /\ reported'[h] = (Whole(doing[h].val) >= Whole(c))
    BY <2>1, <1>t, ClintAssumption DEF Whole, Accesses, Halves
  <2>5. reported'[h] => now >= Whole(mtimecmp[h])
    <3> SUFFICES ASSUME reported'[h] PROVE now >= Whole(mtimecmp[h])
      OBVIOUS
    <3>1. Whole(doing[h].val) >= Whole(c)
      BY <2>4, Zenon
    <3>2. Whole(doing[h].val) >= Whole(mtimecmp[h])
      BY <3>1, <1>r
    <3> QED BY <3>2, <2>4, <1>r
  <2> QED BY <2>3, <2>5, Zenon
<1>5. CASE ReadMtimecmp(h)
  <2>0. board' = board /\ mtimecmp' = mtimecmp /\ mtime' = mtime /\ now' = now
        /\ Whole(doing[h].val) <= now
    BY <1>5, <1>t DEF ReadMtimecmp, ClintAt, AccessIs
  <2>1. CASE board = "native"
    <3>1. Reports(h, mtimecmp[h])
      BY <1>5, <2>1 DEF ReadMtimecmp
    <3> QED BY <3>1, <2>0, <1>r
  <2>2. CASE board # "native"
    <3>1. PICK d : d = [doing[h] EXCEPT !.stage = "cmp_hi", !.seen = mtimecmp[h]]
      OBVIOUS
    <3>2. d \in Accesses /\ d.stage = "cmp_hi" /\ d.seen = mtimecmp[h] /\ d.val = doing[h].val
      BY <3>1, <1>t, Zenon DEF Accesses, Stages
    <3>3. Goes(h, d) /\ reported' = reported
      BY <1>5, <2>2, <3>1 DEF ReadMtimecmp
    <3>4. AccessIs(d, h, board, mtimecmp[h], now)
      BY <3>2, <2>0, <2>2, <1>b DEF AccessIs
    <3>5. StepsTo(h, d)
      BY <3>2, <3>3, <3>4, <2>0, <1>t, QuietSteps
    <3>6. Polling(doing'[h])
      BY <3>2, <3>3, <1>d, Zenon DEF Polling
    <3> QED BY <3>5, <3>6
  <2> QED BY <2>1, <2>2
<1>6. CASE ReadMtimecmpHigh(h)
  <2>0. board' = board /\ mtimecmp' = mtimecmp /\ mtime' = mtime /\ now' = now
        /\ Whole(doing[h].val) <= now /\ doing[h].seen.lo = mtimecmp[h].lo
    BY <1>6, <1>t DEF ReadMtimecmpHigh, ClintAt, AccessIs
  <2>1. PICK c : c = [doing[h].seen EXCEPT !.hi = mtimecmp[h].hi]
    BY Zenon
  <2>2. Whole(c) = Whole(mtimecmp[h])
    BY <2>0, <2>1, <1>t DEF Whole, Accesses, Halves
  <2>3. Reports(h, c)
    BY <1>6, <2>1 DEF ReadMtimecmpHigh
  <2> QED BY <2>0, <2>2, <2>3, <1>r
<1> QED BY <1>1, <1>2, <1>3, <1>4, <1>5, <1>6

(* Every tick and every step of every hart. *)
LEMMA NextClint == ClintInv /\ [ClintNext]_cVars => ClintInv'
<1> SUFFICES ASSUME ClintInv, [ClintNext]_cVars PROVE ClintInv'
  OBVIOUS
<1>1. CASE ClintNext
  <2>0. Watch
    BY <1>1 DEF ClintNext
  <2>1. CASE TickLow \/ TickHigh
    BY <2>0, <2>1, TickStep, StepsToKeeps, ClintAssumption
  <2>2. ASSUME NEW h \in ClintHarts, ClintStep(h) PROVE ClintInv'
    <3>1. \E d : StepsTo(h, d)
      BY <2>2, StoreStep, PollStep DEF ClintStep
    <3> QED BY <3>1, <2>0, StepsToKeeps
  <2> QED BY <1>1, <2>1, <2>2 DEF ClintNext
<1>2. CASE UNCHANGED cVars
  <2>1. /\ board' = board /\ mtime' = mtime /\ mtimecmp' = mtimecmp /\ doing' = doing
        /\ now' = now /\ due' = due /\ reported' = reported
    BY <1>2 DEF cVars
  <2>2. ClintType' /\ TimeIs' /\ DueIs'
    BY <2>1 DEF ClintInv, ClintType, TimeIs, DueIs
  <2>3. \A h \in ClintHarts : AccessIs(doing'[h], h, board', mtimecmp'[h], now')
    BY <2>1 DEF ClintInv
  <2> QED BY <2>2, <2>3 DEF ClintInv
<1> QED BY <1>1, <1>2

(* For any harts, word size and stores, native or shared: a poll that      *)
(* reports the timer saw a moment at which the time had reached the        *)
(* compare register, although it reads the two, and on a shared board      *)
(* their words, at different moments (check_interrupts_for_hart), as long  *)
(* as the time does not overflow, or on a shared board carry.              *)
THEOREM ClintTimerIsDue == ClintSpec => TimerIsDue
<1> DEFINE Due == \A h \in ClintHarts :
                    Polling(doing[h]) /\ ~Polling(doing'[h]) /\ reported'[h] => due[h]
<1>1. ClintInv /\ [ClintNext]_cVars => [Due]_cVars
  <2> SUFFICES ASSUME ClintInv, ClintNext, NEW h \in ClintHarts,
                      Polling(doing[h]), ~Polling(doing'[h]), reported'[h]
               PROVE  due[h]
    OBVIOUS
  <2>t. doing \in [ClintHarts -> Accesses]
    BY DEF ClintInv, ClintType
  <2>1. now >= Whole(mtimecmp[h])
    <3>0. ASSUME NEW g \in ClintHarts, NEW d, Goes(g, d) PROVE g = h
      BY <3>0, <2>t DEF Goes
    <3>1. CASE TickLow \/ TickHigh
      <4>1. h = 0
        BY <3>0, <3>1, ClintAssumption, Zenon DEF TickLow, TickHigh
      <4> QED BY <3>1, <4>1 DEF TickLow, TickHigh, ClintAt, Polling
    <3>2. ASSUME NEW g \in ClintHarts, ClintStep(g) PROVE now >= Whole(mtimecmp[h])
      <4>1. CASE \/ NativePoll(g) \/ SharedPoll(g) \/ ReadMtime(g) \/ ReadMtimeHigh(g)
                 \/ ReadMtimecmp(g) \/ ReadMtimecmpHigh(g)
        <5>1. g = h
          BY <4>1, PollStep, <3>0 DEF StepsTo
        <5> QED BY <4>1, <5>1, PollStep, Zenon
      <4>2. CASE \/ ClintStore(g) \/ StoreMsip(g) \/ StoreReadOnly(g) \/ StoreMtimecmp(g)
                 \/ HalfRead(g) \/ HalfExchange(g) \/ HalfRetry(g) \/ StoreWord(g) \/ StoreSecondWord(g)
        <5>1. g = h
          BY <4>2, StoreStep, <3>0, Zenon DEF StepsTo
        <5>2. ~Polling(doing[g])
          BY <4>2, Zenon DEF ClintStore, StoreMsip, StoreReadOnly, StoreMtimecmp, HalfRead, HalfExchange,
                      HalfRetry, StoreWord, StoreSecondWord, StoreOf, ClintAt, Polling
        <5> QED BY <5>1, <5>2, Zenon
      <4> QED BY <3>2, <4>1, <4>2, Zenon DEF ClintStep
    <3> QED BY <3>1, <3>2 DEF ClintNext
  <2> QED BY <2>1 DEF ClintInv, DueIs
<1>2. QED
  BY <1>1, InitClint, NextClint, PTL DEF ClintSpec, TimerIsDue

-----------------------------------------------------------------------------
(* What a trap of each level saved is still where its return looks for it. *)
SavedInM(h, s) ==
  s # Nil => /\ s.mode \in Modes /\ h.status.mpp = Level(s.mode)
             /\ h.status.mpie = s.ie /\ h.mepc = s.pc

SavedInS(h, s) ==
  s # Nil => /\ s.mode \in {"U", "S"} /\ h.status.spp = (s.mode = "S")
             /\ h.status.spie = s.ie /\ h.sepc = s.pc

SavedIs(h, s) == /\ s = [l \in {"M", "S"} |-> s[l]]
                 /\ SavedInM(h, s["M"]) /\ SavedInS(h, s["S"])

(* A trap vector is an address. *)
LEMMA TargetIsPc ==
  ASSUME NEW l, NEW i \in BOOLEAN, NEW cause \in Int, NEW v \in BOOLEAN
  PROVE  Target(l, i, cause, v) \in Int
BY DEF Target, Base

(* What a trap interrupts. *)
Entry(h, ie) == [mode |-> h.mode, ie |-> ie, pc |-> h.pc]

(* handle_trap to S mode leaves in sepc, SPP and SPIE what it interrupted,
   and what the last trap to M mode saved. *)
LEMMA TrapToSSaves ==
  ASSUME NEW h \in HartStates, NEW s, SavedIs(h, s), NEW i \in BOOLEAN, NEW cause \in Int,
         h.mode # "M", NEW n, n = TrapToS(h, i, cause, h.pc),
         NEW t, t = [s EXCEPT !["S"] = Entry(h, h.status.sie)]
  PROVE  n \in HartStates /\ n.mode = "S" /\ SavedIs(n, t)
<1> DEFINE st == [h.status EXCEPT !.spie = h.status.sie, !.sie = FALSE, !.spp = (h.mode = "S")]
<1>1. h.status \in StatusBits /\ h.mode \in Modes /\ h.pc \in Int /\ h.vectored \in BOOLEAN
  BY DEF HartStates
<1>2. PICK p \in Int : p = Target("S", i, cause, h.vectored)
  BY <1>1, TargetIsPc
<1>3. st \in StatusBits
  BY <1>1, Zenon DEF StatusBits
<1>4. st.mpp = h.status.mpp /\ st.mpie = h.status.mpie /\ st.spie = h.status.sie
      /\ st.spp = (h.mode = "S")
  BY <1>1 DEF StatusBits
<1>5. n = [h EXCEPT !.sepc = h.pc, !.status = st, !.mode = "S", !.pc = p]
  BY <1>2, Zenon DEF TrapToS
<1> HIDE DEF st
<1>6. n \in HartStates /\ n.mode = "S" /\ n.status = st /\ n.sepc = h.pc /\ n.mepc = h.mepc
  BY <1>1, <1>3, <1>5, Zenon DEF HartStates, Modes
<1>7. t = [l \in {"M", "S"} |-> t[l]] /\ t["M"] = s["M"]
      /\ t["S"] = [mode |-> h.mode, ie |-> h.status.sie, pc |-> h.pc]
  BY Zenon DEF SavedIs, Entry
<1>8. SavedInM(n, t["M"])
  BY <1>4, <1>6, <1>7 DEF SavedIs, SavedInM
<1>9. SavedInS(n, t["S"])
  BY <1>1, <1>4, <1>6, <1>7 DEF SavedInS, Modes
<1> QED BY <1>6, <1>7, <1>8, <1>9 DEF SavedIs

(* handle_trap to M mode leaves in mepc, MPP and MPIE what it interrupted,
   and what the last trap to S mode saved. *)
LEMMA TrapToMSaves ==
  ASSUME NEW h \in HartStates, NEW s, SavedIs(h, s), NEW i \in BOOLEAN, NEW cause \in Int,
         NEW n, n = TrapToM(h, i, cause, h.pc),
         NEW t, t = [s EXCEPT !["M"] = Entry(h, h.status.mie)]
  PROVE  n \in HartStates /\ n.mode = "M" /\ SavedIs(n, t)
<1> DEFINE st == [h.status EXCEPT !.mpie = h.status.mie, !.mie = FALSE, !.mpp = ToMpp(h.mode)]
<1>1. h.status \in StatusBits /\ h.mode \in Modes /\ h.pc \in Int /\ h.vectored \in BOOLEAN
  BY DEF HartStates
<1>2. PICK p \in Int : p = Target("M", i, cause, h.vectored)
  BY <1>1, TargetIsPc
<1>0. ToMpp(h.mode) \in 0 .. 3 /\ ToMpp(h.mode) = Level(h.mode)
  BY <1>1 DEF ToMpp, Level, Modes
<1>3. st \in StatusBits
  BY <1>0, <1>1, Zenon DEF StatusBits
<1>4. st.spp = h.status.spp /\ st.spie = h.status.spie /\ st.mpie = h.status.mie
      /\ st.mpp = Level(h.mode)
  BY <1>0, <1>1 DEF StatusBits
<1>5. n = [h EXCEPT !.mepc = h.pc, !.status = st, !.mode = "M", !.pc = p]
  BY <1>2, Zenon DEF TrapToM
<1> HIDE DEF st
<1>6. n \in HartStates /\ n.mode = "M" /\ n.status = st /\ n.mepc = h.pc /\ n.sepc = h.sepc
  BY <1>1, <1>3, <1>5, ZenonT(40) DEF HartStates, Modes
<1>7. t = [l \in {"M", "S"} |-> t[l]] /\ t["S"] = s["S"]
      /\ t["M"] = [mode |-> h.mode, ie |-> h.status.mie, pc |-> h.pc]
  BY Zenon DEF SavedIs, Entry
<1>8. SavedInS(n, t["S"])
  BY <1>4, <1>6, <1>7 DEF SavedIs, SavedInS
<1>9. SavedInM(n, t["M"])
  BY <1>1, <1>4, <1>6, <1>7 DEF SavedInM
<1> QED BY <1>6, <1>7, <1>8, <1>9 DEF SavedIs

(* What is left of s when the levels are overwritten. *)
Keep(s, levels) == [l \in {"M", "S"} |-> IF l \in levels THEN Nil ELSE s[l]]

(* What the trap that took h to n saves. *)
Record(s, n, h) ==
  [s EXCEPT ![n.mode] =
     Entry(h, IF n.mode = "M" THEN h.status.mie ELSE h.status.sie)]

(* handle_trap, wherever the trap is delegated, saves what it interrupts. *)
LEMMA HandleTrapSaves ==
  ASSUME NEW h \in HartStates, NEW s, SavedIs(h, s), NEW i \in BOOLEAN, NEW cause \in Int,
         NEW n, n = HandleTrap(h, i, cause, h.pc), NEW t, t = Record(s, n, h)
  PROVE  n \in HartStates /\ SavedIs(n, t)
<1>1. CASE DelegatedToS(h, i, cause)
  <2>1. n = TrapToS(h, i, cause, h.pc) /\ h.mode # "M"
    BY <1>1 DEF HandleTrap, DelegatedToS
  <2>2. PICK u : u = [s EXCEPT !["S"] = Entry(h, h.status.sie)]
    BY Zenon
  <2>3. n \in HartStates /\ n.mode = "S" /\ SavedIs(n, u)
    BY <2>1, <2>2, TrapToSSaves, Zenon
  <2>4. t = u
    BY <2>2, <2>3 DEF Record
  <2> QED BY <2>3, <2>4
<1>2. CASE ~DelegatedToS(h, i, cause)
  <2>1. n = TrapToM(h, i, cause, h.pc)
    BY <1>2 DEF HandleTrap
  <2>2. PICK u : u = [s EXCEPT !["M"] = Entry(h, h.status.mie)]
    BY Zenon
  <2>3. n \in HartStates /\ n.mode = "M" /\ SavedIs(n, u)
    BY <2>1, <2>2, TrapToMSaves, Zenon
  <2>4. t = u
    BY <2>2, <2>3 DEF Record
  <2> QED BY <2>3, <2>4
<1> QED BY <1>1, <1>2

(* What was saved stays where it is when mstatus, mepc and sepc do. *)
LEMMA SameSaved ==
  ASSUME NEW h, NEW n, NEW s, SavedIs(h, s), n.status = h.status, n.mepc = h.mepc,
         n.sepc = h.sepc
  PROVE  SavedIs(n, s)
BY DEF SavedIs, SavedInM, SavedInS

(* The poll of the interrupt lines writes mip and nothing else. *)
LEMMA RefreshKeeps ==
  ASSUME NEW h \in HartStates, NEW c, NEW out, NEW s, SavedIs(h, s),
         NEW n, n = RefreshMip(h, c, out)
  PROVE  n \in HartStates /\ SavedIs(n, s) /\ n.mode = h.mode /\ n.ie = h.ie
         /\ n.mideleg = h.mideleg /\ n.status = h.status
<1>1. PICK ip : ip = (h.ip \ (HwBits \cup (IF c.sstc THEN {5} ELSE {})))
                      \cup (HwMip(c, out) \cap (HwBits \cup (IF c.sstc THEN {5} ELSE {})))
  BY Zenon
<1>2. n = [h EXCEPT !.ip = ip]
  BY <1>1 DEF RefreshMip
<1>3. ip \subseteq Int
  <2>1. h.ip \subseteq Int
    BY DEF HartStates
  <2> QED BY <1>1, <2>1 DEF HwBits
<1>4. n \in HartStates /\ n.mode = h.mode /\ n.ie = h.ie /\ n.mideleg = h.mideleg
      /\ n.status = h.status /\ n.mepc = h.mepc /\ n.sepc = h.sepc
  BY <1>2, <1>3 DEF HartStates
<1> QED BY <1>4, SameSaved

(* MRET restores what the last trap to M mode saved, and leaves what the
   last trap to S mode saved. *)
LEMMA MretRestores ==
  ASSUME NEW h \in HartStates, NEW s, SavedIs(h, s), h.mode = "M", NEW n, n = Mret(h)
  PROVE  /\ n \in HartStates /\ SavedIs(n, Keep(s, {"M"}))
         /\ s["M"] # Nil => /\ n.mode = s["M"].mode /\ n.pc = s["M"].pc
                            /\ s["M"].ie = n.status.mie
<1> DEFINE st == [h.status EXCEPT !.mie = h.status.mpie, !.mpie = TRUE, !.mpp = 0]
<1>1. h.status \in StatusBits /\ h.mepc \in Int
  BY DEF HartStates
<1>2. PICK m \in Modes : m = FromMpp(h.status.mpp)
  BY DEF FromMpp, Modes
<1>3. st \in StatusBits /\ st.mie = h.status.mpie /\ st.spp = h.status.spp
      /\ st.spie = h.status.spie
  <2>1. st \in StatusBits
    <3>1. PICK b \in BOOLEAN : b = h.status.mpie
      BY <1>1 DEF StatusBits
    <3>2. st = [h.status EXCEPT !.mie = b, !.mpie = TRUE, !.mpp = 0]
      BY <3>1
    <3>3. 0 \in 0 .. 3
      OBVIOUS
    <3> HIDE DEF st
    <3> QED BY <1>1, <3>2, <3>3, Zenon DEF StatusBits
  <2>2. st.mie = h.status.mpie
    BY <1>1 DEF StatusBits
  <2>3. st.spp = h.status.spp /\ st.spie = h.status.spie
    BY <1>1 DEF StatusBits
  <2> QED BY <2>1, <2>2, <2>3
<1>4. n = [h EXCEPT !.mode = m, !.status = st, !.pc = h.mepc]
  BY <1>2, Zenon DEF Mret
<1> HIDE DEF st
<1>5. n \in HartStates /\ n.mode = m /\ n.status = st /\ n.pc = h.mepc /\ n.sepc = h.sepc
  BY <1>1, <1>3, <1>4, Zenon DEF HartStates
<1>6. s["M"] # Nil => /\ n.mode = s["M"].mode /\ n.pc = s["M"].pc
                      /\ s["M"].ie = n.status.mie
  BY <1>2, <1>3, <1>5 DEF SavedIs, SavedInM, FromMpp, Level, Modes
<1>7. PICK t : t = Keep(s, {"M"})
  OBVIOUS
<1>8. t = [l \in {"M", "S"} |-> t[l]] /\ t["M"] = Nil /\ t["S"] = s["S"]
  BY <1>7 DEF Keep
<1>9. SavedIs(n, t)
  BY <1>3, <1>5, <1>8 DEF SavedIs, SavedInM, SavedInS
<1> QED BY <1>5, <1>6, <1>7, <1>9

(* SRET restores what the last trap to S mode saved, and leaves what the
   last trap to M mode saved. *)
LEMMA SretRestores ==
  ASSUME NEW h \in HartStates, NEW s, SavedIs(h, s), h.mode = "S", NEW n, n = Sret(h)
  PROVE  /\ n \in HartStates /\ SavedIs(n, Keep(s, {"S"}))
         /\ s["S"] # Nil => /\ n.mode = s["S"].mode /\ n.pc = s["S"].pc
                            /\ s["S"].ie = n.status.sie
<1> DEFINE st == [h.status EXCEPT !.sie = h.status.spie, !.spie = TRUE, !.spp = FALSE]
<1>1. h.status \in StatusBits /\ h.sepc \in Int
  BY DEF HartStates
<1>2. PICK m \in Modes : m = IF h.status.spp THEN "S" ELSE "U"
  BY DEF Modes
<1>3. st \in StatusBits /\ st.sie = h.status.spie /\ st.mpp = h.status.mpp
      /\ st.mpie = h.status.mpie
  BY <1>1, Zenon DEF StatusBits
<1>4. n = [h EXCEPT !.mode = m, !.status = st, !.pc = h.sepc]
  BY <1>2, Zenon DEF Sret
<1> HIDE DEF st
<1>5. n \in HartStates /\ n.mode = m /\ n.status = st /\ n.pc = h.sepc /\ n.mepc = h.mepc
  BY <1>1, <1>3, <1>4, Zenon DEF HartStates
<1>6. s["S"] # Nil => /\ n.mode = s["S"].mode /\ n.pc = s["S"].pc
                      /\ s["S"].ie = n.status.sie
  BY <1>2, <1>3, <1>5, Zenon DEF SavedIs, SavedInS
<1>7. PICK t : t = Keep(s, {"S"})
  OBVIOUS
<1>8. t = [l \in {"M", "S"} |-> t[l]] /\ t["S"] = Nil /\ t["M"] = s["M"]
  BY <1>7 DEF Keep
<1>9. SavedIs(n, t)
  BY <1>3, <1>5, <1>8 DEF SavedIs, SavedInM, SavedInS
<1> QED BY <1>5, <1>6, <1>7, <1>9

(* What was not overwritten is still saved. *)
LEMMA KeepForgets ==
  ASSUME NEW n, NEW s, NEW levels, s = [l \in {"M", "S"} |-> s[l]],
         "M" \in levels \/ SavedInM(n, s["M"]), "S" \in levels \/ SavedInS(n, s["S"])
  PROVE  SavedIs(n, Keep(s, levels))
<1>1. PICK t : t = Keep(s, levels)
  OBVIOUS
<1>2. t = [l \in {"M", "S"} |-> t[l]] /\ t["M"] = (IF "M" \in levels THEN Nil ELSE s["M"])
      /\ t["S"] = (IF "S" \in levels THEN Nil ELSE s["S"])
  BY <1>1 DEF Keep
<1>3. SavedInM(n, t["M"])
  BY <1>2 DEF SavedInM
<1>4. SavedInS(n, t["S"])
  BY <1>2 DEF SavedInS
<1> QED BY <1>1, <1>2, <1>3, <1>4 DEF SavedIs

(* The levels whose saved state a write to csr replaces. *)
Overwritten(csr) ==
  CASE csr = "mstatus" -> {"M", "S"}
    [] csr = "mepc" -> {"M"}
    [] csr \in {"sstatus", "sepc"} -> {"S"}
    [] OTHER -> {}

(* A jump changes pc alone. *)
LEMMA SetsPc ==
  ASSUME NEW h \in HartStates, NEW p \in Int, NEW n, n = [h EXCEPT !.pc = p]
  PROVE  /\ n \in HartStates /\ n.status = h.status /\ n.mepc = h.mepc /\ n.sepc = h.sepc
         /\ n.mode = h.mode
BY DEF HartStates

(* A write to mstatus changes mstatus alone. *)
LEMMA StatusWritten ==
  ASSUME NEW h \in HartStates, NEW st \in StatusBits, NEW w, w = [h EXCEPT !.status = st]
  PROVE  w \in HartStates /\ w.status = st /\ w.mepc = h.mepc /\ w.sepc = h.sepc
BY DEF HartStates

(* write_csr disturbs what a trap saved only through the CSRs that hold it:
   a write to sstatus, sie, sip or sepc leaves what a trap to M mode saved. *)
LEMMA CsrWriteKeeps ==
  ASSUME NEW h \in HartStates, NEW s, SavedIs(h, s), NEW v \in CsrValues,
         NEW w, w = CsrWrite(h, v[1], v[2])
  PROVE  /\ w \in HartStates
         /\ "M" \in Overwritten(v[1]) \/ SavedInM(w, s["M"])
         /\ "S" \in Overwritten(v[1]) \/ SavedInS(w, s["S"])
<1>0. h.status \in StatusBits /\ h.ie \subseteq Int /\ h.ip \subseteq Int
  BY DEF HartStates
<1>1. CASE v[1] = "mstatus"
  <2>1. v[2] \in StatusBits
    BY <1>1, PrivilegeAssumption DEF CsrValues
  <2>2. w = [h EXCEPT !.status = v[2]]
    BY <1>1 DEF CsrWrite
  <2>3. Overwritten(v[1]) = {"M", "S"}
    BY <1>1 DEF Overwritten
  <2> QED BY <2>1, <2>2, <2>3, StatusWritten
<1>2. CASE v[1] = "sstatus"
  <2>1. PICK x \in StatusBits : x = v[2]
    BY <1>2, PrivilegeAssumption DEF CsrValues
  <2>2. x.sie \in BOOLEAN /\ x.spie \in BOOLEAN /\ x.spp \in BOOLEAN
    BY DEF StatusBits
  <2>3. PICK st : st = [h.status EXCEPT !.sie = x.sie, !.spie = x.spie, !.spp = x.spp]
    OBVIOUS
  <2>4. st \in StatusBits /\ st.mpp = h.status.mpp /\ st.mpie = h.status.mpie
    <3>1. PICK r \in StatusBits : r = h.status
      BY <1>0
    <3>2. PICK a \in BOOLEAN : a = x.sie
      BY <2>2
    <3>3. PICK b \in BOOLEAN : b = x.spie
      BY <2>2
    <3>4. PICK c \in BOOLEAN : c = x.spp
      BY <2>2
    <3>5. st = [r EXCEPT !.sie = a, !.spie = b, !.spp = c]
      BY <2>3, <3>1, <3>2, <3>3, <3>4, Zenon
    <3>6. st \in StatusBits /\ st.mpp = r.mpp /\ st.mpie = r.mpie
      BY <3>5, Zenon DEF StatusBits
    <3> QED BY <3>1, <3>6
  <2>5. w = [h EXCEPT !.status = st]
    BY <1>2, <2>1, <2>3, Zenon DEF CsrWrite
  <2>6. w \in HartStates /\ w.status = st /\ w.mepc = h.mepc
    BY <2>4, <2>5, StatusWritten
  <2>7. SavedInM(w, s["M"])
    BY <2>4, <2>6 DEF SavedIs, SavedInM
  <2>8. "S" \in Overwritten(v[1])
    BY <1>2 DEF Overwritten
  <2> QED BY <2>6, <2>7, <2>8
<1>3. CASE v[1] \in {"mie", "sie"}
  <2>1. v[2] \subseteq Int
    BY <1>3, PrivilegeAssumption, Zenon DEF CsrValues
  <2>2. PICK e : e = IF v[1] = "mie" THEN v[2] ELSE (h.ie \ SieMask) \cup (v[2] \cap SieMask)
    BY Zenon
  <2>3. e \subseteq Int
    BY <1>0, <2>1, <2>2
  <2>4. w = [h EXCEPT !.ie = e]
    BY <1>3, <2>2, Zenon DEF CsrWrite
  <2>5. w \in HartStates /\ w.status = h.status /\ w.mepc = h.mepc /\ w.sepc = h.sepc
    BY <2>3, <2>4 DEF HartStates
  <2> QED BY <2>5 DEF SavedIs, SavedInM, SavedInS
<1>4. CASE v[1] \in {"mip", "sip"}
  <2>1. v[2] \subseteq Int
    BY <1>4, PrivilegeAssumption, Zenon DEF CsrValues
  <2>2. PICK e : e = IF v[1] = "mip" THEN v[2] ELSE (h.ip \ {1}) \cup (v[2] \cap {1})
    BY Zenon
  <2>3. e \subseteq Int
    BY <1>0, <2>1, <2>2
  <2>4. w = [h EXCEPT !.ip = e]
    BY <1>4, <2>2, Zenon DEF CsrWrite
  <2>5. w \in HartStates /\ w.status = h.status /\ w.mepc = h.mepc /\ w.sepc = h.sepc
    BY <2>3, <2>4 DEF HartStates
  <2> QED BY <2>5 DEF SavedIs, SavedInM, SavedInS
<1>5. CASE v[1] = "mepc"
  <2>1. v[2] \in Int
    BY <1>5, PrivilegeAssumption, Zenon DEF CsrValues
  <2>2. w = [h EXCEPT !.mepc = v[2]]
    BY <1>5 DEF CsrWrite
  <2>3. w \in HartStates /\ w.status = h.status /\ w.sepc = h.sepc
    BY <2>1, <2>2 DEF HartStates
  <2>4. "M" \in Overwritten(v[1])
    BY <1>5 DEF Overwritten
  <2> QED BY <2>3, <2>4 DEF SavedIs, SavedInS
<1>6. CASE v[1] = "sepc"
  <2>1. v[2] \in Int
    BY <1>6, PrivilegeAssumption, Zenon DEF CsrValues
  <2>2. w = [h EXCEPT !.sepc = v[2]]
    BY <1>6 DEF CsrWrite
  <2>3. w \in HartStates /\ w.status = h.status /\ w.mepc = h.mepc
    BY <2>1, <2>2 DEF HartStates
  <2>4. "S" \in Overwritten(v[1])
    BY <1>6 DEF Overwritten
  <2> QED BY <2>3, <2>4 DEF SavedIs, SavedInM
<1>7. CASE v[1] = "deleg"
  <2>1. v[2].i \subseteq Int /\ v[2].e \subseteq Int
    BY <1>7, PrivilegeAssumption DEF CsrValues
  <2>2. w = [h EXCEPT !.mideleg = v[2].i, !.medeleg = v[2].e]
    BY <1>7 DEF CsrWrite
  <2>3. w \in HartStates /\ w.status = h.status /\ w.mepc = h.mepc /\ w.sepc = h.sepc
    BY <2>1, <2>2, Zenon DEF HartStates
  <2> QED BY <2>3 DEF SavedIs, SavedInM, SavedInS
<1> QED BY <1>1, <1>2, <1>3, <1>4, <1>5, <1>6, <1>7 DEF CsrValues

(* The same of a CSR instruction, which also moves on to the next pc. *)
LEMMA CsrInstructionKeeps ==
  ASSUME NEW h \in HartStates, NEW s, SavedIs(h, s), NEW v \in CsrValues,
         ~(Level(h.mode) < CsrLevel(v[1])), NEW n, n = CsrInstruction(h, v[1], v[2])
  PROVE  n \in HartStates /\ SavedIs(n, Keep(s, Overwritten(v[1])))
<1>1. PICK w : w = CsrWrite(h, v[1], v[2])
  OBVIOUS
<1>2. /\ w \in HartStates
      /\ "M" \in Overwritten(v[1]) \/ SavedInM(w, s["M"])
      /\ "S" \in Overwritten(v[1]) \/ SavedInS(w, s["S"])
  BY <1>1, CsrWriteKeeps
<1>3. PICK p \in Int : p = NextPc(h.pc)
  BY PrivilegeAssumption, Zenon DEF NextPc
<1>4. n = [w EXCEPT !.pc = p]
  BY <1>1, <1>3 DEF CsrInstruction
<1>5. n \in HartStates /\ n.status = w.status /\ n.mepc = w.mepc /\ n.sepc = w.sepc
  BY <1>2, <1>3, <1>4, SetsPc
<1>6. "M" \in Overwritten(v[1]) \/ SavedInM(n, s["M"])
  BY <1>2, <1>5 DEF SavedInM
<1>7. "S" \in Overwritten(v[1]) \/ SavedInS(n, s["S"])
  BY <1>2, <1>5 DEF SavedInS
<1> QED BY <1>5, <1>6, <1>7, KeepForgets DEF SavedIs

(* The interrupt that is taken is the first pending one in the order of
   check_pending_interrupt. *)
LEMMA FirstIsPending ==
  ASSUME NEW a \in Int, NEW b \in Int, NEW c \in Int, NEW S
  PROVE  First(<<a, b, c>>, S) = (IF a \in S THEN a ELSE IF b \in S THEN b
                                  ELSE IF c \in S THEN c ELSE Nil)
<1>1. PICK o : o = <<a, b, c>>
  BY Zenon
<1>2. DOMAIN o = 1 .. 3 /\ o[1] = a /\ o[2] = b /\ o[3] = c
  BY <1>1
<1> DEFINE P(i) == o[i] \in S /\ \A j \in 1 .. i - 1 : o[j] \notin S
<1>3. ASSUME NEW k \in 1 .. 3, P(k)
      PROVE  First(o, S) = o[k]
  <2>1. \A i \in 1 .. 3 : P(i) => i = k
    BY <1>3
  <2>2. (CHOOSE i \in 1 .. 3 : P(i)) = k
    BY <1>3, <2>1
  <2> QED BY <1>2, <1>3, <2>2 DEF First
<1>4. CASE a \in S
  BY <1>1, <1>2, <1>3, <1>4
<1>5. CASE a \notin S /\ b \in S
  <2>1. P(2)
    BY <1>2, <1>5
  <2> QED BY <1>1, <1>2, <1>3, <1>5, <2>1
<1>6. CASE a \notin S /\ b \notin S /\ c \in S
  <2>1. P(3)
    BY <1>2, <1>6
  <2> QED BY <1>1, <1>2, <1>3, <1>6, <2>1
<1>7. CASE a \notin S /\ b \notin S /\ c \notin S
  <2>1. ~\E i \in DOMAIN o : o[i] \in S
    BY <1>2, <1>7
  <2> QED BY <1>1, <1>7, <2>1 DEF First
<1> QED BY <1>4, <1>5, <1>6, <1>7

(* What check_pending_interrupt returns is a cause. *)
LEMMA PendingIsCause ==
  ASSUME NEW h, CheckPendingInterrupt(h) # Nil
  PROVE  CheckPendingInterrupt(h) \in Int
<1>1. PICK S : S = (h.ip \cap h.ie) \ h.mideleg
  BY Zenon
<1>2. PICK T : T = h.ip \cap h.ie \cap SieMask \cap h.mideleg
  BY Zenon
<1>3. First(<<11, 3, 7>>, S) \in {11, 3, 7, Nil}
  BY FirstIsPending
<1>4. First(<<9, 1, 5>>, T) \in {9, 1, 5, Nil}
  BY FirstIsPending
<1>5. CheckPendingInterrupt(h) \in {First(<<11, 3, 7>>, S), First(<<9, 1, 5>>, T), Nil}
  BY <1>1, <1>2 DEF CheckPendingInterrupt
<1> QED BY <1>3, <1>4, <1>5

(* A poll that finds the machine timer due, enabled and not masked returns
   an interrupt: this one, or one that comes before it. *)
LEMMA TimerIsTaken ==
  ASSUME NEW h \in HartStates, NEW c \in Clocks, NEW out, TimerDue(h, c),
         NEW n, n = RefreshMip(h, c, out), n.mode = h.mode, n.ie = h.ie,
         n.mideleg = h.mideleg, n.status = h.status
  PROVE  CheckPendingInterrupt(n) # Nil
<1>1. 7 \in n.ip
  <2>1. 7 \in HwMip(c, out)
    BY DEF HwMip, TimerDue
  <2>2. PICK mask : mask = HwBits \cup (IF c.sstc THEN {5} ELSE {})
    BY Zenon
  <2>3. 7 \in mask
    BY <2>2 DEF HwBits
  <2>4. n = [h EXCEPT !.ip = (h.ip \ mask) \cup (HwMip(c, out) \cap mask)]
    BY <2>2 DEF RefreshMip
  <2>5. n.ip = (h.ip \ mask) \cup (HwMip(c, out) \cap mask)
    BY <2>4 DEF HartStates
  <2> QED BY <2>1, <2>3, <2>5
<1>2. PICK S : S = (n.ip \cap n.ie) \ n.mideleg
  BY Zenon
<1>3. 7 \in S
  BY <1>1, <1>2 DEF TimerDue
<1>4. First(<<11, 3, 7>>, S) \in {11, 3, 7}
  BY <1>3, FirstIsPending
<1>5. n.mode # "M" \/ n.status.mie
  BY DEF TimerDue
<1>6. First(<<11, 3, 7>>, S) # Nil
  BY <1>4, PrivilegeAssumption
<1> QED BY <1>2, <1>5, <1>6 DEF CheckPendingInterrupt

(* What ReturnRestores says of one step. *)
Restores(what, s, n) ==
  \A l \in {"M", "S"} :
     what = (IF l = "M" THEN "mret" ELSE "sret") /\ s[l] # Nil
     => /\ n.mode = s[l].mode
        /\ n.pc = s[l].pc
        /\ s[l].ie = (IF l = "M" THEN n.status.mie ELSE n.status.sie)

(* Both properties at once: what each level saved is where its return looks
   for it, and the timer has been overdue for at most poll_counter steps. *)
PrivilegeInv ==
  /\ cpu \in HartStates /\ clock \in Clocks /\ outside \subseteq {9, 11}
  /\ poll \in 0 .. PollEvery - 1 /\ overdue \in 0 .. poll
  /\ SavedIs(cpu, saved)

(* A step that traps keeps the invariant of what was saved. *)
LEMMA TrapStep ==
  ASSUME NEW h \in HartStates, SavedIs(h, saved), NEW i \in BOOLEAN, NEW cause \in Int,
         cpu' = HandleTrap(h, i, cause, h.pc), saved' = Interrupted(cpu', h.pc, h)
  PROVE  cpu' \in HartStates /\ SavedIs(cpu', saved')
<1>1. saved' = Record(saved, cpu', h)
  BY DEF Interrupted, Record, Entry
<1>2. PICK n : n = cpu'
  OBVIOUS
<1>3. PICK t : t = saved'
  OBVIOUS
<1>4. n = HandleTrap(h, i, cause, h.pc) /\ t = Record(saved, n, h)
  BY <1>1, <1>2, <1>3
<1>5. n \in HartStates /\ SavedIs(n, t)
  BY <1>4, HandleTrapSaves, ZenonT(40)
<1> QED BY <1>2, <1>3, <1>5

(* So does an instruction; MRET and SRET restore what was saved. *)
LEMMA InstructionStep ==
  ASSUME NEW h \in HartStates, SavedIs(h, saved), Instruction(h)
  PROVE  /\ cpu' \in HartStates /\ SavedIs(cpu', saved') /\ event' # "interrupt"
         /\ Restores(event', saved, cpu')
<1> DEFINE Traps ==
      \E cause \in Int : /\ cpu' = HandleTrap(h, FALSE, cause, h.pc)
                         /\ saved' = Interrupted(cpu', h.pc, h) /\ event' = "trap"
<1>0. h.mode \in Modes
  BY DEF HartStates
<1>t. ASSUME Traps
      PROVE  /\ cpu' \in HartStates /\ SavedIs(cpu', saved') /\ event' # "interrupt"
             /\ Restores(event', saved, cpu')
  <2>1. PICK cause \in Int : /\ cpu' = HandleTrap(h, FALSE, cause, h.pc)
                             /\ saved' = Interrupted(cpu', h.pc, h) /\ event' = "trap"
    BY <1>t, Zenon
  <2>2. cpu' \in HartStates /\ SavedIs(cpu', saved')
    BY <2>1, TrapStep, Zenon
  <2>3. Restores(event', saved, cpu')
    BY <2>1 DEF Restores
  <2> QED BY <2>1, <2>2, <2>3, Zenon
<1>1. ASSUME NEW cause \in Exceptions \cup {EcallCause(h.mode)}, Trap(h, FALSE, cause)
      PROVE  Traps
  <2>1. cause \in Int
    BY <1>0, PrivilegeAssumption DEF EcallCause, Modes
  <2>2. /\ cpu' = HandleTrap(h, FALSE, cause, h.pc)
        /\ saved' = Interrupted(cpu', h.pc, h) /\ event' = "trap"
    BY <1>1 DEF Trap, Became
  <2> QED BY <2>1, <2>2, Zenon
<1>2. ASSUME NEW pc \in Pcs, Became([h EXCEPT !.pc = pc], "other"), UNCHANGED saved
      PROVE  /\ cpu' \in HartStates /\ SavedIs(cpu', saved') /\ event' # "interrupt"
             /\ Restores(event', saved, cpu')
  <2>1. PICK n : n = [h EXCEPT !.pc = pc]
    BY Zenon
  <2>2. cpu' = n /\ event' = "other" /\ saved' = saved
    BY <1>2, <2>1 DEF Became
  <2>3. pc \in Int
    BY PrivilegeAssumption
  <2>4. n \in HartStates /\ n.status = h.status /\ n.mepc = h.mepc /\ n.sepc = h.sepc
    BY <2>1, <2>3, SetsPc
  <2>5. SavedIs(n, saved)
    BY <2>4, SameSaved
  <2>6. Restores(event', saved, cpu')
    BY <2>2 DEF Restores
  <2> QED BY <2>2, <2>4, <2>5, <2>6
<1>i. 2 \in Int
  OBVIOUS
<1>3. ASSUME h.mode # "M", Refused(h, Mret(h))
      PROVE  Traps
  BY <1>3, <1>i, Zenon DEF Refused, Became, Mret, IllegalInsn
<1>4. ASSUME h.mode # "S", Refused(h, Sret(h))
      PROVE  Traps
  BY <1>4, <1>i, Zenon DEF Refused, Became, Sret, IllegalInsn
<1>5. ASSUME NEW v \in CsrValues, Level(h.mode) < CsrLevel(v[1]),
             Refused(h, CsrInstruction(h, v[1], v[2]))
      PROVE  Traps
  BY <1>5, <1>i, Zenon DEF Refused, Became, CsrInstruction, IllegalInsn
<1>6. ASSUME h.mode = "M", Became(Mret(h), "mret"), saved' = Forget({"M"})
      PROVE  /\ cpu' \in HartStates /\ SavedIs(cpu', saved') /\ event' # "interrupt"
             /\ Restores(event', saved, cpu')
  <2>1. PICK n : n = Mret(h)
    OBVIOUS
  <2>2. cpu' = n /\ event' = "mret" /\ saved' = Keep(saved, {"M"})
    BY <1>6, <2>1 DEF Became, Forget, Keep
  <2>3. /\ n \in HartStates /\ SavedIs(n, Keep(saved, {"M"}))
        /\ saved["M"] # Nil => /\ n.mode = saved["M"].mode /\ n.pc = saved["M"].pc
                               /\ saved["M"].ie = n.status.mie
    BY <1>6, <2>1, MretRestores
  <2>4. Restores("mret", saved, n)
    BY <2>3 DEF Restores
  <2> QED BY <2>2, <2>3, <2>4
<1>7. ASSUME h.mode = "S", Became(Sret(h), "sret"), saved' = Forget({"S"})
      PROVE  /\ cpu' \in HartStates /\ SavedIs(cpu', saved') /\ event' # "interrupt"
             /\ Restores(event', saved, cpu')
  <2>1. PICK n : n = Sret(h)
    OBVIOUS
  <2>2. cpu' = n /\ event' = "sret" /\ saved' = Keep(saved, {"S"})
    BY <1>7, <2>1 DEF Became, Forget, Keep
  <2>3. /\ n \in HartStates /\ SavedIs(n, Keep(saved, {"S"}))
        /\ saved["S"] # Nil => /\ n.mode = saved["S"].mode /\ n.pc = saved["S"].pc
                               /\ saved["S"].ie = n.status.sie
    BY <1>7, <2>1, SretRestores
  <2>4. Restores("sret", saved, n)
    BY <2>3 DEF Restores
  <2> QED BY <2>2, <2>3, <2>4
<1>8. ASSUME NEW v \in CsrValues, ~(Level(h.mode) < CsrLevel(v[1])),
             Became(CsrInstruction(h, v[1], v[2]), "other"),
             saved' = Forget(Overwritten(v[1]))
      PROVE  /\ cpu' \in HartStates /\ SavedIs(cpu', saved') /\ event' # "interrupt"
             /\ Restores(event', saved, cpu')
  <2>1. PICK n : n = CsrInstruction(h, v[1], v[2])
    OBVIOUS
  <2>2. cpu' = n /\ event' = "other" /\ saved' = Keep(saved, Overwritten(v[1]))
    BY <1>8, <2>1 DEF Became, Forget, Keep
  <2>3. n \in HartStates /\ SavedIs(n, Keep(saved, Overwritten(v[1])))
    BY <1>8, <2>1, CsrInstructionKeeps
  <2>4. Restores(event', saved, cpu')
    BY <2>2 DEF Restores
  <2> QED BY <2>2, <2>3, <2>4
<1> HIDE DEF Traps
<1> QED
  BY <1>t, <1>1, <1>2, <1>3, <1>4, <1>5, <1>6, <1>7, <1>8, Zenon DEF Instruction, Overwritten

(* A timer that is due stays due as mtime advances. *)
LEMMA TickKeeps ==
  ASSUME NEW c \in Clocks
  PROVE  /\ Tick(c) \in Clocks
         /\ \A h : TimerDue(h, c) => TimerDue(h, Tick(c))
<1>1. PICK m \in Nat : m = (IF c.mtime < MaxTime THEN c.mtime + 1 ELSE c.mtime)
  BY PrivilegeAssumption DEF Clocks
<1>2. PICK d : d = Tick(c)
  OBVIOUS
<1>3. d = [c EXCEPT !.mtime = m]
  BY <1>1, <1>2 DEF Tick
<1>4. d \in Clocks /\ d.mtime = m /\ d.mtimecmp = c.mtimecmp
  BY <1>3 DEF Clocks
<1>5. c.mtime \in Nat /\ c.mtimecmp \in Nat
  BY DEF Clocks
<1>6. c.mtime >= c.mtimecmp => d.mtime >= d.mtimecmp
  BY <1>1, <1>4, <1>5, PrivilegeAssumption
<1> QED BY <1>2, <1>4, <1>6 DEF TimerDue

(* Cpu::step: at a poll nothing stays overdue, at another step the count of
   steps grows with poll_counter. *)
LEMMA HartStep ==
  ASSUME PrivilegeInv, Step
  PROVE  PrivilegeInv' /\ Restores(event', saved, cpu')
<1>1. PICK count : count = (poll + 1) % PollEvery
  OBVIOUS
<1>2. PICK c : c = IF IsPoll(count) THEN Tick(clock) ELSE clock
  OBVIOUS
<1>3. PICK h : h = IF IsPoll(count) THEN RefreshMip(cpu, c, outside) ELSE cpu
  OBVIOUS
<1>4. PICK int : int = IF IsPoll(count) THEN CheckPendingInterrupt(h) ELSE Nil
  OBVIOUS
<1>5. /\ poll' = count /\ clock' = c /\ outside' = outside
      /\ IF int # Nil THEN Trap(h, TRUE, int) ELSE Instruction(h)
      /\ overdue' = IF TimerDue(cpu, clock) /\ TimerDue(cpu', c) /\ event' # "interrupt"
                    THEN overdue + 1 ELSE 0
  BY <1>1, <1>2, <1>3, <1>4, Zenon DEF Step
<1>6. cpu \in HartStates /\ clock \in Clocks /\ outside \subseteq {9, 11}
      /\ SavedIs(cpu, saved)
  BY DEF PrivilegeInv
<1>7. c \in Clocks
  BY <1>2, <1>6, TickKeeps
<1>8. h \in HartStates /\ SavedIs(h, saved)
      /\ (IsPoll(count) => /\ h.mode = cpu.mode /\ h.ie = cpu.ie
                           /\ h.mideleg = cpu.mideleg /\ h.status = cpu.status)
  <2>1. CASE IsPoll(count)
    <3>1. h = RefreshMip(cpu, c, outside)
      BY <1>3, <2>1
    <3> QED BY <1>6, <3>1, RefreshKeeps
  <2>2. CASE ~IsPoll(count)
    BY <1>3, <1>6, <2>2
  <2> QED BY <2>1, <2>2
<1>9. /\ cpu' \in HartStates /\ SavedIs(cpu', saved') /\ Restores(event', saved, cpu')
      /\ int # Nil => event' = "interrupt"
  <2>1. CASE int # Nil
    <3>1. int \in Int
      BY <1>4, <2>1, PendingIsCause
    <3>2. /\ cpu' = HandleTrap(h, TRUE, int, h.pc) /\ event' = "interrupt"
          /\ saved' = Interrupted(cpu', h.pc, h)
      BY <1>5, <2>1 DEF Trap, Became
    <3>3. cpu' \in HartStates /\ SavedIs(cpu', saved')
      BY <1>8, <3>1, <3>2, TrapStep, Zenon
    <3>4. Restores(event', saved, cpu')
      BY <3>2 DEF Restores
    <3> QED BY <3>2, <3>3, <3>4, Zenon
  <2>2. CASE int = Nil
    <3>1. Instruction(h)
      BY <1>5, <2>2
    <3> QED BY <1>8, <2>2, <3>1, InstructionStep
  <2> QED BY <2>1, <2>2
<1>10. /\ count \in 0 .. PollEvery - 1
       /\ ~IsPoll(count) => count = poll + 1
  <2>1. poll \in 0 .. PollEvery - 1 /\ PollEvery \in Nat \ {0}
    BY PrivilegeAssumption DEF PrivilegeInv
  <2> QED BY <1>1, <2>1 DEF IsPoll
<1>11. overdue' \in 0 .. count
  <2>1. overdue \in 0 .. poll /\ poll \in 0 .. PollEvery - 1 /\ PollEvery \in Nat \ {0}
    BY PrivilegeAssumption DEF PrivilegeInv
  <2>2. CASE overdue' = 0
    BY <1>10, <2>1, <2>2
  <2>3. CASE overdue' # 0
    <3>1. TimerDue(cpu, clock) /\ event' # "interrupt" /\ overdue' = overdue + 1
      BY <1>5, <2>3
    <3>2. ~IsPoll(count)
      <4>1. SUFFICES ASSUME IsPoll(count) PROVE FALSE
        OBVIOUS
      <4>2. c = Tick(clock) /\ h = RefreshMip(cpu, c, outside) /\ int = CheckPendingInterrupt(h)
        BY <1>2, <1>3, <1>4, <4>1
      <4>3. TimerDue(cpu, c)
        BY <1>6, <3>1, <4>2, TickKeeps
      <4>4. CheckPendingInterrupt(h) # Nil
        BY <1>6, <1>7, <1>8, <4>1, <4>2, <4>3, TimerIsTaken
      <4> QED BY <1>9, <3>1, <4>2, <4>4
    <3> QED BY <1>10, <2>1, <3>1, <3>2
  <2> QED BY <2>2, <2>3
<1> QED BY <1>5, <1>6, <1>7, <1>9, <1>10, <1>11 DEF PrivilegeInv

(* Every step keeps the invariant, and a return restores. *)
LEMMA PrivilegeStep ==
  ASSUME PrivilegeInv, [PrivilegeNext]_pVars
  PROVE  PrivilegeInv' /\ (pVars' # pVars => Restores(event', saved, cpu'))
<1>1. CASE Step
  BY <1>1, HartStep
<1>2. ASSUME UNCHANGED <<cpu, poll, saved>>, clock' \in Clocks, outside' \subseteq {9, 11},
             overdue' = 0 \/ overdue' = overdue
      PROVE  PrivilegeInv'
  BY <1>2, PrivilegeAssumption DEF PrivilegeInv
<1>3. CASE SetTimer
  <2>1. PICK t \in {MaxTime, MaxTime + 1} : clock' = [clock EXCEPT !.mtimecmp = t]
    BY <1>3 DEF SetTimer
  <2>2. t \in Nat
    BY PrivilegeAssumption
  <2>3. clock' \in Clocks
    BY <2>1, <2>2 DEF PrivilegeInv, Clocks
  <2>4. Restores(event', saved, cpu')
    BY <1>3 DEF SetTimer, Restores
  <2> QED BY <1>2, <1>3, <2>3, <2>4 DEF SetTimer, PrivilegeInv
<1>4. CASE SetMsip
  <2>1. clock' \in Clocks
    BY <1>4, Zenon DEF SetMsip, PrivilegeInv, Clocks
  <2>2. Restores(event', saved, cpu')
    BY <1>4 DEF SetMsip, Restores
  <2> QED BY <1>2, <1>4, <2>1, <2>2 DEF SetMsip, PrivilegeInv
<1>5. CASE PlicChanges
  <2>1. outside' \subseteq {9, 11}
    BY <1>5 DEF PlicChanges
  <2>2. Restores(event', saved, cpu')
    BY <1>5 DEF PlicChanges, Restores
  <2> QED BY <1>2, <1>5, <2>1, <2>2 DEF PlicChanges, PrivilegeInv
<1>6. CASE UNCHANGED pVars
  <2>1. UNCHANGED <<cpu, poll, saved, clock, outside, overdue>>
    BY <1>6 DEF pVars
  <2> QED BY <1>2, <1>6, <2>1 DEF PrivilegeInv
<1> QED BY <1>1, <1>3, <1>4, <1>5, <1>6 DEF PrivilegeNext

(* The invariant holds throughout. *)
LEMMA PrivilegeInductive ==
  PrivilegeSpec => []PrivilegeInv
<1>1. PrivilegeStarts => PrivilegeInv
  BY PrivilegeAssumption DEF PrivilegeStarts, PrivilegeInv, SavedIs, SavedInM, SavedInS
<1>2. PrivilegeInv /\ [PrivilegeNext]_pVars => PrivilegeInv'
  BY PrivilegeStep
<1> QED BY <1>1, <1>2, PTL DEF PrivilegeSpec

(* A machine timer interrupt that is due, enabled and not masked waits for
   less than a round of poll_counter, whatever the guest does and whatever
   else is pending. *)
THEOREM PrivilegeTimerIsPrompt ==
  PrivilegeSpec => []TimerIsPrompt
<1>1. PrivilegeInv => TimerIsPrompt
  BY PrivilegeAssumption DEF PrivilegeInv, TimerIsPrompt
<1> QED BY <1>1, PrivilegeInductive, PTL

(* MRET and SRET bring back the mode, the interrupt enable and the pc that
   the trap of that level interrupted, for any CSR contents, any delegation
   and any traps, returns and CSR writes of the other level in between. *)
THEOREM PrivilegeReturnRestores ==
  PrivilegeSpec => ReturnRestores
<1>1. PrivilegeInv /\ [PrivilegeNext]_pVars => [Restores(event', saved, cpu')]_pVars
  BY PrivilegeStep
<1>2. [Restores(event', saved, cpu')]_pVars =>
        [\A l \in {"M", "S"} :
           event' = (IF l = "M" THEN "mret" ELSE "sret") /\ saved[l] # Nil
           => /\ cpu'.mode = saved[l].mode
              /\ cpu'.pc = saved[l].pc
              /\ saved[l].ie =
                   (IF l = "M" THEN cpu'.status.mie ELSE cpu'.status.sie)]_pVars
  BY DEF Restores
<1> QED BY <1>1, <1>2, PrivilegeInductive, PTL DEF PrivilegeSpec, ReturnRestores
=============================================================================
