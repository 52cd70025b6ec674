-------------------------- MODULE InterruptsProofs --------------------------
(***************************************************************************)
(* The safety properties of Interrupts, for any number of harts, sources   *)
(* and devices and any order in which the devices are polled.              *)
(***************************************************************************)
EXTENDS Interrupts, TLAPS

(* The strengthening of SteadyIsSeen.  While a check is under way, what    *)
(* has been raised all along still is, and its priority is still to be     *)
(* read; the candidate a load finds too low is therefore none of it.       *)
CheckInv ==
  \A h \in Harts :
    /\ steady[h] # {} => pc[h] = "priority"
    /\ steady[h] \subseteq cand[h]
    /\ \A s \in steady[h] : Raised(s, ctx[h])

IInv == TypeOK /\ InputHoldsLine /\ CachesMirror /\ CheckInv

(* An operation of the UART, and one of the PLIC. *)
UartStep ==
  \/ PushInput
  \/ LoadRbr
  \/ LoadIir
  \/ StoreThr
  \/ StoreFcr
  \/ \E e \in SUBSET Reasons : StoreIer(e)
  \/ \E b \in BOOLEAN : StoreLcr(b)
  \/ UNCHANGED uartVars

(* update_interrupts_internal reports received data whenever there is some *)
(* and it is enabled.                                                      *)
LEMMA UpdateInterruptsInv ==
  ASSUME UpdateInterrupts
  PROVE  /\ iir' \in Reasons \cup {"none"}
         /\ interrupting' \in BOOLEAN
         /\ data_ready' /\ "rda" \in ier' => interrupting' /\ iir' = "rda"
<1>1. iir' \in Reasons \cup {"none"}
  BY DEF UpdateInterrupts, Reasons
<1>2. interrupting' = (iir' # "none")
  BY DEF UpdateInterrupts
<1>3. interrupting' \in BOOLEAN
  BY <1>2
<1>4. ASSUME data_ready', "rda" \in ier'
      PROVE  interrupting' /\ iir' = "rda"
  <2>1. iir' = "rda"
    BY <1>4, Zenon DEF UpdateInterrupts
  <2>2. iir' # "none"
    BY <2>1
  <2> QED
    BY <1>2, <2>1, <2>2, Zenon
<1> QED
  BY <1>1, <1>3, <1>4, Zenon

(* Every operation of the UART leaves Data Ready, IIR and the line as the  *)
(* FIFO and IER demand.                                                    *)
LEMMA UartStepInv ==
  ASSUME UartTypeOK, InputHoldsLine, UartStep
  PROVE  UartTypeOK' /\ InputHoldsLine'
<1> DEFINE Rest == /\ ier' \in SUBSET Reasons
                   /\ thre_ip' \in BOOLEAN
                   /\ dlab' \in BOOLEAN
           Fifo == /\ rx' \in Nat
                   /\ data_ready' \in BOOLEAN
                   /\ data_ready' <=> rx' > 0
<1>0. ASSUME Fifo, Rest, UpdateInterrupts
      PROVE  UartTypeOK' /\ InputHoldsLine'
  BY <1>0, UpdateInterruptsInv, Zenon DEF UartTypeOK, InputHoldsLine
<1>0a. ASSUME UNCHANGED <<rx, data_ready>>
       PROVE  Fifo
  BY <1>0a DEF UartTypeOK, InputHoldsLine
<1>0b. CASE UNCHANGED uartVars
  BY <1>0b DEF uartVars, UartTypeOK, InputHoldsLine
<1> HIDE DEF Fifo, Rest
<1>1. CASE PushInput
  <2>1. rx' \in Nat /\ rx' > 0
    BY <1>1 DEF PushInput, UartTypeOK
  <2>2. data_ready' = TRUE
    BY <1>1 DEF PushInput
  <2>3. Fifo
    BY <2>1, <2>2, Zenon DEF Fifo
  <2>4. Rest
    BY <1>1 DEF Rest, PushInput, UartTypeOK
  <2> QED
    BY <1>0, <1>1, <2>3, <2>4, Zenon DEF PushInput
<1>2. CASE LoadRbr
  <2>1. CASE dlab /\ UNCHANGED uartVars
    BY <1>0b, <2>1, Zenon
  <2>2. CASE ~(dlab /\ UNCHANGED uartVars)
    <3>1. /\ rx' = IF rx = 0 THEN 0 ELSE rx - 1
          /\ data_ready' = (data_ready /\ rx' # 0)
          /\ UNCHANGED <<ier, thre_ip, dlab>>
          /\ UpdateInterrupts
      BY <1>2, <2>2, Zenon DEF LoadRbr
    <3>2. rx' \in Nat /\ (rx' # 0 => rx > 0)
      BY <3>1 DEF UartTypeOK
    <3>3. rx' > 0 <=> rx' # 0
      BY <3>2
    <3>4. data_ready <=> rx > 0
      BY DEF InputHoldsLine
    <3>5. Fifo
      BY <3>1, <3>2, <3>3, <3>4, Zenon DEF Fifo
    <3>6. Rest
      BY <3>1 DEF Rest, UartTypeOK
    <3> QED
      BY <1>0, <3>1, <3>5, <3>6, Zenon
  <2> QED
    BY <2>1, <2>2, Zenon
<1>3. CASE LoadIir
  <2>1. CASE iir = "thre"
    <3>1. Fifo
      BY <1>0a, <1>3, <2>1 DEF LoadIir
    <3>2. Rest
      BY <1>3, <2>1 DEF Rest, LoadIir, UartTypeOK
    <3> QED
      BY <1>0, <1>3, <2>1, <3>1, <3>2, Zenon DEF LoadIir
  <2> QED
    BY <1>0b, <1>3, <2>1, Zenon DEF LoadIir
<1>4. CASE StoreThr
  <2>1. CASE ~dlab
    <3>1. Fifo
      BY <1>0a, <1>4, <2>1 DEF StoreThr
    <3>2. Rest
      BY <1>4, <2>1 DEF Rest, StoreThr, UartTypeOK
    <3> QED
      BY <1>0, <1>4, <2>1, <3>1, <3>2, Zenon DEF StoreThr
  <2> QED
    BY <1>0b, <1>4, <2>1, Zenon DEF StoreThr
<1>5. CASE StoreFcr
  <2>1. rx' \in Nat /\ ~(rx' > 0)
    BY <1>5 DEF StoreFcr
  <2>2. data_ready' = FALSE
    BY <1>5 DEF StoreFcr
  <2>3. UNCHANGED <<ier, iir, thre_ip, dlab, interrupting>>
    BY <1>5 DEF StoreFcr
  <2> QED
    BY <2>1, <2>2, <2>3, Zenon DEF UartTypeOK, InputHoldsLine
<1>6. ASSUME NEW e \in SUBSET Reasons, StoreIer(e)
      PROVE  UartTypeOK' /\ InputHoldsLine'
  <2>1. CASE ~dlab
    <3>1. Fifo
      BY <1>0a, <1>6, <2>1 DEF StoreIer
    <3>2. Rest
      BY <1>6, <2>1 DEF Rest, StoreIer, UartTypeOK
    <3> QED
      BY <1>0, <1>6, <2>1, <3>1, <3>2, Zenon DEF StoreIer
  <2> QED
    BY <1>0b, <1>6, <2>1, Zenon DEF StoreIer
<1>7. ASSUME NEW b \in BOOLEAN, StoreLcr(b)
      PROVE  UartTypeOK' /\ InputHoldsLine'
  BY <1>7 DEF StoreLcr, UartTypeOK, InputHoldsLine
<1> QED
  BY <1>0b, <1>1, <1>2, <1>3, <1>4, <1>5, <1>6, <1>7, Zenon DEF UartStep

PlicStep ==
  \/ \E s \in Sources, v \in Priorities : StorePriority(s, v)
  \/ \E c \in Contexts, set \in SUBSET Sources : StoreEnable(c, set)
  \/ \E c \in Contexts, v \in Priorities : StoreThreshold(c, v)
  \/ \E s \in Sources, b \in BOOLEAN : SetSourceLevel(s, b)
  \/ \E c \in Contexts, id \in Sources \cup {0} : ClaimInterrupt(c, id)
  \/ \E c \in Contexts, id \in Sources \cup {0} : CompleteInterrupt(c, id)
  \/ UNCHANGED plicVars

(* Every operation of the PLIC leaves the caches equal to the state. *)
LEMMA PlicStepInv ==
  ASSUME PlicTypeOK, CachesMirror, PlicStep
  PROVE  PlicTypeOK' /\ CachesMirror'
<1> USE PlicAssumption DEF PlicTypeOK, CachesMirror
<1>1. ASSUME NEW s \in Sources, NEW v \in Priorities, StorePriority(s, v)
      PROVE  PlicTypeOK' /\ CachesMirror'
  BY <1>1 DEF StorePriority
<1>2. ASSUME NEW c \in Contexts, NEW set \in SUBSET Sources, StoreEnable(c, set)
      PROVE  PlicTypeOK' /\ CachesMirror'
  BY <1>2 DEF StoreEnable
<1>3. ASSUME NEW c \in Contexts, NEW v \in Priorities, StoreThreshold(c, v)
      PROVE  PlicTypeOK' /\ CachesMirror'
  BY <1>3 DEF StoreThreshold
<1>4. ASSUME NEW s \in Sources, NEW b \in BOOLEAN, SetSourceLevel(s, b)
      PROVE  PlicTypeOK' /\ CachesMirror'
  BY <1>4 DEF SetSourceLevel
<1>5. ASSUME NEW c \in Contexts, NEW id \in Sources \cup {0}, ClaimInterrupt(c, id)
      PROVE  PlicTypeOK' /\ CachesMirror'
  <2>1. active' \in [Contexts -> SUBSET Sources]
    BY <1>5 DEF ClaimInterrupt
  <2> QED
    BY <1>5, <2>1 DEF ClaimInterrupt, plicCaches
<1>6. ASSUME NEW c \in Contexts, NEW id \in Sources \cup {0}, CompleteInterrupt(c, id)
      PROVE  PlicTypeOK' /\ CachesMirror'
  BY <1>6 DEF CompleteInterrupt, plicCaches
<1>7. CASE UNCHANGED plicVars
  BY <1>7 DEF plicVars
<1> QED
  BY <1>1, <1>2, <1>3, <1>4, <1>5, <1>6, <1>7 DEF PlicStep

-----------------------------------------------------------------------------

(* A step that leaves the PLIC's state and the checks alone keeps          *)
(* CheckInv.                                                               *)
LEMMA CheckUnchanged ==
  ASSUME CheckInv,
         UNCHANGED <<priority, pending, enable, threshold>>,
         UNCHANGED <<ctx, cand, steady>>,
         \A h \in Harts : pc[h] = "priority" => pc'[h] = "priority"
  PROVE  CheckInv'
BY DEF CheckInv, Raised

(* A step that changes the PLIC keeps it, as the ghost drops what is not   *)
(* raised any more.                                                        *)
LEMMA CheckWatched ==
  ASSUME CheckInv, Watch,
         UNCHANGED <<ctx, cand>>,
         \A h \in Harts : pc[h] = "priority" => pc'[h] = "priority"
  PROVE  CheckInv'
<1> SUFFICES ASSUME NEW h \in Harts
             PROVE  /\ steady'[h] # {} => pc'[h] = "priority"
                    /\ steady'[h] \subseteq cand'[h]
                    /\ \A s \in steady'[h] : Raised(s, ctx[h])'
  BY DEF CheckInv
<1>1. steady'[h] = {s \in steady[h] : \E c \in {ctx[h]} : Raised(s, c)'}
  BY DEF Watch
<1>2. ctx'[h] = ctx[h]
  OBVIOUS
<1> QED
  BY <1>1, <1>2 DEF CheckInv, Raised

(* The answer of a check keeps it: of the sources that were raised all     *)
(* along, an answer FALSE must leave none.                                 *)
LEMMA CheckReturned ==
  ASSUME NEW h \in Harts, NEW found \in BOOLEAN, NEW raised \in SUBSET Sources,
         CheckInv, HartTypeOK,
         ~found => raised = {},
         FastCheckReturns(h, found, raised),
         UNCHANGED <<priority, pending, enable, threshold>>
  PROVE  CheckInv'
<1> SUFFICES ASSUME NEW g \in Harts
             PROVE  /\ steady'[g] # {} => pc'[g] = "priority"
                    /\ steady'[g] \subseteq cand'[g]
                    /\ \A s \in steady'[g] : Raised(s, ctx[g])'
  BY DEF CheckInv
<1>1. CASE g = h
  <2>1. steady'[h] = {}
    BY DEF FastCheckReturns, HartTypeOK
  <2> QED
    BY <1>1, <2>1
<1>2. CASE g # h
  <2>1. steady'[g] = steady[g] /\ cand'[g] = cand[g]
    BY <1>2 DEF FastCheckReturns, HartTypeOK
  <2>2. pc'[g] = pc[g] /\ ctx'[g] = ctx[g]
    BY <1>2 DEF FastCheckReturns, Deliver, HartTypeOK
  <2> QED
    BY <2>1, <2>2 DEF CheckInv, Raised
<1> QED
  BY <1>1, <1>2

LEMMA FastCheckReturnsType ==
  ASSUME NEW h \in Harts, NEW found \in BOOLEAN, NEW raised \in SUBSET Sources,
         HartTypeOK, FastCheckReturns(h, found, raised),
         UNCHANGED <<vio, idx, level, claimed, sent, kicked, writes>>
  PROVE  HartTypeOK'
<1>1. MContext(h) \in Contexts /\ SContext(h) \in Contexts
  BY DEF Contexts
<1>2. cand' \in [Harts -> SUBSET Sources] /\ steady' \in [Harts -> SUBSET Sources]
  BY DEF FastCheckReturns, HartTypeOK
<1>3. CASE ctx[h] = SContext(h)
  <2>1. /\ ctx' = [ctx EXCEPT ![h] = MContext(h)]
        /\ pc' = [pc EXCEPT ![h] = "pending"]
        /\ UNCHANGED handler
    BY <1>3 DEF FastCheckReturns
  <2>2. mip' \in [Harts -> SUBSET Contexts]
    BY <1>3 DEF FastCheckReturns, HartTypeOK
  <2> QED
    BY <1>1, <1>2, <2>1, <2>2 DEF HartTypeOK
<1>4. CASE ctx[h] # SContext(h)
  <2>1. /\ ctx' = [ctx EXCEPT ![h] = SContext(h)]
        /\ pc' = [pc EXCEPT ![h] = "guest"]
        /\ mip' = [mip EXCEPT ![h] = {}]
    BY <1>4 DEF FastCheckReturns, Deliver
  <2>2a. handler' = handler \/ handler' = [handler EXCEPT ![h] = "claim"]
    BY <1>4, Zenon DEF FastCheckReturns, Deliver
  <2>2. handler' \in [Harts -> {"none", "claim", "iir", "rbr", "ack", "complete"}]
    BY <2>2a DEF HartTypeOK
  <2> QED
    BY <1>1, <1>2, <2>1, <2>2 DEF HartTypeOK
<1> QED
  BY <1>3, <1>4

-----------------------------------------------------------------------------

LEMMA InitIInv == Init => IInv
<1> SUFFICES ASSUME Init PROVE IInv
  OBVIOUS
<1> USE PlicAssumption, InterruptsAssumption
<1>1. UartTypeOK /\ InputHoldsLine
  <2>1. rx = 0 /\ data_ready = FALSE
    BY DEF Init
  <2>2. /\ ier \in SUBSET Reasons /\ iir = "none"
        /\ thre_ip = TRUE /\ dlab = FALSE /\ interrupting = FALSE
    BY DEF Init, Reasons
  <2>3. rx \in Nat /\ ~(rx > 0)
    BY <2>1
  <2> QED
    BY <2>1, <2>2, <2>3, Zenon DEF UartTypeOK, InputHoldsLine
<1>2. PlicTypeOK /\ CachesMirror
  BY DEF Init, PlicTypeOK, CachesMirror
<1>3. HartTypeOK
  <2>1. \A h \in Harts : SContext(h) \in Contexts
    BY DEF Contexts
  <2>2. idx \in [Harts -> 1 .. Len(LineOrder)]
    BY DEF Init
  <2> QED
    BY <2>1, <2>2 DEF Init, HartTypeOK
<1>4. CheckInv
  BY DEF Init, CheckInv
<1> QED
  BY <1>1, <1>2, <1>3, <1>4 DEF IInv, TypeOK

(* A device's line is high or low. *)
LEMMA LineType ==
  ASSUME UartTypeOK, NEW s
  PROVE  Line(s) \in BOOLEAN
<1>1. CASE s = UartIrq
  BY <1>1 DEF Line, UartTypeOK
<1>2. CASE s # UartIrq
  BY <1>2 DEF Line
<1> QED
  BY <1>1, <1>2

(* The poll of a hart. *)
LEMMA PollIInv ==
  ASSUME IInv, NEW h \in Harts, Poll(h)
  PROVE  IInv'
<1> USE InterruptsAssumption
<1>0. UartTypeOK /\ PlicTypeOK /\ HartTypeOK /\ InputHoldsLine /\ CachesMirror /\ CheckInv
  BY DEF IInv, TypeOK
<1>1. UNCHANGED uartVars
  BY DEF Poll, StartPoll, SetLevel, LoadPending, LoadPriority
<1>2. UartTypeOK' /\ InputHoldsLine'
  BY <1>0, <1>1, UartStepInv DEF UartStep
<1>3. CASE StartPoll(h)
  <2>1. PlicTypeOK' /\ CachesMirror'
    BY <1>0, <1>3, PlicStepInv DEF StartPoll, PlicStep
  <2>2. level'[h] \in BOOLEAN
    <3>1. level'[h] = Line(LineOrder[1])
      BY <1>0, <1>3 DEF StartPoll, HartTypeOK
    <3>2. Line(LineOrder[1]) \in BOOLEAN
      BY <1>0, LineType
    <3> QED
      BY <3>1, <3>2
  <2>3. level' \in [Harts -> BOOLEAN]
    BY <1>0, <1>3, <2>2 DEF StartPoll, HartTypeOK
  <2>4. HartTypeOK'
    BY <1>0, <1>3, <2>3 DEF StartPoll, HartTypeOK, guestVars, counters
  <2>5. CheckInv'
    BY <1>0, <1>3, CheckUnchanged DEF StartPoll, HartTypeOK, plicVars
  <2> QED
    BY <1>2, <2>1, <2>4, <2>5 DEF IInv, TypeOK
<1>4. CASE SetLevel(h)
  <2>1. idx[h] \in 1 .. Len(LineOrder) /\ LineOrder[idx[h]] \in Sources
    BY <1>0 DEF HartTypeOK
  <2>2. level[h] \in BOOLEAN
    BY <1>0 DEF HartTypeOK
  <2>3. PlicTypeOK' /\ CachesMirror'
    BY <1>0, <1>4, <2>1, <2>2, PlicStepInv DEF SetLevel, PlicStep
  <2>4. /\ level' \in [Harts -> BOOLEAN]
        /\ idx' \in [Harts -> 1 .. Len(LineOrder)]
        /\ pc' \in [Harts -> {"guest", "level", "pending", "priority"}]
    <3>1. CASE idx[h] < Len(LineOrder)
      <4>1. Line(LineOrder[idx[h] + 1]) \in BOOLEAN
        BY <1>0, LineType
      <4>2. idx[h] + 1 \in 1 .. Len(LineOrder)
        BY <2>1, <3>1
      <4>3. /\ idx' = [idx EXCEPT ![h] = idx[h] + 1]
            /\ level' = [level EXCEPT ![h] = Line(LineOrder[idx[h] + 1])]
            /\ UNCHANGED pc
        BY <1>4, <3>1 DEF SetLevel
      <4> QED
        BY <1>0, <4>1, <4>2, <4>3 DEF HartTypeOK
    <3>2. CASE ~(idx[h] < Len(LineOrder))
      <4>1. 1 \in 1 .. Len(LineOrder)
        OBVIOUS
      <4>2. /\ idx' = [idx EXCEPT ![h] = 1]
            /\ level' = [level EXCEPT ![h] = FALSE]
            /\ pc' = [pc EXCEPT ![h] = "pending"]
        BY <1>4, <3>2 DEF SetLevel
      <4> QED
        BY <1>0, <4>1, <4>2 DEF HartTypeOK
    <3> QED
      BY <3>1, <3>2
  <2>7. steady' \in [Harts -> SUBSET Sources]
    BY <1>0, <1>4 DEF SetLevel, Watch, HartTypeOK
  <2>8. HartTypeOK'
    BY <1>0, <1>4, <2>4, <2>7 DEF SetLevel, HartTypeOK, guestVars, counters
  <2>9. \A g \in Harts : pc[g] = "priority" => pc'[g] = "priority"
    BY <1>0, <1>4 DEF SetLevel, HartTypeOK
  <2>10. CheckInv'
    BY <1>0, <1>4, <2>9, CheckWatched DEF SetLevel
  <2> QED
    BY <1>2, <2>3, <2>8, <2>10 DEF IInv, TypeOK
<1>5. CASE LoadPending(h)
  <2> DEFINE found == pending_cache \cap enable_cache[ctx[h]]
             raised == {s \in Sources : Raised(s, ctx[h])}
  <2>1. PlicTypeOK' /\ CachesMirror'
    BY <1>0, <1>5, PlicStepInv DEF LoadPending, PlicStep
  <2>2. raised \subseteq found /\ raised \in SUBSET Sources
    BY <1>0 DEF Raised, CachesMirror
  <2>3. UNCHANGED <<priority, pending, enable, threshold>>
    BY <1>5 DEF LoadPending, plicVars
  <2>4. UNCHANGED <<vio, idx, level, claimed, sent, kicked, writes>>
    BY <1>5 DEF LoadPending, counters
  <2>5. CASE found = {}
    <3>1. FastCheckReturns(h, FALSE, raised)
      BY <1>5, <2>5 DEF LoadPending
    <3>2. raised = {}
      BY <2>2, <2>5
    <3> HIDE DEF raised
    <3>3. CheckInv'
      BY <1>0, <2>2, <2>3, <3>1, <3>2, CheckReturned
    <3>4. HartTypeOK'
      BY <1>0, <2>2, <2>4, <3>1, FastCheckReturnsType
    <3> QED
      BY <1>2, <2>1, <3>3, <3>4 DEF IInv, TypeOK
  <2>6. CASE found # {}
    <3>1. /\ cand' = [cand EXCEPT ![h] = found]
          /\ steady' = [steady EXCEPT ![h] = raised]
          /\ pc' = [pc EXCEPT ![h] = "priority"]
          /\ UNCHANGED <<ctx, mip, handler>>
      BY <1>5, <2>6 DEF LoadPending
    <3>2. found \in SUBSET Sources
      BY <1>0 DEF PlicTypeOK
    <3>3. \A s \in raised : Raised(s, ctx[h])
      OBVIOUS
    <3> HIDE DEF found, raised
    <3>4. HartTypeOK'
      BY <1>0, <2>2, <2>4, <3>1, <3>2 DEF HartTypeOK
    <3>5. CheckInv'
      BY <1>0, <2>2, <2>3, <3>1, <3>3 DEF CheckInv, HartTypeOK, Raised
    <3> QED
      BY <1>2, <2>1, <3>4, <3>5 DEF IInv, TypeOK
  <2> QED
    BY <2>5, <2>6
<1>6. CASE LoadPriority(h)
  <2> DEFINE s == NextCandidate(h)
             over == priority_cache[s] > threshold_cache[ctx[h]]
  <2>1. PlicTypeOK' /\ CachesMirror'
    BY <1>0, <1>6, PlicStepInv DEF LoadPriority, PlicStep
  <2>2. UNCHANGED <<priority, pending, enable, threshold>>
    BY <1>6 DEF LoadPriority, plicVars
  <2>3. UNCHANGED <<vio, idx, level, claimed, sent, kicked, writes>>
    BY <1>6 DEF LoadPriority, counters
  <2>4. ~over => s \notin steady[h]
    BY <1>0 DEF CheckInv, Raised, CachesMirror
  <2>5. steady[h] \subseteq cand[h] /\ steady[h] \in SUBSET Sources
    BY <1>0 DEF CheckInv, HartTypeOK
  <2>6. over \in BOOLEAN
    OBVIOUS
  <2>7. CASE over \/ cand[h] = {s}
    <3>1. FastCheckReturns(h, over, steady[h])
      BY <1>6, <2>7 DEF LoadPriority
    <3>2. ~over => steady[h] = {}
      BY <2>4, <2>5, <2>7
    <3> HIDE DEF over
    <3>3. CheckInv'
      BY <1>0, <2>2, <2>5, <2>6, <3>1, <3>2, CheckReturned
    <3>4. HartTypeOK'
      BY <1>0, <2>3, <2>5, <2>6, <3>1, FastCheckReturnsType
    <3> QED
      BY <1>2, <2>1, <3>3, <3>4 DEF IInv, TypeOK
  <2>8. CASE ~(over \/ cand[h] = {s})
    <3>1. /\ cand' = [cand EXCEPT ![h] = @ \ {s}]
          /\ UNCHANGED <<pc, ctx, mip, handler, steady>>
      BY <1>6, <2>8 DEF LoadPriority
    <3>2. HartTypeOK'
      BY <1>0, <2>3, <3>1 DEF HartTypeOK
    <3>3. CheckInv'
      BY <1>0, <2>2, <2>4, <2>8, <3>1 DEF CheckInv, HartTypeOK, Raised
    <3> QED
      BY <1>2, <2>1, <3>2, <3>3 DEF IInv, TypeOK
  <2> QED
    BY <2>7, <2>8
<1> QED
  BY <1>3, <1>4, <1>5, <1>6 DEF Poll

(* The guest of a hart and the devices: no step of theirs is part of a     *)
(* check.                                                                  *)
LEMMA OutsideIInv ==
  ASSUME IInv, UartStep, PlicStep, HartTypeOK',
         UNCHANGED <<pc, ctx, cand>>,
         \/ Watch
         \/ UNCHANGED <<priority, pending, enable, threshold, steady>>
  PROVE  IInv'
<1>1. UartTypeOK' /\ InputHoldsLine'
  BY UartStepInv DEF IInv, TypeOK
<1>2. PlicTypeOK' /\ CachesMirror'
  BY PlicStepInv DEF IInv, TypeOK
<1>3. CheckInv'
  BY CheckWatched, CheckUnchanged DEF IInv
<1> QED
  BY <1>1, <1>2, <1>3 DEF IInv, TypeOK

LEMMA ServeIInv ==
  ASSUME IInv, NEW h \in Harts, Serve(h)
  PROVE  IInv'
<1> USE InterruptsAssumption
<1>0. HartTypeOK
  BY DEF IInv, TypeOK
<1>1. CASE Claim(h)
  <2>1. PICK id \in Sources \cup {0} :
          /\ ClaimInterrupt(GuestCtx[h], id)
          /\ claimed' = [claimed EXCEPT ![h] = id]
          /\ handler' = [handler EXCEPT ![h] = IF id = 0 THEN "none"
                                               ELSE IF id = UartIrq THEN "iir" ELSE "ack"]
    BY <1>1 DEF Claim
  <2>2. UNCHANGED <<uartVars, vio, pc, idx, level, ctx, cand, mip, steady,
                    sent, kicked, writes>>
    BY <1>1 DEF Claim, hartVars, counters
  <2>3. HartTypeOK'
    BY <1>0, <2>1, <2>2 DEF HartTypeOK
  <2>4. PlicStep /\ UNCHANGED <<priority, pending, enable, threshold>>
    BY <2>1 DEF PlicStep, ClaimInterrupt
  <2> QED
    BY <2>2, <2>3, <2>4, OutsideIInv DEF UartStep
<1>2. CASE ServeIir(h)
  <2>1. LoadIir /\ UNCHANGED plicVars
    BY <1>2 DEF ServeIir
  <2>2. UNCHANGED <<vio, pc, idx, level, ctx, cand, mip, steady, claimed,
                    sent, kicked, writes>>
    BY <1>2 DEF ServeIir, hartVars, counters
  <2>3. HartTypeOK'
    BY <1>0, <1>2, <2>2 DEF ServeIir, HartTypeOK
  <2> QED
    BY <2>1, <2>2, <2>3, OutsideIInv DEF UartStep, PlicStep, plicVars
<1>3. CASE ServeRbr(h)
  <2>1. LoadRbr /\ UNCHANGED plicVars
    BY <1>3 DEF ServeRbr
  <2>2. UNCHANGED <<vio, pc, idx, level, ctx, cand, mip, steady, claimed,
                    sent, kicked, writes>>
    BY <1>3 DEF ServeRbr, hartVars, counters
  <2>3. HartTypeOK'
    BY <1>0, <1>3, <2>2 DEF ServeRbr, HartTypeOK
  <2> QED
    BY <2>1, <2>2, <2>3, OutsideIInv DEF UartStep, PlicStep, plicVars
<1>4. CASE ServeAck(h)
  <2>1. UNCHANGED uartVars /\ UNCHANGED plicVars
    BY <1>4 DEF ServeAck
  <2>2. UNCHANGED <<pc, idx, level, ctx, cand, mip, steady, claimed,
                    sent, kicked, writes>>
    BY <1>4 DEF ServeAck, hartVars, counters
  <2>3. HartTypeOK'
    BY <1>0, <1>4, <2>2 DEF ServeAck, HartTypeOK
  <2> QED
    BY <2>1, <2>2, <2>3, OutsideIInv DEF UartStep, PlicStep, plicVars
<1>5. CASE Complete(h)
  <2>1. CompleteInterrupt(GuestCtx[h], claimed[h]) /\ UNCHANGED uartVars
    BY <1>5 DEF Complete
  <2>2. UNCHANGED <<vio, pc, idx, level, ctx, cand, mip, steady,
                    sent, kicked, writes>>
    BY <1>5 DEF Complete, hartVars, counters
  <2>3. HartTypeOK'
    BY <1>0, <1>5, <2>2 DEF Complete, HartTypeOK
  <2>4. claimed[h] \in Sources \cup {0}
    BY <1>0 DEF HartTypeOK
  <2>5. PlicStep /\ UNCHANGED <<priority, pending, enable, threshold>>
    BY <2>1, <2>4 DEF PlicStep, CompleteInterrupt
  <2> QED
    BY <2>1, <2>2, <2>3, <2>5, OutsideIInv DEF UartStep
<1> QED
  BY <1>1, <1>2, <1>3, <1>4, <1>5 DEF Serve

LEMMA NextIInv == IInv /\ [Next]_vars => IInv'
<1> SUFFICES ASSUME IInv, [Next]_vars PROVE IInv'
  OBVIOUS
<1> USE InterruptsAssumption
<1>0. HartTypeOK
  BY DEF IInv, TypeOK
<1>1. CASE HostInput
  <2>1. PushInput /\ UNCHANGED plicVars
    BY <1>1 DEF HostInput
  <2>2. UNCHANGED <<vio, pc, idx, level, ctx, cand, mip, steady, handler, claimed,
                    kicked, writes>>
    BY <1>1 DEF HostInput, hartVars, guestVars
  <2>3. HartTypeOK'
    BY <1>0, <1>1, <2>2 DEF HostInput, HartTypeOK
  <2> QED
    BY <2>1, <2>2, <2>3, OutsideIInv DEF UartStep, PlicStep, plicVars
<1>2. ASSUME NEW s \in Virtio, Kick(s)
      PROVE  IInv'
  <2>1. UNCHANGED uartVars /\ UNCHANGED plicVars
    BY <1>2 DEF Kick
  <2>2. UNCHANGED <<pc, idx, level, ctx, cand, mip, steady, handler, claimed,
                    sent, writes>>
    BY <1>2 DEF Kick, hartVars, guestVars
  <2>3. HartTypeOK'
    BY <1>0, <1>2, <2>2 DEF Kick, HartTypeOK
  <2> QED
    BY <2>1, <2>2, <2>3, OutsideIInv DEF UartStep, PlicStep, plicVars
<1>3. ASSUME NEW h \in Harts, WriteUart(h)
      PROVE  IInv'
  <2>1. UartStep /\ UNCHANGED plicVars
    BY <1>3 DEF WriteUart, UartStep
  <2>2. UNCHANGED <<vio, pc, idx, level, ctx, cand, mip, steady, handler, claimed,
                    sent, kicked>>
    BY <1>3 DEF WriteUart, hartVars, guestVars
  <2>3. HartTypeOK'
    BY <1>0, <1>3, <2>2 DEF WriteUart, HartTypeOK
  <2> QED
    BY <2>1, <2>2, <2>3, OutsideIInv DEF PlicStep, plicVars
<1>4. ASSUME NEW h \in Harts, WritePlic(h)
      PROVE  IInv'
  <2>1. PlicStep /\ UNCHANGED uartVars /\ Watch
    BY <1>4 DEF WritePlic, PlicStep
  <2>2. UNCHANGED <<vio, pc, idx, level, ctx, cand, mip, handler, claimed,
                    sent, kicked>>
    BY <1>4 DEF WritePlic, hartVars, guestVars
  <2>3. steady' \in [Harts -> SUBSET Sources]
    BY <1>0, <2>1 DEF Watch, HartTypeOK
  <2>4. HartTypeOK'
    BY <1>0, <1>4, <2>2, <2>3 DEF WritePlic, HartTypeOK
  <2> QED
    BY <2>1, <2>2, <2>4, OutsideIInv DEF UartStep
<1>5. CASE UNCHANGED vars
  <2>1. UNCHANGED uartVars /\ UNCHANGED plicVars
    BY <1>5 DEF vars
  <2>2. UNCHANGED <<vio, pc, idx, level, ctx, cand, mip, steady, handler, claimed,
                    sent, kicked, writes>>
    BY <1>5 DEF vars
  <2>3. HartTypeOK'
    BY <1>0, <2>2 DEF HartTypeOK
  <2> QED
    BY <2>1, <2>2, <2>3, OutsideIInv DEF UartStep, PlicStep, plicVars
<1> QED
  BY <1>1, <1>2, <1>3, <1>4, <1>5, PollIInv, ServeIInv DEF Next

(* The invariant holds of every behaviour. *)
THEOREM InterruptsIInv == Spec => []IInv
BY InitIInv, NextIInv, PTL DEF Spec

(* Whatever harts, sources and priorities there are, the caches the        *)
(* interrupt poll reads without the PLIC's lock are never behind.          *)
THEOREM InterruptsCachesMirror == Spec => []CachesMirror
<1>1. IInv => CachesMirror
  BY DEF IInv
<1> QED
  BY <1>1, InterruptsIInv, PTL

(* Received bytes always hold the UART's line up and are what IIR reports. *)
THEOREM InterruptsInputHoldsLine == Spec => []InputHoldsLine
<1>1. IInv => InputHoldsLine
  BY DEF IInv
<1> QED
  BY <1>1, InterruptsIInv, PTL

(* The lock-free check of a context never answers FALSE while a source is  *)
(* raised for it from its first load to its last.                          *)
THEOREM InterruptsSteadyIsSeen == Spec => []SteadyIsSeen
<1>1. IInv => SteadyIsSeen
  BY DEF IInv, CheckInv, SteadyIsSeen
<1> QED
  BY <1>1, InterruptsIInv, PTL
=============================================================================
