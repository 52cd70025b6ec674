----------------------------- MODULE VirtioNet -----------------------------
(***************************************************************************)
(* The network card: its receive and its transmit queue, and the kernel's  *)
(* driver, which works on one of them at a time (NetState owns the         *)
(* VirtioNet and runs on hart 0: an answer is sent from the token that     *)
(* smoltcp gets with a received packet, whose descriptor is back by then). *)
(* The device may process arrived packets between any two steps of either. *)
(***************************************************************************)
EXTENDS Vring

CONSTANTS MaxPackets, MaxBacklog, Kinds,   \* see VirtioNetRx
          MaxSends                         \* see VirtioNetTx

VARIABLES arrived, backlog, rxAvailRing, rxAvailIdx, rxUsedRing, rxUsedIdx, buf,
          rxLastAvail, rxLastUsed, dropped, rxPc, rxDesc, again, got
VARIABLES next, freeHead, numFree, slots, frame, txLastUsed, txAvailRing,
          txAvailIdx, txUsedRing, txUsedIdx, txLastAvail, wire, txPc, txDesc, sends

Rx == INSTANCE VirtioNetRx
        WITH availRing <- rxAvailRing, availIdx <- rxAvailIdx,
             usedRing <- rxUsedRing, usedIdx <- rxUsedIdx,
             lastAvail <- rxLastAvail, lastUsed <- rxLastUsed,
             pc <- rxPc, desc <- rxDesc
Tx == INSTANCE VirtioNetTx
        WITH availRing <- txAvailRing, availIdx <- txAvailIdx,
             usedRing <- txUsedRing, usedIdx <- txUsedIdx,
             lastAvail <- txLastAvail, lastUsed <- txLastUsed,
             pc <- txPc, desc <- txDesc

ASSUME KindsAssumption == Kinds \subseteq Rx!PacketKinds
ASSUME BoundsAssumption == {MaxPackets, MaxBacklog, MaxSends} \subseteq Nat

rxVars == <<arrived, backlog, rxAvailRing, rxAvailIdx, rxUsedRing, rxUsedIdx, buf,
            rxLastAvail, rxLastUsed, dropped, rxPc, rxDesc, again, got>>
txVars == <<next, freeHead, numFree, slots, frame, txLastUsed, txAvailRing, txAvailIdx,
            txUsedRing, txUsedIdx, txLastAvail, wire, txPc, txDesc, sends>>
vars == <<rxVars, txVars>>

Init == Rx!Init /\ Tx!Init

(* The network and the device's poll; the driver on the receive queue; the *)
(* driver on the transmit queue.                                           *)
Card == ((\E k \in Kinds : Rx!Arrive(k)) \/ Rx!DevicePoll) /\ UNCHANGED txVars
Receiving == txPc = "idle" /\ Rx!DriverStep /\ UNCHANGED txVars
Sending == rxPc = "idle" /\ (Tx!Send \/ Tx!SendStep) /\ UNCHANGED rxVars
Reaping == rxPc = "idle" /\ Tx!ProcessTx /\ UNCHANGED rxVars

Next == Card \/ Receiving \/ Sending \/ Reaping

(* The shell loop keeps calling poll() of the stack, in which the driver   *)
(* reaps the transmit queue first and then receives; the VM's main thread  *)
(* keeps polling the card.                                                 *)
Spec ==
  /\ Init /\ [][Next]_vars
  /\ WF_vars(Rx!DevicePoll /\ UNCHANGED txVars)
  /\ SF_vars(Receiving) /\ SF_vars(Reaping)
  /\ WF_vars(Tx!SendStep /\ UNCHANGED rxVars)

-----------------------------------------------------------------------------

(* Every receive descriptor is available, used, or with the driver, every  *)
(* transmit descriptor free, filled, available or used, with a buffer      *)
(* unless it is free, and never two of these (push_avail, pop_used,        *)
(* alloc_desc, free_desc, also across the wrap-around of the indices).     *)
DescOwnedOnce == Rx!DescOwnedOnce /\ Tx!DescOwnedOnce

(* The stack gets the packets in order of arrival, none twice: no receive  *)
(* buffer is overwritten while it is unread (recv_with_desc, recycle_rx).  *)
PacketsInOrder == [][got' = got \/ got' > got]_vars

(* Every entry of the used rings is taken by the driver (pop_used): the    *)
(* packets are received, and "No TX descriptors available" is transient.   *)
UsedIsConsumed == Rx!UsedIsConsumed /\ Tx!UsedIsConsumed

(* The backend gets every frame once and in the order of send().           *)
FramesInOrder == Tx!FramesInOrder

=============================================================================
