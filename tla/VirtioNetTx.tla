---------------------------- MODULE VirtioNetTx ----------------------------
(***************************************************************************)
(* The transmit queue of the network card: send, process_tx and the        *)
(* descriptor free list of kernel/src/virtio_net.rs, and process_tx_queue  *)
(* of riscv-vm/src/devices/virtio/net.rs, which runs inside the driver's   *)
(* QUEUE_NOTIFY store.                                                     *)
(*                                                                         *)
(* The free list is the code's: threaded through desc[].next, last in      *)
(* first out, its end marked only by num_free.  send() stores 0 in next of *)
(* the descriptor it fills.                                                *)
(***************************************************************************)
EXTENDS Vring, Sequences

CONSTANTS MaxSends   \* bound: frames the stack ever sends

NoDesc == QueueSize
Slots == Descs       \* tx_buffers has one slot per descriptor

VARIABLES
  next, freeHead, numFree,   \* driver: the free list
  slots,                     \* driver: desc_idx of each tx_buffers slot
  frame,                     \* driver: number of the frame in each slot
  lastUsed,                  \* driver: tx_queue.last_used_idx
  availRing, availIdx, usedRing, usedIdx,   \* DRAM
  lastAvail,                 \* device: tx_queue.last_avail_idx
  wire,                      \* frames given to backend.send, in order
  pc, desc,                  \* driver: idle, ring, idx, notify, reap; desc_idx
  sends                      \* calls of send() that got a descriptor

freeList == <<next, freeHead, numFree>>
rings == <<availRing, availIdx, usedRing, usedIdx>>
vars == <<freeList, slots, frame, lastUsed, rings, lastAvail, wire, pc, desc, sends>>

(* VirtQueue::new *)
Init ==
  /\ next = [d \in Descs |-> d + 1] /\ freeHead = 0 /\ numFree = QueueSize
  /\ slots = [s \in Slots |-> NoDesc]
  /\ frame = [s \in Slots |-> 0]
  /\ lastUsed = 0
  /\ availRing = [s \in Descs |-> 0] /\ availIdx = 0
  /\ usedRing = [s \in Descs |-> 0] /\ usedIdx = 0
  /\ lastAvail = 0 /\ wire = <<>>
  /\ pc = "idle" /\ desc = NoDesc /\ sends = 0

FreeSlots == {s \in Slots : slots[s] = NoDesc}
SlotOf(d) == CHOOSE s \in Slots : slots[s] = d

(* send, up to the filled descriptor: alloc_desc, the first free slot, the *)
(* buffer.  With no descriptor or no slot it returns an error; the second  *)
(* happens after alloc_desc.                                               *)
Send ==
  /\ pc = "idle" /\ sends < MaxSends /\ numFree > 0
  /\ freeHead' = next[freeHead]
  /\ numFree' = numFree - 1
  /\ sends' = sends + 1
  /\ IF FreeSlots = {}
       THEN UNCHANGED <<next, slots, frame, pc, desc>>
       ELSE LET s == CHOOSE s \in FreeSlots : \A t \in FreeSlots : s <= t
            IN  /\ next' = [next EXCEPT ![freeHead] = 0]
                /\ slots' = [slots EXCEPT ![s] = freeHead]
                /\ frame' = [frame EXCEPT ![s] = sends + 1]
                /\ desc' = freeHead /\ pc' = "ring"
  /\ UNCHANGED <<lastUsed, rings, lastAvail, wire>>

(* push_avail *)
PushRing ==
  /\ pc = "ring"
  /\ availRing' = [availRing EXCEPT ![Slot(availIdx)] = desc]
  /\ pc' = "idx"
  /\ UNCHANGED <<freeList, slots, frame, lastUsed, availIdx, usedRing, usedIdx,
                 lastAvail, wire, desc, sends>>

PushIdx ==
  /\ pc = "idx"
  /\ availIdx' = Inc(availIdx)
  /\ pc' = "notify"
  /\ UNCHANGED <<freeList, slots, frame, lastUsed, availRing, usedRing, usedIdx,
                 lastAvail, wire, desc, sends>>

(* Mutant: last_avail_idx is not stored back into the queue state. *)
NotifyForgetsIndex ==
  /\ pc = "notify" /\ lastAvail # availIdx
  /\ wire' = Append(wire, frame[SlotOf(availRing[Slot(lastAvail)])])
  /\ usedRing' = [usedRing EXCEPT ![Slot(usedIdx)] = availRing[Slot(lastAvail)]]
  /\ usedIdx' = Inc(usedIdx)
  /\ pc' = "idle" /\ desc' = NoDesc
  /\ UNCHANGED <<freeList, slots, frame, lastUsed, availRing, availIdx, lastAvail, sends>>

(* One iteration of process_tx_queue: the frame of the chain (the driver   *)
(* chains one descriptor) goes to the backend, the descriptor to the used  *)
(* ring.  The driver is inside its notify store until the loop ends.       *)
Notify ==
  /\ pc = "notify" /\ lastAvail # availIdx
  /\ wire' = Append(wire, frame[SlotOf(availRing[Slot(lastAvail)])])
  /\ usedRing' = [usedRing EXCEPT ![Slot(usedIdx)] = availRing[Slot(lastAvail)]]
  /\ usedIdx' = Inc(usedIdx)
  /\ lastAvail' = Inc(lastAvail)
  /\ pc' = IF lastAvail' = availIdx THEN "idle" ELSE "notify"
  /\ desc' = IF lastAvail' = availIdx THEN NoDesc ELSE desc
  /\ UNCHANGED <<freeList, slots, frame, lastUsed, availRing, availIdx, sends>>

(* free_desc *)
FreeDesc(d) ==
  /\ next' = [next EXCEPT ![d] = freeHead]
  /\ freeHead' = d /\ numFree' = numFree + 1

(* process_tx: the slot of descriptor d becomes None. *)
DropBuffer(d) == slots' = [s \in Slots |-> IF slots[s] = d THEN NoDesc ELSE slots[s]]

(* has_used, pop_used *)
HasUsed == lastUsed # usedIdx

(* One iteration of process_tx: pop_used, drop the buffer, free_desc.  The *)
(* loop runs until the used ring is empty.                                 *)
ProcessTx ==
  /\ pc \in {"idle", "reap"} /\ HasUsed
  /\ LET d == usedRing[Slot(lastUsed)]
     IN  DropBuffer(d) /\ FreeDesc(d)
  /\ lastUsed' = Inc(lastUsed)
  /\ pc' = IF Inc(lastUsed) = usedIdx THEN "idle" ELSE "reap"
  /\ UNCHANGED <<frame, rings, lastAvail, wire, desc, sends>>

SendStep == PushRing \/ PushIdx \/ Notify

Next == Send \/ SendStep \/ ProcessTx

Spec == Init /\ [][Next]_vars

-----------------------------------------------------------------------------

(* The k-th descriptor of the free list, following next from free_head. *)
FreeAt == LET f[k \in Nat] == IF k = 0 THEN freeHead ELSE next[f[k - 1]]
          IN  [k \in 0 .. numFree - 1 |-> f[k]]
Free == {FreeAt[k] : k \in DOMAIN FreeAt}

InHand == IF pc \in {"ring", "idx"} THEN {desc} ELSE {}
InAvail == {availRing[Slot(i)] : i \in Pending(lastAvail, availIdx)}
InUsed == {usedRing[Slot(i)] : i \in Pending(lastUsed, usedIdx)}

(* alloc_desc and free_desc: the first num_free links of the free list are *)
(* distinct descriptors, and the free, filled, available and used ones are *)
(* all the descriptors with none in two places.  tx_buffers has a buffer   *)
(* for exactly those that are not free, so send() never meets its "No TX   *)
(* buffer slots" error, which would lose the descriptor it has just taken. *)
DescOwnedOnce ==
  /\ {slots[s] : s \in Slots} \ {NoDesc} = Descs \ Free
  /\ Cardinality(FreeSlots) = numFree
  /\ Cardinality(Free) = numFree
  /\ Descs = Free \cup InHand \cup InAvail \cup InUsed
  /\ QueueSize = numFree + Cardinality(InHand) + Cardinality(InAvail)
                 + Cardinality(InUsed)

(* The backend gets every frame once, in the order of the send() calls:    *)
(* no frame is taken from a buffer that was reused.                        *)
FramesInOrder ==
  /\ \A i \in 1 .. Len(wire) : wire[i] = i
  /\ pc = "idle" => Len(wire) = sends

(* Every frame the device is done with is reaped, and its descriptor freed: *)
(* the "No TX descriptors available" error of send() is transient.          *)
UsedIsConsumed == (lastUsed # usedIdx) ~> (lastUsed = usedIdx)
=============================================================================
