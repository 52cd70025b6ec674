---------------------------- MODULE VirtioNetRx ----------------------------
(***************************************************************************)
(* The receive queue of the network card: the kernel driver                *)
(* (kernel/src/virtio_net.rs), its three callers in kernel/src/net.rs and  *)
(* the emulated device (riscv-vm/src/devices/virtio/net.rs).               *)
(*                                                                         *)
(* The driver runs on hart 0.  The device runs either inside the driver's  *)
(* QUEUE_NOTIFY store or when the main thread polls it between two         *)
(* instructions of hart 0, so each pass over the backend's packets is one  *)
(* step, but it may fall between any two memory accesses of the driver.    *)
(* A packet is its arrival number and what the code tells apart in it.     *)
(***************************************************************************)
EXTENDS Vring, Sequences, SequencesExt

CONSTANTS MaxPackets,   \* bound: packets 1 .. MaxPackets ever arrive
          MaxBacklog,   \* bound: packets the backend holds at once
          Kinds         \* the kinds of packets that arrive

(* frame   any packet the stack accepts, an echo reply for us included     *)
(* foreign an ICMP echo reply whose identifier is not ICMP_IDENT           *)
(* empty   a packet of no bytes: header only in the buffer                 *)
(* big     a packet longer than the 1514 bytes a buffer has room for       *)
PacketKinds == {"frame", "foreign", "empty", "big"}

NoDesc == QueueSize

VARIABLES
  arrived,    \* packets the network has delivered to the backend so far
  backlog,    \* packets waiting in the backend
  availRing, availIdx,   \* the available ring, in DRAM
  usedRing, usedIdx,     \* the used ring, in DRAM
  buf,        \* the packet in each descriptor's buffer
  lastAvail,  \* device: rx_queue.last_avail_idx
  lastUsed,   \* driver: rx_queue.last_used_idx
  dropped,    \* ghost: descriptors that were consumed but will never return
  pc,         \* driver: idle, ring, idx, notify
  desc,       \* driver: desc_idx in hand
  again,      \* driver: recycle_rx calls left for desc after this one
  got         \* driver: number of the last packet handed to the stack

dram == <<availRing, availIdx, usedRing, usedIdx, buf>>
driver == <<lastUsed, pc, desc, again, got>>
vars == <<arrived, backlog, dram, lastAvail, dropped, driver>>

NoPacket == [id |-> 0, kind |-> "none"]

(* After init and populate_rx_queue: every descriptor is available. *)
Init ==
  /\ arrived = 0 /\ backlog = <<>>
  /\ availRing = [s \in Descs |-> s] /\ availIdx = QueueSize
  /\ usedRing = [s \in Descs |-> 0] /\ usedIdx = 0
  /\ buf = [d \in Descs |-> NoPacket]
  /\ lastAvail = 0 /\ lastUsed = 0
  /\ dropped = {}
  /\ pc = "idle" /\ desc = NoDesc /\ again = 0 /\ got = 0

(* The network hands the backend a packet. *)
Arrive(k) ==
  /\ arrived < MaxPackets /\ Len(backlog) < MaxBacklog
  /\ arrived' = arrived + 1
  /\ backlog' = Append(backlog, [id |-> arrived + 1, kind |-> k])
  /\ UNCHANGED <<dram, lastAvail, dropped, driver>>

-----------------------------------------------------------------------------
(* The device *)

QueueState == [usedRing |-> usedRing, usedIdx |-> usedIdx, buf |-> buf,
               lastAvail |-> lastAvail, dropped |-> dropped]

(* Mutant: the loop does not look whether the driver gave it a buffer. *)
DeliverUnchecked(q, p) ==
  LET d == availRing[Slot(q.lastAvail)]
  IN  [q EXCEPT !.buf = [@ EXCEPT ![d] = p],
                !.usedRing = [@ EXCEPT ![Slot(q.usedIdx)] = d],
                !.usedIdx = Inc(@),
                !.lastAvail = Inc(@)]

(* One iteration of the loop of process_rx_queue for packet p: no buffer,  *)
(* the packet is lost; too small a buffer, both are; else p goes into the  *)
(* buffer and its descriptor into the used ring.                           *)
Deliver(q, p) ==
  LET d == availRing[Slot(q.lastAvail)]
  IN  CASE q.lastAvail = availIdx -> q
        [] q.lastAvail # availIdx /\ p.kind = "big" ->
             [q EXCEPT !.lastAvail = Inc(@), !.dropped = @ \cup {d}]
        [] OTHER ->
             [q EXCEPT !.buf = [@ EXCEPT ![d] = p],
                       !.usedRing = [@ EXCEPT ![Slot(q.usedIdx)] = d],
                       !.usedIdx = Inc(@),
                       !.lastAvail = Inc(@)]

(* process_rx_queue: all packets the backend has. *)
ProcessRxQueue ==
  LET q == FoldLeft(Deliver, QueueState, backlog)
  IN  /\ backlog' = <<>>
      /\ usedRing' = q.usedRing /\ usedIdx' = q.usedIdx /\ buf' = q.buf
      /\ lastAvail' = q.lastAvail /\ dropped' = q.dropped

(* The main thread's poll_virtio. *)
DevicePoll ==
  /\ backlog # <<>>
  /\ ProcessRxQueue
  /\ UNCHANGED <<arrived, availRing, availIdx, driver>>

-----------------------------------------------------------------------------
(* The driver *)

(* Mutant: pop_used compares the indices with < and stalls at the wrap. *)
ReceiveBelow(caller) ==
  /\ pc = "idle" /\ lastUsed < usedIdx
  /\ lastUsed' = Inc(lastUsed)
  /\ desc' = usedRing[Slot(lastUsed)] /\ got' = buf[desc'].id
  /\ again' = 0 /\ pc' = "ring"
  /\ UNCHANGED <<dropped, arrived, backlog, dram, lastAvail>>

(* Who calls recv_with_desc: smoltcp (DeviceWrapper::receive), resolve_mac *)
(* and check_ping_reply.  Each recycles the packet's descriptor once, but  *)
(* check_ping_reply recycles a foreign echo reply where it parses it and   *)
(* again at its end.                                                       *)
Callers == {"stack", "arp", "ping"}
Recycles(caller, p) == IF caller = "ping" /\ p.kind = "foreign" THEN 2 ELSE 1

(* recv_with_desc: pop_used, and None for a packet without payload. *)
Receive(caller) ==
  /\ pc = "idle" /\ lastUsed # usedIdx
  /\ lastUsed' = Inc(lastUsed)
  /\ LET d == usedRing[Slot(lastUsed)]
         p == buf[d]
     IN  IF p.kind = "empty"
           THEN /\ dropped' = dropped \cup {d}
                /\ UNCHANGED <<pc, desc, again, got>>
           ELSE /\ desc' = d /\ got' = p.id
                /\ again' = Recycles(caller, p) - 1
                /\ pc' = "ring"
                /\ UNCHANGED dropped
  /\ UNCHANGED <<arrived, backlog, dram, lastAvail>>

(* recycle_rx: push_avail writes the slot ... *)
PushRing ==
  /\ pc = "ring"
  /\ availRing' = [availRing EXCEPT ![Slot(availIdx)] = desc]
  /\ pc' = "idx"
  /\ UNCHANGED <<arrived, backlog, availIdx, usedRing, usedIdx, buf, lastAvail,
                 dropped, lastUsed, desc, again, got>>

(* ... then, after a fence, the index ... *)
PushIdx ==
  /\ pc = "idx"
  /\ availIdx' = Inc(availIdx)
  /\ pc' = "notify"
  /\ UNCHANGED <<arrived, backlog, availRing, usedRing, usedIdx, buf, lastAvail,
                 dropped, lastUsed, desc, again, got>>

(* ... and notifies queue 0, in which the device processes the queue.      *)
Notify ==
  /\ pc = "notify"
  /\ ProcessRxQueue
  /\ pc' = IF again > 0 THEN "ring" ELSE "idle"
  /\ desc' = IF again > 0 THEN desc ELSE NoDesc
  /\ again' = 0
  /\ UNCHANGED <<arrived, availRing, availIdx, lastUsed, got>>

DriverStep == (\E c \in Callers : Receive(c)) \/ PushRing \/ PushIdx \/ Notify

Next == (\E k \in Kinds : Arrive(k)) \/ DevicePoll \/ DriverStep

Spec == Init /\ [][Next]_vars

-----------------------------------------------------------------------------

(* The driver has d in hand until PushIdx publishes it. *)
InHand(d) == desc = d /\ (pc \in {"ring", "idx"} \/ again > 0)

(* Where descriptor d is; "dropped" are the two paths that lose it.        *)
Owners(d) ==
  {<<"avail", i>> : i \in PendingOf(availRing, lastAvail, availIdx, d)}
  \cup {<<"used", i>> : i \in PendingOf(usedRing, lastUsed, usedIdx, d)}
  \cup (IF InHand(d) THEN {<<"driver", 0>>} ELSE {})
  \cup (IF d \in dropped THEN {<<"dropped", 0>>} ELSE {})

(* push_avail, process_rx_queue and pop_used hand each descriptor on: it   *)
(* is published, filled, or with the driver, and never two of these, also  *)
(* across the wrap-around of the indices.                                  *)
DescOwnedOnce == \A d \in Descs : Cardinality(Owners(d)) = 1

(* Every packet put in the used ring is handed to the stack. *)
UsedIsConsumed == (lastUsed # usedIdx) ~> (lastUsed = usedIdx)
=============================================================================
