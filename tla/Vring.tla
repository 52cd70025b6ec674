------------------------------- MODULE Vring -------------------------------
(***************************************************************************)
(* Index arithmetic of a split virtqueue as the kernel drivers             *)
(* (kernel/src/virtio_net.rs, virtio_blk.rs) and the emulated devices      *)
(* (riscv-vm/src/devices/virtio) compute it: free-running 16-bit indices,  *)
(* reduced modulo the queue size only to address a ring slot.              *)
(***************************************************************************)
EXTENDS Integers, FiniteSets

CONSTANTS QueueSize,   \* descriptors of the queue (16 in the driver)
          IdxMod       \* range of avail.idx and used.idx (2^16)

ASSUME VringAssumption == /\ QueueSize \in Nat \ {0}
                          /\ IdxMod \in Nat
                          /\ IdxMod > QueueSize
                          /\ IdxMod % QueueSize = 0

Descs == 0 .. QueueSize - 1

(* idx.wrapping_add(1), and the slot an index addresses. *)
Inc(i) == (i + 1) % IdxMod
Slot(i) == i % QueueSize

(* The indices from lo up to, not including, hi: the entries one side has  *)
(* published and the other has not consumed.                               *)
Pending(lo, hi) == {(lo + k) % IdxMod : k \in 0 .. ((hi - lo) % IdxMod) - 1}

(* The pending entries of a ring that hold descriptor d. *)
PendingOf(ring, lo, hi, d) == {i \in Pending(lo, hi) : ring[Slot(i)] = d}
=============================================================================
