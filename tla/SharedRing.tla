----------------------------- MODULE SharedRing -----------------------------
(***************************************************************************)
(* A ring buffer in a SharedArrayBuffer: SharedUartOutput and              *)
(* SharedUartInput of shared_mem.rs.  One side only advances write_idx,    *)
(* the other only read_idx; both are loaded and stored by Atomics calls,   *)
(* each a step, and the bytes are stored and loaded one at a time without  *)
(* any.  write_byte and read_byte are write_bytes and read_bytes with one  *)
(* byte.  The code is meant for one producer; the module takes any number. *)
(***************************************************************************)
EXTENDS Integers, Sequences

CONSTANTS
  Producers,   \* the threads that write
  Capacity,    \* UART_BUFFER_CAPACITY, 4088 in the code
  Bytes,       \* the values of a byte
  MaxBatch,    \* bound on the length of one write and one read
  MaxBytes     \* bound on the bytes written

ASSUME RingAssumption == Capacity \in Nat /\ Capacity >= 2 /\ MaxBatch \in Nat

VARIABLES
  write_idx, read_idx,
  cells,       \* the bytes of the buffer
  prod,        \* per producer: its stage, its current_write, the bytes left
  cons,        \* the consumer: its stage, its current_read, how many are left
  written,     \* ghost: every byte stored, in order
  taken,       \* ghost: every byte loaded, in order
  shown,       \* ghost: how many bytes write_idx has published
  freed        \* ghost: how many bytes read_idx has released

ringVars == <<write_idx, read_idx, cells, prod, cons, written, taken, shown, freed>>

-----------------------------------------------------------------------------
Slots == 0..(Capacity - 1)

After(i) == (i + 1) % Capacity

\* Free space and contents, from the two indices.
\* Mutant: the ring may be filled to the last cell.
SpaceToTheLast(w, r) == IF w >= r THEN Capacity - (w - r) ELSE r - w

Space(w, r) == IF w >= r THEN Capacity - (w - r) - 1 ELSE r - w - 1

Filled(w, r) == IF w >= r THEN w - r ELSE Capacity - r + w

AtRest == [pc |-> "idle", idx |-> 0, todo |-> <<>>]
Waiting == [pc |-> "idle", idx |-> 0, left |-> 0]

RingInit ==
  /\ write_idx = 0 /\ read_idx = 0
  /\ cells \in [Slots -> Bytes]
  /\ prod = [p \in Producers |-> AtRest]
  /\ cons = Waiting
  /\ written = <<>> /\ taken = <<>>
  /\ shown = 0 /\ freed = 0

-----------------------------------------------------------------------------
(* write_bytes.                                                            *)

\* write_idx is loaded first, and read_idx next.
BeginWrite(p) ==
  /\ prod[p].pc = "idle"
  /\ \E bytes \in UNION {[1..n -> Bytes] : n \in 1..MaxBatch} :
       /\ Len(written) + Len(bytes) <= MaxBytes
       /\ prod' = [prod EXCEPT ![p] = [pc |-> "load", idx |-> write_idx, todo |-> bytes]]
  /\ UNCHANGED <<write_idx, read_idx, cells, cons, written, taken, shown, freed>>

\* As many bytes as fit are written; none if the ring is full.
LoadRead(p) ==
  /\ prod[p].pc = "load"
  /\ LET room == Space(prod[p].idx, read_idx)
         n == IF Len(prod[p].todo) <= room THEN Len(prod[p].todo) ELSE room
     IN  prod' = [prod EXCEPT ![p] =
                    IF n = 0 THEN AtRest
                    ELSE [pc |-> "write", idx |-> prod[p].idx,
                          todo |-> SubSeq(prod[p].todo, 1, n)]]
  /\ UNCHANGED <<write_idx, read_idx, cells, cons, written, taken, shown, freed>>

PutByte(p) ==
  /\ prod[p].pc = "write"
  /\ prod[p].todo # <<>>
  /\ cells' = [cells EXCEPT ![prod[p].idx] = Head(prod[p].todo)]
  /\ written' = Append(written, Head(prod[p].todo))
  /\ prod' = [prod EXCEPT ![p] = [pc |-> "write", idx |-> After(prod[p].idx),
                                  todo |-> Tail(prod[p].todo)]]
  /\ UNCHANGED <<write_idx, read_idx, cons, taken, shown, freed>>

\* The write index is stored once, after the bytes.
Publish(p) ==
  /\ prod[p].pc = "write"
  /\ prod[p].todo = <<>>
  /\ write_idx' = prod[p].idx
  /\ shown' = Len(written)
  /\ prod' = [prod EXCEPT ![p] = AtRest]
  /\ UNCHANGED <<read_idx, cells, cons, written, taken, freed>>

-----------------------------------------------------------------------------
(* read_bytes.                                                             *)

BeginRead ==
  /\ cons.pc = "idle"
  /\ cons' = [pc |-> "load", idx |-> write_idx, left |-> 0]
  /\ UNCHANGED <<write_idx, read_idx, cells, prod, written, taken, shown, freed>>

\* The read index is this thread's own; max is the caller's max_count.
LoadOwn ==
  /\ cons.pc = "load"
  /\ \E max \in 1..MaxBatch :
       LET here == Filled(cons.idx, read_idx)
           n == IF here <= max THEN here ELSE max
       IN  cons' = IF n = 0 THEN Waiting
                   ELSE [pc |-> "read", idx |-> read_idx, left |-> n]
  /\ UNCHANGED <<write_idx, read_idx, cells, prod, written, taken, shown, freed>>

GetByte ==
  /\ cons.pc = "read"
  /\ cons.left > 0
  /\ taken' = Append(taken, cells[cons.idx])
  /\ cons' = [pc |-> "read", idx |-> After(cons.idx), left |-> cons.left - 1]
  /\ UNCHANGED <<write_idx, read_idx, cells, prod, written, shown, freed>>

Release ==
  /\ cons.pc = "read"
  /\ cons.left = 0
  /\ read_idx' = cons.idx
  /\ freed' = Len(taken)
  /\ cons' = Waiting
  /\ UNCHANGED <<write_idx, cells, prod, written, taken, shown>>

-----------------------------------------------------------------------------
RingNext ==
  \/ \E p \in Producers : BeginWrite(p) \/ LoadRead(p) \/ PutByte(p) \/ Publish(p)
  \/ BeginRead \/ LoadOwn \/ GetByte \/ Release

RingSpec == RingInit /\ [][RingNext]_ringVars

\* With one producer the ring is a queue: every byte is taken once, in the
\* order of the writes, and no byte is overwritten before it is taken
\* (write_byte, write_bytes, read_byte, read_bytes).
Queue == INSTANCE Fifo WITH sent <- written, got <- taken, Room <- Capacity - 1

RingIsQueue == Queue!FifoSpec

=============================================================================
