----------------------------- MODULE HostsProofs -----------------------------
(***************************************************************************)
(* Proofs about the parts of the hosts: a SharedArrayBuffer ring with one  *)
(* producer and one consumer implements a queue, and the browser client    *)
(* has one connection or one attempt to make it.                           *)
(***************************************************************************)
EXTENDS SharedRing, WebTransport, FiniteSetTheorems, TLAPS

\* The cell k places after index r.
Pos(r, k) == IF r + k < Capacity THEN r + k ELSE r + k - Capacity

RingType ==
  /\ write_idx \in Slots /\ read_idx \in Slots
  /\ cells \in [Slots -> Bytes]
  /\ prod \in [Producers -> [pc : {"idle", "load", "write"}, idx : Slots, todo : Seq(Bytes)]]
  /\ cons \in [pc : {"idle", "load", "read"}, idx : Slots, left : Nat]
  /\ written \in Seq(Bytes) /\ taken \in Seq(Bytes)
  /\ shown \in Nat /\ freed \in Nat

\* The four counts are in order, and the ring is never overfull.
CountsInOrder ==
  /\ freed <= Len(taken) /\ Len(taken) <= shown /\ shown <= Len(written)
  /\ Len(written) - freed < Capacity

\* Where the producer p is, and what it may still write.
ProducerIsAt(p) ==
  /\ prod[p].pc # "write" => Len(written) = shown
  /\ prod[p].pc = "load" => prod[p].idx = write_idx
  /\ prod[p].pc = "write" =>
       /\ prod[p].idx = Pos(read_idx, Len(written) - freed)
       /\ Len(written) - freed + Len(prod[p].todo) < Capacity

\* Where the consumer is; the write index it loaded may be an old one.
ConsumerIsAt ==
  /\ cons.pc # "read" => Len(taken) = freed
  /\ cons.pc = "load" => \E k \in 0..(shown - freed) : cons.idx = Pos(read_idx, k)
  /\ cons.pc = "read" => /\ cons.idx = Pos(read_idx, Len(taken) - freed)
                         /\ Len(taken) + cons.left <= shown

\* What was written and not released is in its cells.
CellsHoldWritten ==
  \A k \in 0..(Len(written) - freed - 1) : cells[Pos(read_idx, k)] = written[freed + 1 + k]

RingInv(p) ==
  /\ RingType
  /\ CountsInOrder
  /\ write_idx = Pos(read_idx, shown - freed)
  /\ ProducerIsAt(p)
  /\ ConsumerIsAt
  /\ CellsHoldWritten

-----------------------------------------------------------------------------
\* The index after i, without a remainder.
LEMMA AfterIs == ASSUME NEW i \in Slots
                 PROVE  After(i) = IF i + 1 = Capacity THEN 0 ELSE i + 1
BY RingAssumption DEF After, Slots

\* Positions are indices, move by After, add up, and are distinct.
LEMMA PosFacts ==
  ASSUME NEW r \in Slots
  PROVE  /\ \A k \in 0..(Capacity - 1) : Pos(r, k) \in Slots
         /\ Pos(r, 0) = r
         /\ \A k \in 0..(Capacity - 2) : After(Pos(r, k)) = Pos(r, k + 1)
         /\ \A j, k \in 0..(Capacity - 1) : j + k < Capacity => Pos(Pos(r, j), k) = Pos(r, j + k)
         /\ \A j, k \in 0..(Capacity - 1) : Pos(r, j) = Pos(r, k) => j = k
<1>1. \A k \in 0..(Capacity - 1) : Pos(r, k) \in Slots
  BY RingAssumption DEF Pos, Slots
<1>2. Pos(r, 0) = r
  BY RingAssumption DEF Pos, Slots
<1>3. \A k \in 0..(Capacity - 2) : After(Pos(r, k)) = Pos(r, k + 1)
  <2> TAKE k \in 0..(Capacity - 2)
  <2>1. After(Pos(r, k)) = IF Pos(r, k) + 1 = Capacity THEN 0 ELSE Pos(r, k) + 1
    BY <1>1, AfterIs, RingAssumption
  <2> QED
    BY <2>1, RingAssumption DEF Pos, Slots
<1>4. \A j, k \in 0..(Capacity - 1) : j + k < Capacity => Pos(Pos(r, j), k) = Pos(r, j + k)
  BY RingAssumption DEF Pos, Slots
<1>5. \A j, k \in 0..(Capacity - 1) : Pos(r, j) = Pos(r, k) => j = k
  BY RingAssumption DEF Pos, Slots
<1> QED
  BY <1>1, <1>2, <1>3, <1>4, <1>5

\* What the two indices say of the contents, when the first is k cells ahead.
LEMMA FilledIs ==
  ASSUME NEW r \in Slots, NEW k \in 0..(Capacity - 1)
  PROVE  /\ Filled(Pos(r, k), r) = k
         /\ Space(Pos(r, k), r) = Capacity - 1 - k
BY RingAssumption DEF Filled, Space, Pos, Slots

-----------------------------------------------------------------------------
\* The ring starts empty.
LEMMA RingInvInit == ASSUME NEW P, Producers = {P}, RingInit
                     PROVE  RingInv(P)
<1> USE RingAssumption DEF RingInit, AtRest, Waiting, Slots
<1>1. RingType
  BY DEF RingType
<1>2. CountsInOrder /\ ProducerIsAt(P) /\ ConsumerIsAt /\ CellsHoldWritten
  BY DEF CountsInOrder, ProducerIsAt, ConsumerIsAt, CellsHoldWritten
<1>3. write_idx = Pos(read_idx, shown - freed)
  BY DEF Pos
<1> QED
  BY <1>1, <1>2, <1>3 DEF RingInv

\* Every step keeps the invariant.
LEMMA RingInvStep == ASSUME NEW P, Producers = {P}, RingInv(P), [RingNext]_ringVars
                     PROVE  RingInv(P)'
<1> USE DEF RingInv
<1> DEFINE W == Len(written) - freed
           S == shown - freed
           T == Len(taken) - freed
<1>0. /\ W \in 0..(Capacity - 1) /\ S \in 0..(Capacity - 1) /\ T \in 0..(Capacity - 1)
      /\ T <= S /\ S <= W /\ Capacity \in Nat /\ Capacity >= 2
      /\ Len(written) \in Nat /\ Len(taken) \in Nat /\ freed \in Nat /\ shown \in Nat
      /\ P \in Producers
  BY RingAssumption DEF RingType, CountsInOrder
<1>1. CASE BeginWrite(P)
  <2>1. PICK bytes \in UNION {[1..n -> Bytes] : n \in 1..MaxBatch} :
          prod' = [prod EXCEPT ![P] = [pc |-> "load", idx |-> write_idx, todo |-> bytes]]
    BY <1>1, Zenon DEF BeginWrite
  <2>2. bytes \in Seq(Bytes)
    BY RingAssumption
  <2>3. RingType'
    BY <1>1, <2>1, <2>2 DEF BeginWrite, RingType
  <2>4. ProducerIsAt(P)'
    BY <1>0, <1>1, <2>1 DEF BeginWrite, ProducerIsAt, RingType
  <2> QED
    BY <1>1, <2>3, <2>4 DEF BeginWrite, CountsInOrder, ConsumerIsAt, CellsHoldWritten, Pos
<1>2. CASE LoadRead(P)
  <2> DEFINE room == Space(prod[P].idx, read_idx)
             n == IF Len(prod[P].todo) <= room THEN Len(prod[P].todo) ELSE room
  <2>1. /\ prod[P].pc = "load" /\ prod[P].idx = Pos(read_idx, S) /\ W = S
        /\ prod[P].idx \in Slots /\ prod[P].todo \in Seq(Bytes)
        /\ prod' = [prod EXCEPT ![P] = IF n = 0 THEN AtRest
                                       ELSE [pc |-> "write", idx |-> prod[P].idx,
                                             todo |-> SubSeq(prod[P].todo, 1, n)]]
    BY <1>0, <1>2 DEF LoadRead, ProducerIsAt, RingType
  <2>2. room = Capacity - 1 - S
    BY <1>0, <2>1, FilledIs DEF RingType
  <2>3. n \in Nat /\ n <= room /\ n <= Len(prod[P].todo)
    BY <1>0, <2>1, <2>2
  <2>4. SubSeq(prod[P].todo, 1, n) \in Seq(Bytes) /\ Len(SubSeq(prod[P].todo, 1, n)) = n
    BY <2>1, <2>3
  <2> HIDE DEF n, room
  <2>5. PICK rest \in [pc : {"idle", "load", "write"}, idx : Slots, todo : Seq(Bytes)] :
          /\ prod' = [prod EXCEPT ![P] = rest]
          /\ \/ rest.pc = "idle"
             \/ rest.pc = "write" /\ rest.idx = prod[P].idx /\ Len(rest.todo) = n
    <3>1. CASE n = 0
      <4>1. AtRest \in [pc : {"idle", "load", "write"}, idx : Slots, todo : Seq(Bytes)]
            /\ AtRest.pc = "idle"
        BY <1>0 DEF AtRest, Slots
      <4> QED
        BY <2>1, <3>1, <4>1, Zenon
    <3>2. CASE n # 0
      <4> DEFINE r == [pc |-> "write", idx |-> prod[P].idx, todo |-> SubSeq(prod[P].todo, 1, n)]
      <4>1. r \in [pc : {"idle", "load", "write"}, idx : Slots, todo : Seq(Bytes)]
            /\ r.pc = "write" /\ r.idx = prod[P].idx /\ Len(r.todo) = n
        BY <2>1, <2>4
      <4>2. prod' = [prod EXCEPT ![P] = r]
        BY <2>1, <3>2
      <4> HIDE DEF r
      <4> QED
        BY <4>1, <4>2, Zenon
    <3> QED
      BY <3>1, <3>2
  <2>6. RingType'
    <3>1. UNCHANGED <<write_idx, read_idx, cells, cons, written, taken, shown, freed>>
      BY <1>2 DEF LoadRead
    <3> QED
      BY <2>5, <3>1 DEF RingType
  <2>7. ProducerIsAt(P)'
    <3>1. prod'[P] = rest
      BY <1>0, <2>5 DEF RingType
    <3>2. UNCHANGED <<read_idx, written, shown, freed, write_idx>>
      BY <1>2 DEF LoadRead
    <3>3. Pos(read_idx, W)' = Pos(read_idx, W)
      BY <3>2 DEF Pos
    <3>4. prod[P].idx = Pos(read_idx, W) /\ W + n < Capacity
      BY <1>0, <2>1, <2>2, <2>3
    <3> QED
      BY <2>1, <2>5, <3>1, <3>2, <3>3, <3>4 DEF ProducerIsAt
  <2> QED
    BY <1>2, <2>6, <2>7 DEF LoadRead, CountsInOrder, ConsumerIsAt, CellsHoldWritten, Pos
<1>3. CASE PutByte(P)
  <2>1. /\ prod[P].pc = "write" /\ prod[P].idx = Pos(read_idx, W) /\ prod[P].todo \in Seq(Bytes)
        /\ prod[P].todo # <<>> /\ W + Len(prod[P].todo) < Capacity
        /\ prod[P].idx \in Slots
    BY <1>0, <1>3 DEF PutByte, ProducerIsAt, RingType
  <2>2. /\ Head(prod[P].todo) \in Bytes /\ Tail(prod[P].todo) \in Seq(Bytes)
        /\ Len(Tail(prod[P].todo)) = Len(prod[P].todo) - 1 /\ Len(prod[P].todo) >= 1
    BY <2>1
  <2>3. After(prod[P].idx) = Pos(read_idx, W + 1) /\ After(prod[P].idx) \in Slots
    BY <1>0, <2>1, <2>2, PosFacts DEF RingType
  <2>4. Len(written)' = Len(written) + 1 /\ written' \in Seq(Bytes)
        /\ \A i \in 1..Len(written) : written'[i] = written[i]
        /\ written'[Len(written) + 1] = Head(prod[P].todo)
    BY <1>3, <2>2 DEF PutByte, RingType
  <2>5. RingType'
    BY <1>3, <2>2, <2>3, <2>4 DEF PutByte, RingType
  <2>6. CountsInOrder'
    BY <1>0, <1>3, <2>1, <2>2, <2>4 DEF PutByte, CountsInOrder
  <2>7. ProducerIsAt(P)'
    BY <1>0, <1>3, <2>1, <2>2, <2>3, <2>4 DEF PutByte, ProducerIsAt, RingType, Pos
  <2>8. CellsHoldWritten'
    <3> SUFFICES ASSUME NEW k \in 0..W
                 PROVE  cells'[Pos(read_idx, k)] = written'[freed + 1 + k]
      BY <1>0, <1>3, <2>4 DEF PutByte, CellsHoldWritten, Pos
    <3>1. Pos(read_idx, k) \in Slots
      BY <1>0, PosFacts DEF RingType
    <3>2. CASE k = W
      BY <1>0, <1>3, <2>1, <2>4, <3>1, <3>2 DEF PutByte, RingType
    <3>3. CASE k < W
      <4>1. Pos(read_idx, k) # Pos(read_idx, W)
        BY <1>0, <3>3, PosFacts DEF RingType
      <4>2. cells'[Pos(read_idx, k)] = cells[Pos(read_idx, k)]
        BY <1>3, <2>1, <3>1, <4>1 DEF PutByte, RingType
      <4>3. cells[Pos(read_idx, k)] = written[freed + 1 + k]
        BY <1>0, <3>3 DEF CellsHoldWritten
      <4>4. freed + 1 + k \in 1..Len(written)
        BY <1>0, <3>3
      <4> QED
        BY <2>4, <4>2, <4>3, <4>4
    <3> QED
      BY <1>0, <3>2, <3>3
  <2> QED
    BY <1>3, <2>5, <2>6, <2>7, <2>8 DEF PutByte, ConsumerIsAt, Pos
<1>4. CASE Publish(P)
  <2>1. prod[P].idx = Pos(read_idx, W) /\ prod[P].idx \in Slots
    BY <1>0, <1>4 DEF Publish, ProducerIsAt, RingType
  <2>2. RingType'
    BY <1>0, <1>4, <2>1 DEF Publish, RingType, AtRest, Slots
  <2>3. ProducerIsAt(P)' /\ CountsInOrder' /\ CellsHoldWritten'
    BY <1>0, <1>4 DEF Publish, ProducerIsAt, CountsInOrder, CellsHoldWritten, RingType, AtRest, Pos
  <2>4. ConsumerIsAt'
    <3>1. UNCHANGED <<read_idx, cons, taken, freed>> /\ shown' = Len(written)
      BY <1>4 DEF Publish
    <3>2. cons.left \in Nat
      BY DEF RingType
    <3>3. ASSUME cons.pc = "load"
          PROVE  (\E k \in 0..(shown - freed) : cons.idx = Pos(read_idx, k))'
      <4>1. PICK k \in 0..(shown - freed) : cons.idx = Pos(read_idx, k)
        BY <3>3 DEF ConsumerIsAt
      <4>2. k \in 0..(shown' - freed') /\ cons'.idx = Pos(read_idx', k)
        BY <1>0, <3>1, <4>1
      <4> QED
        BY <4>2
    <3>4. ASSUME cons.pc = "read"
          PROVE  (cons.idx = Pos(read_idx, Len(taken) - freed) /\ Len(taken) + cons.left <= shown)'
      BY <1>0, <3>1, <3>2, <3>4 DEF ConsumerIsAt, Pos
    <3> QED
      BY <3>1, <3>3, <3>4 DEF ConsumerIsAt
  <2>5. (write_idx = Pos(read_idx, shown - freed))'
    BY <1>4, <2>1 DEF Publish, Pos
  <2> QED
    BY <2>2, <2>3, <2>4, <2>5
<1>5. CASE BeginRead
  <2>1. RingType'
    BY <1>5 DEF BeginRead, RingType
  <2>2. ConsumerIsAt'
    <3>1. S \in 0..(shown - freed) /\ write_idx = Pos(read_idx, S)
      BY <1>0
    <3>2. cons'.pc = "load" /\ cons'.idx = write_idx /\ Len(taken) = freed
      BY <1>5 DEF BeginRead, ConsumerIsAt
    <3>3. UNCHANGED <<read_idx, shown, freed, taken>>
      BY <1>5 DEF BeginRead
    <3> QED
      BY <3>1, <3>2, <3>3 DEF ConsumerIsAt, Pos
  <2> QED
    BY <1>5, <2>1, <2>2, Zenon DEF BeginRead, CountsInOrder, ProducerIsAt, CellsHoldWritten, Pos
<1>6. CASE LoadOwn
  <2>1. PICK k \in 0..S : cons.idx = Pos(read_idx, k)
    BY <1>0, <1>6 DEF LoadOwn, ConsumerIsAt
  <2>2. k \in 0..(Capacity - 1) /\ Filled(cons.idx, read_idx) = k
    BY <1>0, <2>1, FilledIs DEF RingType
  <2>3. T = 0
    BY <1>0, <1>6 DEF LoadOwn, ConsumerIsAt
  <2>4. PICK n \in 0..k : cons' = IF n = 0 THEN Waiting
                                  ELSE [pc |-> "read", idx |-> read_idx, left |-> n]
    BY <1>6, <2>2, RingAssumption DEF LoadOwn
  <2>5. /\ cons' \in [pc : {"idle", "load", "read"}, idx : Slots, left : Nat]
        /\ \/ cons'.pc = "idle"
           \/ cons'.pc = "read" /\ cons'.idx = read_idx /\ cons'.left <= S
    <3>1. CASE n = 0
      BY <1>0, <2>4, <3>1 DEF Waiting, Slots
    <3>2. CASE n # 0
      <4>1. n \in Nat /\ n <= S /\ read_idx \in Slots
        BY <1>0, <2>1, <2>4 DEF RingType
      <4> QED
        BY <2>4, <3>2, <4>1
    <3> QED
      BY <3>1, <3>2
  <2>6. RingType'
    BY <1>6, <2>5 DEF LoadOwn, RingType
  <2>7. ConsumerIsAt'
    <3>1. UNCHANGED <<read_idx, shown, freed, taken>>
      BY <1>6 DEF LoadOwn
    <3>2. Len(taken) = freed /\ Pos(read_idx, Len(taken) - freed) = read_idx
      BY <1>0, <2>3, PosFacts DEF RingType
    <3>3. Pos(read_idx, Len(taken) - freed)' = read_idx
      BY <3>1, <3>2 DEF Pos
    <3> QED
      BY <1>0, <2>5, <3>1, <3>2, <3>3 DEF ConsumerIsAt, RingType
  <2> QED
    BY <1>6, <2>6, <2>7 DEF LoadOwn, CountsInOrder, ProducerIsAt, CellsHoldWritten, Pos
<1>7. CASE GetByte
  <2>1. /\ cons.pc = "read" /\ cons.left \in Nat /\ cons.left > 0
        /\ cons.idx = Pos(read_idx, T) /\ T + cons.left <= S /\ cons.idx \in Slots
    BY <1>0, <1>7 DEF GetByte, ConsumerIsAt, RingType
  <2>2. After(cons.idx) = Pos(read_idx, T + 1) /\ After(cons.idx) \in Slots
    BY <1>0, <2>1, PosFacts DEF RingType
  <2>3. Len(taken)' = Len(taken) + 1 /\ taken' \in Seq(Bytes)
    BY <1>7, <2>1 DEF GetByte, RingType
  <2>4. RingType'
    BY <1>7, <2>1, <2>2, <2>3 DEF GetByte, RingType
  <2>5. CountsInOrder'
    BY <1>0, <1>7, <2>1, <2>3 DEF GetByte, CountsInOrder
  <2>6. ConsumerIsAt'
    BY <1>0, <1>7, <2>1, <2>2, <2>3 DEF GetByte, ConsumerIsAt, RingType, Pos
  <2> QED
    BY <1>7, <2>4, <2>5, <2>6 DEF GetByte, ProducerIsAt, CellsHoldWritten, Pos
<1>8. CASE Release
  <2>1. /\ cons.idx = Pos(read_idx, T) /\ cons.idx \in Slots
        /\ read_idx' = cons.idx /\ freed' = Len(taken) /\ cons' = Waiting
        /\ UNCHANGED <<write_idx, cells, prod, written, taken, shown>>
    BY <1>0, <1>8 DEF Release, ConsumerIsAt, RingType
  <2>2. \A k \in 0..(Capacity - 1) : T + k < Capacity => Pos(read_idx', k) = Pos(read_idx, T + k)
    BY <1>0, <2>1, PosFacts DEF RingType
  <2>3. RingType'
    BY <1>0, <2>1 DEF RingType, Waiting, Slots
  <2>4. CountsInOrder' /\ ConsumerIsAt'
    BY <1>0, <2>1 DEF CountsInOrder, ConsumerIsAt, Waiting
  <2>5. (write_idx = Pos(read_idx, shown - freed))'
    <3>1. S - T \in 0..(Capacity - 1) /\ T + (S - T) = S /\ shown' - freed' = S - T
      BY <1>0, <2>1
    <3>2. Pos(read_idx', S - T) = write_idx
      BY <1>0, <2>2, <3>1
    <3> QED
      BY <2>1, <3>1, <3>2
  <2>6. ProducerIsAt(P)'
    <3>1. W - T \in 0..(Capacity - 1) /\ T + (W - T) = W /\ Len(written)' - freed' = W - T
      BY <1>0, <2>1
    <3>2. Pos(read_idx', Len(written)' - freed') = Pos(read_idx, W)
      BY <1>0, <2>2, <3>1
    <3>3. Len(prod[P].todo) \in Nat
      BY <1>0 DEF RingType
    <3> QED
      <4>1. ASSUME prod[P].pc = "write"
            PROVE  /\ prod[P].idx = Pos(read_idx', Len(written)' - freed')
                   /\ Len(written)' - freed' + Len(prod[P].todo) < Capacity
        <5>1. prod[P].idx = Pos(read_idx, W) /\ W + Len(prod[P].todo) < Capacity
          BY <4>1 DEF ProducerIsAt
        <5>2. W - T + Len(prod[P].todo) < Capacity
          BY <1>0, <3>3, <5>1
        <5>3. Len(written)' - freed' + Len(prod[P].todo) < Capacity
          BY <3>1, <5>2
        <5> QED
          BY <3>2, <5>1, <5>3
      <4> QED
        BY <2>1, <4>1 DEF ProducerIsAt
  <2>7. CellsHoldWritten'
    <3> SUFFICES ASSUME NEW k \in 0..(W - T - 1)
                 PROVE  cells[Pos(read_idx', k)] = written[Len(taken) + 1 + k]
      <4>1. Len(written') - freed' - 1 = W - T - 1
        BY <1>0, <2>1
      <4> QED
        BY <2>1, <4>1 DEF CellsHoldWritten
    <3>1. k \in 0..(Capacity - 1) /\ T + k < Capacity /\ T + k \in 0..(W - 1)
      BY <1>0
    <3>2. cells[Pos(read_idx, T + k)] = written[freed + 1 + (T + k)]
      BY <1>0, <3>1 DEF CellsHoldWritten
    <3>3. Pos(read_idx', k) = Pos(read_idx, T + k) /\ freed + 1 + (T + k) = Len(taken) + 1 + k
      BY <1>0, <2>2, <3>1
    <3> QED
      BY <3>2, <3>3
  <2> QED
    BY <2>3, <2>4, <2>5, <2>6, <2>7
<1>9. CASE UNCHANGED ringVars
  BY <1>9 DEF ringVars, RingType, CountsInOrder, ProducerIsAt, ConsumerIsAt, CellsHoldWritten, Pos
<1> QED
  BY <1>1, <1>2, <1>3, <1>4, <1>5, <1>6, <1>7, <1>8, <1>9 DEF RingNext

-----------------------------------------------------------------------------
\* Each step of the ring is a step of the queue or leaves it alone.
LEMMA RingStepIsQueueStep ==
  ASSUME NEW P, Producers = {P}, RingInv(P), [RingNext]_ringVars
  PROVE  [Queue!FifoNext]_(Queue!fifoVars)
<1>1. CASE PutByte(P)
  <2>1. Len(written) - Len(taken) < Capacity - 1 /\ Head(prod[P].todo) \in Bytes
    <3>1. /\ prod[P].todo \in Seq(Bytes) /\ prod[P].todo # <<>>
          /\ Len(written) - freed + Len(prod[P].todo) < Capacity
      BY <1>1 DEF PutByte, RingInv, ProducerIsAt, RingType
    <3>2. Len(prod[P].todo) >= 1 /\ Head(prod[P].todo) \in Bytes
      BY <3>1
    <3> QED
      BY <3>1, <3>2, RingAssumption DEF RingInv, CountsInOrder, RingType
  <2> QED
    BY <1>1, <2>1 DEF PutByte, Queue!FifoNext, Queue!Put
<1>2. CASE GetByte
  <2>1. /\ cons.left \in Nat /\ cons.left > 0 /\ cons.idx = Pos(read_idx, Len(taken) - freed)
        /\ Len(taken) + cons.left <= shown
    BY <1>2 DEF GetByte, RingInv, ConsumerIsAt, RingType
  <2>2. /\ Len(taken) - freed \in 0..(Len(written) - freed - 1)
        /\ freed + 1 + (Len(taken) - freed) = Len(taken) + 1
        /\ Len(taken) < Len(written)
    BY <2>1 DEF RingInv, CountsInOrder, RingType
  <2>3. cells[cons.idx] = written[Len(taken) + 1]
    BY <2>1, <2>2, Zenon DEF RingInv, CellsHoldWritten
  <2> QED
    BY <1>2, <2>2, <2>3 DEF GetByte, Queue!FifoNext, Queue!Get
<1>3. CASE \/ BeginWrite(P) \/ LoadRead(P) \/ Publish(P) \/ BeginRead \/ LoadOwn \/ Release
           \/ UNCHANGED ringVars
  BY <1>3, Zenon DEF BeginWrite, LoadRead, Publish, BeginRead, LoadOwn, Release, ringVars, Queue!fifoVars
<1> QED
  BY <1>1, <1>2, <1>3 DEF RingNext

\* A ring with a single producer is a queue of Capacity - 1 bytes, whatever
\* the capacity: nothing is lost once stored, overwritten or read twice
\* (write_bytes and read_bytes of SharedUartOutput and SharedUartInput).
THEOREM RingImplementsQueue ==
  ASSUME NEW P, Producers = {P}
  PROVE  RingSpec => RingIsQueue
<1>1. RingInit => RingInv(P)
  BY RingInvInit
<1>2. RingInv(P) /\ [RingNext]_ringVars => RingInv(P)'
  BY RingInvStep
<1>3. RingInit => Queue!FifoInit
  BY DEF RingInit, Queue!FifoInit
<1>4. RingInv(P) /\ [RingNext]_ringVars => [Queue!FifoNext]_(Queue!fifoVars)
  BY RingStepIsQueueStep
<1> QED
  BY <1>1, <1>2, <1>3, <1>4, PTL DEF RingSpec, RingIsQueue, Queue!FifoSpec


-----------------------------------------------------------------------------
(* The browser's connection. *)

(* Where a task can wait. *)
Awaits == {"spawned", "ready", "register", "read"}

(* The counts of OneConnection are not inductive alone: a task that were   *)
(* superseded would end without a timeout.  There is none: the only task   *)
(* is of the latest generation, and what it stores belongs to it.          *)
WebInv ==
  /\ generation \in 0 .. MaxGen
  /\ beats \subseteq {generation}
  /\ \/ /\ tasks = {} /\ timeouts = 1
        /\ writer = NoGen /\ intervals = {}
     \/ /\ \E at \in Awaits \ {"read"} : tasks = {[gen |-> generation, at |-> at]}
        /\ timeouts = 0 /\ generation \in Gens
        /\ writer = NoGen /\ intervals = {}
     \/ /\ tasks = {[gen |-> generation, at |-> "read"]}
        /\ timeouts = 0 /\ generation \in Gens
        /\ writer = generation /\ hbInterval = generation /\ intervals = {generation}

(* Every step of a task, given that it is the only one. *)
LEMMA WebStep ==
  ASSUME WebInv, NEW t \in tasks,
         Spawned(t) \/ Ready(t) \/ Registered(t) \/ ReadMessage(t) \/ ReadEnds(t)
  PROVE  WebInv'
<1>1. /\ generation \in Gens /\ timeouts = 0 /\ tasks = {t} /\ t.gen = generation
      /\ t = [gen |-> generation, at |-> t.at] /\ t.at \in Awaits
  BY DEF WebInv, Awaits
<1>2. ~Superseded(t)
  BY <1>1 DEF Superseded
<1>3. generation' = generation
  BY DEF Spawned, Ready, Registered, ReadMessage, ReadEnds
<1>b. beats' = {}
  BY DEF Spawned, Ready, Registered, ReadMessage, ReadEnds
<1>g. generation \in 0 .. MaxGen
  BY DEF WebInv
<1>4. ASSUME t.at # "read" PROVE writer = NoGen /\ intervals = {}
  BY <1>4, <1>1 DEF WebInv
<1>5. ASSUME NEW at, Moves(t, at) PROVE tasks' = {[gen |-> generation, at |-> at]}
  <2>1. [t EXCEPT !.at = at] = [gen |-> generation, at |-> at]
    BY <1>1
  <2> QED BY <2>1, <1>5, <1>1 DEF Moves
<1>6. ASSUME Reconnects(t) PROVE tasks' = {} /\ timeouts' = 1
  BY <1>6, <1>1 DEF Reconnects
<1>7. CASE Spawned(t)
  <2>1. writer' = NoGen /\ intervals' = {}
    BY <1>7, <1>4 DEF Spawned
  <2>2. CASE Reconnects(t)
    BY <2>1, <2>2, <1>3, <1>b, <1>g, <1>6 DEF WebInv
  <2>3. CASE Moves(t, "ready") /\ timeouts' = timeouts
    BY <2>1, <2>3, <1>1, <1>3, <1>b, <1>g, <1>5 DEF WebInv, Awaits
  <2> QED BY <2>2, <2>3, <1>7, <1>2 DEF Spawned
<1>8. CASE Ready(t)
  <2>1. writer' = NoGen /\ intervals' = {}
    BY <1>8, <1>4 DEF Ready
  <2>2. CASE Reconnects(t)
    BY <2>1, <2>2, <1>3, <1>b, <1>g, <1>6 DEF WebInv
  <2>3. CASE Moves(t, "register") /\ timeouts' = timeouts
    BY <2>1, <2>3, <1>1, <1>3, <1>b, <1>g, <1>5 DEF WebInv, Awaits
  <2> QED BY <2>2, <2>3, <1>8, <1>2 DEF Ready
<1>9. CASE Registered(t)
  <2>0. writer = NoGen /\ intervals = {}
    BY <1>9, <1>4 DEF Registered
  <2>2. CASE Reconnects(t) /\ UNCHANGED <<hbInterval, intervals, handlers, writer>>
    BY <2>0, <2>2, <1>3, <1>b, <1>g, <1>6 DEF WebInv
  <2>3. CASE /\ Moves(t, "read") /\ timeouts' = timeouts /\ writer' = t.gen
             /\ hbInterval' = t.gen /\ intervals' = intervals \cup {t.gen}
    BY <2>0, <2>3, <1>1, <1>3, <1>b, <1>g, <1>5 DEF WebInv
  <2> QED BY <2>2, <2>3, <1>9 DEF Registered
<1>10. CASE ReadMessage(t)
  <2>1. /\ tasks' = tasks /\ timeouts' = timeouts /\ writer' = writer
        /\ intervals' = intervals /\ hbInterval' = hbInterval
    BY <1>10 DEF ReadMessage
  <2> QED BY <2>1, <1>3, <1>b, <1>g DEF WebInv
<1>11. CASE ReadEnds(t)
  <2>1. /\ t.at = "read" /\ writer' = NoGen /\ Reconnects(t)
        /\ intervals' = intervals \ {hbInterval}
    BY <1>11, <1>2 DEF ReadEnds, AfterReading, ClearInterval
  <2>2. intervals' = {}
    BY <2>1, <1>1 DEF WebInv, Awaits
  <2> QED BY <2>1, <2>2, <1>3, <1>b, <1>g, <1>6 DEF WebInv
<1> QED BY <1>7, <1>8, <1>9, <1>10, <1>11

(* For any number of reconnections: one task or one timeout, never two or  *)
(* none, and the writer and the heartbeat belong to the connection that is *)
(* being read (start_connection, schedule_reconnect).                      *)
THEOREM WebOneConnection == WebSpec => []OneConnection
<1>1. WebInit => WebInv
  BY NoGenAssumption DEF WebInit, WebInv
<1>2. WebInv /\ [WebNext]_webVars => WebInv'
  <2> SUFFICES ASSUME WebInv, [WebNext]_webVars PROVE WebInv'
    OBVIOUS
  <2>1. CASE StartConnection
    <3>1. /\ generation \in 0 .. MaxGen /\ tasks = {} /\ timeouts = 1
          /\ writer = NoGen /\ intervals = {} /\ generation + 1 \in Gens
          /\ generation + 1 \in 0 .. MaxGen
      BY <2>1, NoGenAssumption DEF StartConnection, WebInv, Gens
    <3>2. /\ generation' = generation + 1 /\ timeouts' = 0 /\ writer' = NoGen /\ beats' = {}
          /\ intervals' = {} /\ tasks' = {[gen |-> generation + 1, at |-> "spawned"]}
      BY <2>1, <3>1 DEF StartConnection, ClearInterval
    <3> QED BY <3>1, <3>2 DEF WebInv, Awaits
  <2>2. ASSUME NEW t \in tasks,
               Spawned(t) \/ Ready(t) \/ Registered(t) \/ ReadMessage(t) \/ ReadEnds(t)
        PROVE  WebInv'
    BY <2>2, WebStep
  <2>3. ASSUME NEW g \in Gens, Beat(g) PROVE WebInv'
    BY <2>3 DEF Beat, WebInv
  <2>4. CASE UNCHANGED webVars
    <3>1. /\ generation' = generation /\ beats' = beats /\ tasks' = tasks /\ writer' = writer
          /\ timeouts' = timeouts /\ intervals' = intervals /\ hbInterval' = hbInterval
      BY <2>4 DEF webVars
    <3> QED BY <3>1 DEF WebInv
  <2> QED BY <2>1, <2>2, <2>3, <2>4 DEF WebNext
<1>3. WebInv => OneConnection
  <2> SUFFICES ASSUME WebInv PROVE OneConnection
    OBVIOUS
  <2>1. Cardinality({}) = 0 /\ \A x : Cardinality({x}) = 1
    BY FS_EmptySet, FS_Singleton, Zenon
  <2>2. Cardinality(tasks) + timeouts = 1
    <3>1. CASE tasks = {} /\ timeouts = 1
      BY <2>1, <3>1
    <3>2. CASE timeouts = 0 /\ \E x : tasks = {x}
      <4>1. PICK x : tasks = {x}
        BY <3>2
      <4>2. Cardinality({x}) = 1
        BY <2>1
      <4> QED BY <3>2, <4>1, <4>2
    <3> QED BY <3>1, <3>2, Zenon DEF WebInv
  <2>3. writer # NoGen => [gen |-> writer, at |-> "read"] \in tasks
    BY DEF WebInv
  <2>4. intervals \subseteq {writer} /\ beats \subseteq {generation}
    BY DEF WebInv
  <2> QED BY <2>2, <2>3, <2>4 DEF OneConnection
<1> QED BY <1>1, <1>2, <1>3, PTL DEF WebSpec
=============================================================================
