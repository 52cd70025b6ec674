---------------------------- MODULE KernelProofs ----------------------------
(***************************************************************************)
(* Proofs about the kernel's lock, for any set of harts and both builds,   *)
(* and about its pipes and channels, for any tasks, sizes and bounds.      *)
(***************************************************************************)
EXTENDS Spinlock, Ipc, FiniteSetTheorems, TLAPS

(* MutualExclusion is not inductive alone: CheckDeadlock could make an     *)
(* owner of a hart that only spins, were the holder field ever stale.      *)
IInv == TypeOK /\ MutualExclusion /\ HolderTellsOwner

(* It holds before any hart called lock(). *)
LEMMA InitIInv == Init => IInv
BY NoHartAssumption
   DEF Init, IInv, TypeOK, MutualExclusion, HolderTellsOwner, Owners, Owning,
       PC, LOCKED, UNLOCKED

(* Every step of every hart keeps the invariant. *)
LEMMA NextIInv == IInv /\ [Next]_vars => IInv'
<1> SUFFICES ASSUME IInv, [Next]_vars PROVE IInv'
  OBVIOUS
<1> USE NoHartAssumption, DebugAssumption
    DEF IInv, TypeOK, MutualExclusion, HolderTellsOwner, Owners, Owning, PC,
        LOCKED, UNLOCKED, Goto
<1>1. ASSUME NEW h \in Harts, CallLock(h) PROVE IInv'
  BY <1>1 DEF CallLock
<1>2. ASSUME NEW h \in Harts, Swap(h) PROVE IInv'
  <2>1. CASE locked = UNLOCKED BY <1>2, <2>1 DEF Swap
  <2>2. CASE locked = LOCKED BY <1>2, <2>2 DEF Swap
  <2> QED BY <2>1, <2>2
<1>3. ASSUME NEW h \in Harts, TryLock(h) PROVE IInv'
  <2>1. CASE locked = UNLOCKED BY <1>3, <2>1 DEF TryLock
  <2>2. CASE locked = LOCKED BY <1>3, <2>2 DEF TryLock
  <2> QED BY <2>1, <2>2
<1>4. ASSUME NEW h \in Harts, StoreHolder(h) PROVE IInv'
  BY <1>4 DEF StoreHolder
<1>5. ASSUME NEW h \in Harts, CheckDeadlock(h) PROVE IInv'
  BY <1>5 DEF CheckDeadlock
<1>6. ASSUME NEW h \in Harts, ClearHolder(h) PROVE IInv'
  BY <1>6 DEF ClearHolder
<1>7. ASSUME NEW h \in Harts, Unlock(h) PROVE IInv'
  BY <1>7 DEF Unlock
<1>8. CASE UNCHANGED vars
  BY <1>8 DEF vars
<1> QED
  BY <1>1, <1>2, <1>3, <1>4, <1>5, <1>6, <1>7, <1>8 DEF Next, HartStep

(* Two harts never have a guard of the same lock at once, and the lock     *)
(* word is LOCKED exactly while one has: lock(), try_lock() and drop().    *)
THEOREM SpinlockMutualExclusion == Spec => []MutualExclusion
<1>1. IInv => MutualExclusion BY DEF IInv
<1> QED BY InitIInv, NextIInv, <1>1, PTL DEF Spec

(* The debug build's deadlock panic is never a false alarm. *)
THEOREM SpinlockHolderTellsOwner == Spec => []HolderTellsOwner
<1>1. IInv => HolderTellsOwner BY DEF IInv
<1> QED BY InitIInv, NextIInv, <1>1, PTL DEF Spec

(* What owner is, from the invariant: the one hart in Owners. *)
LEMMA OwnerOf ==
  ASSUME MutualExclusion
  PROVE  /\ \A h \in Harts : pc[h] \in Owning => owner = h
         /\ (\A h \in Harts : pc[h] \notin Owning) => owner = NoHart
BY DEF MutualExclusion, Owners, owner

(* And what it is after a step. *)
LEMMA OwnerOfNext ==
  ASSUME MutualExclusion'
  PROVE  /\ \A h \in Harts : pc'[h] \in Owning => owner' = h
         /\ (\A h \in Harts : pc'[h] \notin Owning) => owner' = NoHart
BY DEF MutualExclusion, Owners, owner

(* The spinlock implements Mutex: the successful swap is Acquire, the      *)
(* releasing swap is Release, every other step leaves the owner alone.     *)
THEOREM SpinlockImplementsMutex == Spec => ImplementsMutex
<1>1. Init => M!Init
  BY DEF Init, M!Init, owner, Owners, Owning
<1>2. ASSUME IInv, IInv', [Next]_vars PROVE [M!Next]_owner
  <2> USE OwnerOf, OwnerOfNext, <1>2, NoHartAssumption
      DEF IInv, Owning, Goto
  <2>0. /\ MutualExclusion /\ MutualExclusion' /\ TypeOK /\ TypeOK'
    BY <1>2
  <2> SUFFICES ASSUME Next PROVE M!Next \/ owner' = owner
    BY <1>2, Zenon DEF vars, owner, Owners
  <2>1. PICK h \in Harts : HartStep(h) BY DEF Next
  <2> DEFINE Others == \A g \in Harts \ {h} : pc'[g] = pc[g]
  <2>2. Others
    BY <2>0, <2>1 DEF HartStep, CallLock, Swap, TryLock, StoreHolder,
       CheckDeadlock, ClearHolder, Unlock, TypeOK
  <2>3. CASE pc[h] \in Owning /\ pc'[h] \in Owning
    BY <2>0, <2>3
  <2>4. CASE pc[h] \notin Owning /\ pc'[h] \notin Owning
    <3>1. CASE \E g \in Harts : pc[g] \in Owning
      BY <2>0, <2>2, <2>4, <3>1
    <3>2. CASE \A g \in Harts : pc[g] \notin Owning
      BY <2>0, <2>2, <2>4, <3>2
    <3> QED BY <3>1, <3>2
  <2>5. CASE pc[h] \notin Owning /\ pc'[h] \in Owning
    <3>1. locked = UNLOCKED
      BY <2>0, <2>1, <2>5 DEF HartStep, CallLock, Swap, TryLock, StoreHolder,
         CheckDeadlock, ClearHolder, Unlock, TypeOK, HolderTellsOwner,
         UNLOCKED, LOCKED
    <3>2. owner = NoHart
      BY <2>0, <3>1 DEF MutualExclusion, Owners, UNLOCKED, LOCKED
    <3>3. owner' = h BY <2>0, <2>5
    <3> QED BY <3>2, <3>3 DEF M!Next, M!Acquire
  <2>6. CASE pc[h] \in Owning /\ pc'[h] \notin Owning
    <3>1. owner = h BY <2>0, <2>6
    <3>2. \A g \in Harts : pc'[g] \notin Owning
      BY <2>0, <2>2, <2>6 DEF MutualExclusion, Owners
    <3>3. owner' = NoHart BY <2>0, <3>2
    <3> QED BY <3>1, <3>3 DEF M!Next, M!Release
  <2> QED BY <2>3, <2>4, <2>5, <2>6
<1> QED
  BY InitIInv, NextIInv, <1>1, <1>2, PTL DEF Spec, M!Spec, ImplementsMutex

-----------------------------------------------------------------------------
(* Pipes *)

Positions == 0 .. PipeSize - 1

(* Where a task can be in a call. *)
Points == {"none", "write", "wake_reader", "wake_writer", "eof", "wake_ends", "has_receiver",
           "push", "pop", "close", "close_wakes"}

CallType ==
  call \in [Users -> [at : Points, n : Nat, closed : BOOLEAN, sender : BOOLEAN]]

PipeType ==
  /\ pipe \in [data : [Positions -> Nat], read_pos : Positions, write_pos : Positions,
               count : 0 .. PipeSize, reader_active : BOOLEAN, writer_active : BOOLEAN]
  /\ written \in Nat /\ read \in Nat

(* A position that has moved by at most PipeSize. *)
Wrap(x) == IF x < 0 THEN x + PipeSize ELSE IF x < PipeSize THEN x ELSE x - PipeSize

(* From position p on, d holds the c bytes after byte r. *)
HoldsBytes(d, p, c, r) == \A k \in 0 .. c - 1 : d[Wrap(p + k)] = r + k + 1

(* What the positions and the counters of the buffer have to do with it. *)
PipeHolds ==
  /\ pipe.count = written - read
  /\ pipe.write_pos = Wrap(pipe.read_pos + pipe.count)
  /\ HoldsBytes(pipe.data, pipe.read_pos, pipe.count, read)

(* Only the one writer writes, and not after it closed its end. *)
PipeEnds ==
  /\ \A u \in Users : At(u, "write") => u = Writer /\ pipe.writer_active
  /\ \A u \in Users : At(u, "eof") /\ call[u].closed => pipe.count = 0 /\ ~pipe.writer_active

PipeInv == CallType /\ PipeType /\ PipeHolds /\ PipeEnds

(* The remainder of a position that moved forward, and of a difference. *)
LEMMA ModIsWrap ==
  ASSUME NEW x \in Int, -PipeSize <= x, x < 2 * PipeSize
  PROVE  x % PipeSize = Wrap(x)
BY SizesAssumption DEF Wrap

(* Where PipeBuffer's positions get to, in one move or in two. *)
LEMMA AfterIsWrap ==
  ASSUME NEW p \in Positions, NEW c \in Nat, NEW n \in Nat, c + n <= PipeSize
  PROVE  /\ After(Wrap(p + c), n) = Wrap(p + (c + n))
         /\ Wrap(p + c) \in Positions /\ Wrap(p + (c + n)) \in Positions
         /\ Wrap(Wrap(p + c) + n) = Wrap(p + (c + n))
         /\ After(p, c) = Wrap(p + c)
<1>1. Wrap(p + c) \in Positions /\ Wrap(p + (c + n)) \in Positions
      /\ Wrap(Wrap(p + c) + n) = Wrap(p + (c + n))
  BY SizesAssumption DEF Wrap, Positions
<1>2. ASSUME NEW q \in Positions, NEW m \in Nat, m <= PipeSize PROVE After(q, m) = Wrap(q + m)
  <2>1. q + m \in Int /\ -PipeSize <= q + m /\ q + m < 2 * PipeSize
    BY <1>2, SizesAssumption DEF Positions
  <2> QED BY <2>1, ModIsWrap DEF After
<1>3. n <= PipeSize /\ c <= PipeSize
  BY SizesAssumption
<1> QED BY <1>1, <1>2, <1>3

(* How far a position that holds a byte is from the write position. *)
LEMMA WrapDifference ==
  ASSUME NEW p \in Positions, NEW c \in 0 .. PipeSize
  PROVE  /\ \A i \in Positions : (i - Wrap(p + c)) % PipeSize \in Positions
         /\ \A k \in 0 .. PipeSize - 1 :
               (Wrap(p + k) - Wrap(p + c)) % PipeSize
                 = IF k < c THEN k + PipeSize - c ELSE k - c
<1>1. ASSUME NEW i \in Positions, NEW j \in Positions PROVE (i - j) % PipeSize = Wrap(i - j)
                                                            /\ Wrap(i - j) \in Positions
  <2>1. i - j \in Int /\ -PipeSize <= i - j /\ i - j < 2 * PipeSize
    BY SizesAssumption DEF Positions
  <2>2. Wrap(i - j) \in Positions
    BY SizesAssumption DEF Positions, Wrap
  <2> QED BY <2>1, <2>2, ModIsWrap
<1>2. \A k \in 0 .. PipeSize : Wrap(p + k) \in Positions
  BY SizesAssumption DEF Wrap, Positions
<1>3. ASSUME NEW k \in 0 .. PipeSize - 1
      PROVE  (Wrap(p + k) - Wrap(p + c)) % PipeSize
                 = IF k < c THEN k + PipeSize - c ELSE k - c
  <2>1. Wrap(Wrap(p + k) - Wrap(p + c)) = IF k < c THEN k + PipeSize - c ELSE k - c
    BY SizesAssumption DEF Wrap, Positions
  <2>2. k \in 0 .. PipeSize
    BY SizesAssumption
  <2> QED BY <2>1, <2>2, <1>1, <1>2
<1> QED BY <1>1, <1>2, <1>3

(* PipeBuffer::write puts n bytes after the c that are there ... *)
Filled(d, p, c, n, w) ==
  [i \in Positions |-> IF (i - Wrap(p + c)) % PipeSize < n
                         THEN w + ((i - Wrap(p + c)) % PipeSize) + 1 ELSE d[i]]

(* ... and then the buffer holds c + n bytes in order. *)
LEMMA FilledData ==
  ASSUME NEW d \in [Positions -> Nat], NEW p \in Positions, NEW c \in Nat, NEW n \in Nat,
         c + n <= PipeSize, NEW w \in Nat, NEW r \in Nat, c = w - r,
         HoldsBytes(d, p, c, r)
  PROVE  /\ Filled(d, p, c, n, w) \in [Positions -> Nat]
         /\ HoldsBytes(Filled(d, p, c, n, w), p, c + n, r)
<1> PICK e : e = Filled(d, p, c, n, w)
  OBVIOUS
<1>0. c \in 0 .. PipeSize
  BY SizesAssumption
<1>1. \A i \in Positions : (i - Wrap(p + c)) % PipeSize \in Nat
  BY <1>0, WrapDifference DEF Positions
<1>2. e \in [Positions -> Nat]
  <2>1. ASSUME NEW i \in Positions
        PROVE  (IF (i - Wrap(p + c)) % PipeSize < n
                  THEN w + ((i - Wrap(p + c)) % PipeSize) + 1 ELSE d[i]) \in Nat
    <3>1. PICK m \in Nat : m = (i - Wrap(p + c)) % PipeSize
      BY <1>1
    <3> QED BY <3>1
  <2> QED BY <2>1 DEF Filled
<1>3. ASSUME NEW k \in 0 .. (c + n) - 1 PROVE e[Wrap(p + k)] = r + k + 1
  <2>1. k \in 0 .. PipeSize - 1 /\ k \in Nat /\ k + 0 <= PipeSize
    BY SizesAssumption
  <2>2. Wrap(p + k) \in Positions
    BY <2>1, AfterIsWrap, 0 \in Nat
  <2>3. PICK m : m = (Wrap(p + k) - Wrap(p + c)) % PipeSize
    OBVIOUS
  <2>4. m = IF k < c THEN k + PipeSize - c ELSE k - c
    BY <2>1, <2>3, <1>0, WrapDifference
  <2>5. e[Wrap(p + k)] = IF m < n THEN w + m + 1 ELSE d[Wrap(p + k)]
    BY <2>2, <2>3 DEF Filled
  <2>6. k < c => d[Wrap(p + k)] = r + k + 1
    BY <2>1 DEF HoldsBytes
  <2> QED BY <2>4, <2>5, <2>6, <2>1, SizesAssumption
<1> QED BY <1>2, <1>3 DEF HoldsBytes

(* Pipe::new *)
LEMMA InitPipe == IpcInit => PipeInv
<1> SUFFICES ASSUME IpcInit PROVE PipeInv
  OBVIOUS
<1> USE SizesAssumption DEF IpcInit
<1>1. CallType
  BY DEF CallType, Points
<1>2. PipeType
  BY DEF PipeType, Positions
<1>3. PipeHolds
  BY DEF PipeHolds, HoldsBytes, Wrap
<1>4. PipeEnds
  BY DEF PipeEnds, At
<1> QED BY <1>1, <1>2, <1>3, <1>4 DEF PipeInv

(* PipeBuffer::write, and the type and the contents of the pipe. *)
LEMMA CopiesInKeeps ==
  ASSUME PipeInv, NEW u \in Users, PipeCopiesIn(u)
  PROVE  PipeType' /\ PipeHolds' /\ pipe'.writer_active = pipe.writer_active
<1>t. /\ pipe.data \in [Positions -> Nat] /\ pipe.read_pos \in Positions
      /\ pipe.write_pos \in Positions /\ pipe.count \in 0 .. PipeSize
      /\ written \in Nat /\ read \in Nat /\ pipe.count = written - read
      /\ pipe.write_pos = Wrap(pipe.read_pos + pipe.count)
      /\ HoldsBytes(pipe.data, pipe.read_pos, pipe.count, read)
  BY DEF PipeInv, PipeType, PipeHolds
<1>1. PICK n : n = Lesser(call[u].n, PipeSize - pipe.count)
  OBVIOUS
<1>2. n \in Nat /\ pipe.count \in Nat /\ pipe.count + n <= PipeSize
  BY <1>1, SizesAssumption DEF PipeInv, CallType, PipeType, Lesser
<1>3. PICK new : new = [i \in Positions |->
                     IF (i - pipe.write_pos) % PipeSize < n
                       THEN written + ((i - pipe.write_pos) % PipeSize) + 1
                       ELSE pipe.data[i]]
  BY Zenon
<1>4. pipe' = [pipe EXCEPT !.data = new, !.write_pos = After(@, n), !.count = @ + n]
      /\ written' = written + n /\ read' = read
  <2>1. DOMAIN pipe.data = Positions
    BY <1>t
  <2>2. /\ pipe' = [pipe EXCEPT
              !.data = [i \in DOMAIN pipe.data |->
                          IF (i - pipe.write_pos) % PipeSize < n
                            THEN written + ((i - pipe.write_pos) % PipeSize) + 1
                            ELSE pipe.data[i]],
              !.write_pos = After(@, n), !.count = @ + n]
        /\ written' = written + n /\ read' = read
    BY <1>1, Zenon DEF PipeCopiesIn
  <2> QED BY <2>1, <2>2, <1>3, Zenon
<1>5. /\ new \in [Positions -> Nat]
      /\ HoldsBytes(new, pipe.read_pos, pipe.count + n, read)
  <2>1. PICK p \in Positions : p = pipe.read_pos
    BY <1>t
  <2>2. PICK c \in Nat : c = pipe.count
    BY <1>2
  <2>3. PICK d \in [Positions -> Nat] : d = pipe.data
    BY <1>t
  <2>4. new = Filled(d, p, c, n, written)
    BY <2>1, <2>2, <2>3, <1>3, <1>t, Zenon DEF Filled
  <2>5. /\ c + n <= PipeSize /\ c = written - read
        /\ HoldsBytes(d, p, c, read)
    BY <2>1, <2>2, <2>3, <1>2, <1>t
  <2>6. /\ new \in [Positions -> Nat]
        /\ HoldsBytes(new, p, c + n, read)
    BY <2>4, <2>5, <1>2, <1>t, FilledData
  <2> QED BY <2>1, <2>2, <2>6
<1>6. After(pipe.write_pos, n) = Wrap(pipe.read_pos + (pipe.count + n))
      /\ After(pipe.write_pos, n) \in Positions
  BY <1>t, <1>2, AfterIsWrap
<1>8. /\ pipe'.data = new /\ pipe'.write_pos = After(pipe.write_pos, n)
      /\ pipe'.count = pipe.count + n /\ pipe'.read_pos = pipe.read_pos
      /\ pipe'.writer_active = pipe.writer_active
  BY <1>4 DEF PipeInv, PipeType
<1>9. PipeType'
  <2>1. pipe.count + n \in 0 .. PipeSize /\ written + n \in Nat
    BY <1>2, <1>t, SizesAssumption
  <2>2. pipe' \in [data : [Positions -> Nat], read_pos : Positions, write_pos : Positions,
               count : 0 .. PipeSize, reader_active : BOOLEAN, writer_active : BOOLEAN]
    <3>1. pipe \in [data : [Positions -> Nat], read_pos : Positions, write_pos : Positions,
               count : 0 .. PipeSize, reader_active : BOOLEAN, writer_active : BOOLEAN]
      BY DEF PipeInv, PipeType
    <3> QED BY <3>1, <2>1, <1>4, <1>5, <1>6, Zenon
  <2> QED BY <2>1, <2>2, <1>4, <1>t DEF PipeType
<1>10. PipeHolds'
  BY <1>2, <1>4, <1>5, <1>6, <1>8, <1>t DEF PipeHolds
<1> QED BY <1>8, <1>9, <1>10

(* PipeBuffer::read takes the oldest. *)
LEMMA CopiesOutKeeps ==
  ASSUME PipeInv, NEW u \in Users, NEW n \in 1 .. PipeSize, PipeCopiesOut(u, n)
  PROVE  /\ PipeType' /\ PipeHolds' /\ pipe'.writer_active = pipe.writer_active
         /\ Readable(n) \in 0 .. pipe.count /\ pipe'.count = pipe.count - Readable(n)
         /\ Readable(n) = 0 => pipe.count = 0
<1>t. /\ pipe.data \in [Positions -> Nat] /\ pipe.read_pos \in Positions
      /\ pipe.write_pos \in Positions /\ pipe.count \in 0 .. PipeSize
      /\ written \in Nat /\ read \in Nat /\ pipe.count = written - read
      /\ pipe.write_pos = Wrap(pipe.read_pos + pipe.count)
      /\ HoldsBytes(pipe.data, pipe.read_pos, pipe.count, read)
  BY DEF PipeInv, PipeType, PipeHolds
<1>0. PICK k : k = Readable(n)
  OBVIOUS
<1>1. k \in 0 .. pipe.count /\ (k = 0 => pipe.count = 0)
  BY <1>0, <1>t, SizesAssumption DEF Readable, Lesser
<1>2. /\ pipe' = [pipe EXCEPT !.read_pos = After(@, k), !.count = @ - k]
      /\ read' = read + k /\ written' = written
  BY <1>0 DEF PipeCopiesOut
<1>3. \A j \in 0 .. pipe.count - k :
         /\ After(pipe.read_pos, k) = Wrap(pipe.read_pos + k)
         /\ After(pipe.read_pos, k) \in Positions
         /\ Wrap(Wrap(pipe.read_pos + k) + j) = Wrap(pipe.read_pos + (k + j))
  <2> SUFFICES ASSUME NEW j \in 0 .. pipe.count - k
               PROVE  /\ After(pipe.read_pos, k) = Wrap(pipe.read_pos + k)
                      /\ After(pipe.read_pos, k) \in Positions
                      /\ Wrap(Wrap(pipe.read_pos + k) + j) = Wrap(pipe.read_pos + (k + j))
    OBVIOUS
  <2>1. k \in Nat /\ j \in Nat /\ k + j <= PipeSize
    BY <1>1, <1>t, SizesAssumption
  <2> QED BY <2>1, <1>t, AfterIsWrap
<1>z. 0 \in 0 .. pipe.count - k
  BY <1>1, <1>t
<1>4. /\ pipe'.data = pipe.data /\ pipe'.write_pos = pipe.write_pos
      /\ pipe'.count = pipe.count - k /\ pipe'.read_pos = Wrap(pipe.read_pos + k)
      /\ pipe'.writer_active = pipe.writer_active
  BY <1>2, <1>3, <1>z DEF PipeInv, PipeType
<1>5. PipeType'
  <2>1. pipe.count - k \in 0 .. PipeSize /\ read + k \in Nat
    BY <1>1, <1>t, SizesAssumption
  <2>2. After(pipe.read_pos, k) \in Positions
    BY <1>3, <1>z
  <2> QED BY <2>1, <2>2, <1>2, Zenon DEF PipeInv, PipeType
<1>7. HoldsBytes(pipe.data, Wrap(pipe.read_pos + k), pipe.count - k, read + k)
  <2> SUFFICES ASSUME NEW j \in 0 .. (pipe.count - k) - 1
               PROVE  pipe.data[Wrap(Wrap(pipe.read_pos + k) + j)] = read + k + j + 1
    BY DEF HoldsBytes
  <2>1. k + j \in 0 .. pipe.count - 1 /\ j \in 0 .. pipe.count - k
    BY <1>1, <1>t
  <2>2. pipe.data[Wrap(pipe.read_pos + (k + j))] = read + (k + j) + 1
    BY <2>1, <1>t DEF HoldsBytes
  <2> QED BY <2>1, <2>2, <1>1, <1>3, <1>t
<1>8. pipe.write_pos = Wrap(Wrap(pipe.read_pos + k) + (pipe.count - k))
  <2>1. pipe.count - k \in 0 .. pipe.count - k /\ k + (pipe.count - k) = pipe.count
    BY <1>1, <1>t
  <2> QED BY <2>1, <1>3, <1>t
<1>9. PipeHolds'
  BY <1>1, <1>2, <1>4, <1>7, <1>8, <1>t DEF PipeHolds
<1> QED BY <1>0, <1>1, <1>4, <1>5, <1>9

(* The points of the calls, one by one. *)
LEMMA Labels ==
  /\ "none" \in Points /\ "write" \in Points /\ "wake_reader" \in Points
  /\ "wake_writer" \in Points /\ "eof" \in Points /\ "wake_ends" \in Points
  /\ "has_receiver" \in Points /\ "push" \in Points /\ "pop" \in Points
  /\ "close" \in Points /\ "close_wakes" \in Points
BY DEF Points

(* A step that leaves the pipe alone and takes no task into a write or to  *)
(* the end of a read.                                                      *)
LeavesPipe ==
  /\ pipe' = pipe /\ written' = written /\ read' = read
  /\ CallType'
  /\ \A v \in Users : /\ At(v, "write")' => At(v, "write")
                      /\ At(v, "eof")' => At(v, "eof") /\ call'[v].closed = call[v].closed

(* ... keeps the invariant of the pipe. *)
LEMMA LeavesPipeKeeps == ASSUME PipeInv, LeavesPipe PROVE PipeInv'
<1>1. PipeType'
  BY DEF PipeInv, PipeType, LeavesPipe
<1>2. PipeHolds'
  BY DEF PipeInv, PipeHolds, LeavesPipe
<1>3. PipeEnds'
  BY DEF PipeInv, PipeEnds, LeavesPipe, At
<1> QED BY <1>1, <1>2, <1>3 DEF PipeInv, LeavesPipe

(* So is a step that only moves one task on, or ends or gives a handle. *)
LEMMA GoToLeaves ==
  ASSUME CallType, UNCHANGED pipeVars, NEW u \in Users, NEW l \in Points,
         l # "write", l # "eof", GoTo(u, l)
  PROVE  LeavesPipe
<1>1. CallType'
  BY DEF CallType, GoTo
<1>2. \A v \in Users : v # u => call'[v] = call[v]
  BY DEF CallType, GoTo
<1>3. call'[u].at = l
  BY DEF CallType, GoTo
<1> QED BY <1>1, <1>2, <1>3 DEF LeavesPipe, At, pipeVars

(* Every step of a pipe's user keeps PipeInv. *)
LEMMA PipeStepKeeps ==
  ASSUME PipeInv, NEW u \in Users, PipeNext(u)
  PROVE  PipeInv'
<1>t. CallType
  BY DEF PipeInv
<1>1. ASSUME NEW n \in 1 .. PipeSize, PipeWrite(u, n) PROVE PipeInv'
  <2>1. /\ call' = [call EXCEPT ![u].at = "write", ![u].n = n]
        /\ pipe' = pipe /\ written' = written /\ read' = read
        /\ u = Writer /\ pipe.writer_active
    BY <1>1 DEF PipeWrite, pipeVars
  <2>2. CallType'
    <3>1. n \in Nat
      BY SizesAssumption
    <3> QED BY <3>1, <2>1, <1>t, Labels, ZenonT(40) DEF CallType
  <2>3. \A v \in Users : v # u => call'[v] = call[v]
    BY <2>1, <1>t DEF CallType
  <2>4. call'[u].at = "write"
    BY <2>1, <1>t DEF CallType
  <2>5. PipeEnds'
    BY <2>1, <2>3, <2>4, Zenon DEF PipeInv, PipeEnds, At
  <2>6. PipeType' /\ PipeHolds'
    BY <2>1 DEF PipeInv, PipeType, PipeHolds
  <2> QED BY <2>2, <2>5, <2>6 DEF PipeInv
<1>2. ASSUME NEW n \in 1 .. PipeSize, PipeCopiesOut(u, n) PROVE PipeInv'
  <2>1. /\ PipeType' /\ PipeHolds' /\ pipe'.writer_active = pipe.writer_active
        /\ Readable(n) \in 0 .. pipe.count /\ pipe'.count = pipe.count - Readable(n)
        /\ Readable(n) = 0 => pipe.count = 0
    BY <1>2, CopiesOutKeeps
  <2>2. PICK k : k = Readable(n)
    OBVIOUS
  <2>3. /\ call' = [call EXCEPT ![u].at = IF k > 0 THEN "wake_writer" ELSE "eof",
                                ![u].closed = ~pipe.writer_active]
    BY <1>2, <2>2 DEF PipeCopiesOut
  <2>4. pipe.count \in 0 .. PipeSize /\ pipe.writer_active \in BOOLEAN
    BY DEF PipeInv, PipeType
  <2>5. CallType'
    <3>1. (IF k > 0 THEN "wake_writer" ELSE "eof") \in Points /\ (~pipe.writer_active) \in BOOLEAN
      BY Labels
    <3>2. PICK l \in Points : l = IF k > 0 THEN "wake_writer" ELSE "eof"
      BY <3>1
    <3>3. PICK b \in BOOLEAN : b = ~pipe.writer_active
      BY <3>1, Zenon
    <3>4. call' = [call EXCEPT ![u].at = l, ![u].closed = b]
      BY <2>3, <3>2, <3>3, Zenon
    <3> QED BY <3>4, <1>t, Zenon DEF CallType
  <2>6. \A v \in Users : v # u => call'[v] = call[v]
    BY <2>3, <1>t DEF CallType
  <2>7. call'[u].at = (IF k > 0 THEN "wake_writer" ELSE "eof") /\ call'[u].closed = ~pipe.writer_active
    BY <2>3, <1>t DEF CallType
  <2>8. ~(k > 0) => k = 0
    BY <2>1, <2>2, <2>4
  <2>9. pipe.count = 0 => pipe'.count = 0
    BY <2>1, <2>4
  <2>10. PipeEnds'
    <3>1. ASSUME NEW v \in Users, At(v, "write")' PROVE v = Writer /\ pipe'.writer_active
      <4>1. v # u
        BY <3>1, <2>7 DEF At
      <4> QED BY <4>1, <3>1, <2>1, <2>6 DEF PipeInv, PipeEnds, At
    <3>2. ASSUME NEW v \in Users, At(v, "eof")', call'[v].closed
          PROVE  pipe'.count = 0 /\ ~pipe'.writer_active
      <4>1. CASE v = u
        <5>1. ~pipe.writer_active /\ ~(k > 0)
          BY <4>1, <3>2, <2>7, Zenon DEF At
        <5>2. pipe.count = 0
          BY <5>1, <2>8, <2>1, <2>2
        <5> QED BY <5>1, <5>2, <2>1, <2>9
      <4>2. CASE v # u
        <5>1. pipe.count = 0 /\ ~pipe.writer_active
          BY <4>2, <3>2, <2>6 DEF PipeInv, PipeEnds, At
        <5> QED BY <5>1, <2>1, <2>9
      <4> QED BY <4>1, <4>2
    <3> QED BY <3>1, <3>2 DEF PipeEnds
  <2> QED BY <2>1, <2>5, <2>10 DEF PipeInv
<1>3. CASE PipeCopiesIn(u)
  <2>1. PipeType' /\ PipeHolds' /\ pipe'.writer_active = pipe.writer_active
    BY <1>3, CopiesInKeeps
  <2>0. PICK n : n = Lesser(call[u].n, PipeSize - pipe.count)
    OBVIOUS
  <2>a. PICK l : l = IF n > 0 THEN "wake_reader" ELSE "none"
    OBVIOUS
  <2>2. l \in Points /\ l \in {"wake_reader", "none"} /\ GoTo(u, l)
    <3>1. GoTo(u, l)
      BY <1>3, <2>0, <2>a DEF PipeCopiesIn
    <3> QED BY <3>1, <2>a, Labels
  <2>3. CallType'
    BY <2>2, <1>t DEF CallType, GoTo
  <2>4. \A v \in Users : v # u => call'[v] = call[v]
    BY <2>2, <1>t DEF CallType, GoTo
  <2>5. call'[u].at = l
    BY <2>2, <1>t DEF CallType, GoTo
  <2>6. u = Writer /\ pipe.writer_active
    BY <1>3 DEF PipeCopiesIn, PipeInv, PipeEnds
  <2>7. PipeEnds'
    BY <2>1, <2>2, <2>4, <2>5, <2>6 DEF PipeInv, PipeEnds, At
  <2> QED BY <2>1, <2>3, <2>7 DEF PipeInv
<1>4. CASE PipeWakesReader(u) \/ PipeWakesWriter(u) \/ PipeEof(u) \/ PipeNothing(u) \/ PipeWakesAll(u)
  <2>1. GoTo(u, "none") /\ UNCHANGED pipeVars
    BY <1>4 DEF PipeWakesReader, PipeWakesWriter, PipeEof, PipeNothing, PipeWakesAll
  <2>2. LeavesPipe
    BY <2>1, <1>t, GoToLeaves, Labels
  <2> QED BY <2>2, LeavesPipeKeeps
<1>5. CASE PipeCloses(u)
  <2>1. GoTo(u, "wake_ends") /\ written' = written /\ read' = read /\ At(u, "none")
    BY <1>5 DEF PipeCloses
  <2>2. CallType'
    BY <2>1, <1>t, Labels DEF CallType, GoTo
  <2>3. \A v \in Users : v # u => call'[v] = call[v]
    BY <2>1, <1>t DEF CallType, GoTo
  <2>4. call'[u].at = "wake_ends"
    BY <2>1, <1>t DEF CallType, GoTo
  <2>5. \/ u = Writer /\ pipe' = [pipe EXCEPT !.writer_active = FALSE]
        \/ u # Writer /\ pipe' = [pipe EXCEPT !.reader_active = FALSE]
    BY <1>5 DEF PipeCloses
  <2>6. PipeType'
    BY <2>1, <2>5, Zenon DEF PipeInv, PipeType
  <2>7. /\ pipe'.count = pipe.count /\ pipe'.read_pos = pipe.read_pos
        /\ pipe'.write_pos = pipe.write_pos /\ pipe'.data = pipe.data
        /\ u = Writer => pipe'.writer_active = FALSE
        /\ u # Writer => pipe'.writer_active = pipe.writer_active
    BY <2>5 DEF PipeInv, PipeType
  <2>8. PipeHolds'
    BY <2>1, <2>7 DEF PipeInv, PipeHolds
  <2>9. PipeEnds'
    BY <2>1, <2>3, <2>4, <2>7 DEF PipeInv, PipeEnds, At
  <2> QED BY <2>2, <2>6, <2>8, <2>9 DEF PipeInv
<1>6. CASE Registers(u, "read") \/ Registers(u, "write")
  <2>1. LeavesPipe
    BY <1>6, <1>t DEF Registers, LeavesPipe, pipeVars, CallType, At
  <2> QED BY <2>1, LeavesPipeKeeps
<1> QED BY <1>1, <1>2, <1>3, <1>4, <1>5, <1>6 DEF PipeNext

(* No step on the channel disturbs the pipe. *)
LEMMA ChannelStepLeavesPipe ==
  ASSUME CallType, NEW u \in Users, ChannelNext(u)
  PROVE  LeavesPipe
<1>1. CASE SendLooks(u)
  BY <1>1, GoToLeaves, Labels DEF SendLooks
<1>2. CASE SendLooksAgain(u)
  BY <1>2, GoToLeaves, Labels DEF SendLooksAgain
<1>3. CASE SendPushes(u) \/ RecvPops(u) \/ CloseWakes(u)
  BY <1>3, GoToLeaves, Labels DEF SendPushes, RecvPops, CloseWakes
<1>4. CASE RecvLooks(u)
  BY <1>4, GoToLeaves, Labels DEF RecvLooks
<1>5. CASE CloseStores(u)
  BY <1>5, GoToLeaves, Labels DEF CloseStores
<1>6. CASE Registers(u, "recv") \/ DropReceiver(u)
  BY <1>6 DEF Registers, DropReceiver, LeavesPipe, pipeVars, CallType, At
<1>7. CASE RemoveSender(u)
  <2>1. PICK l \in {"close", "none"} : call' = [call EXCEPT ![u].sender = FALSE, ![u].at = l]
    BY <1>7, Zenon DEF RemoveSender
  <2>2. l \in Points /\ l # "write" /\ l # "eof"
    BY <2>1 DEF Points
  <2>3. CallType'
    BY <2>1, <2>2, Zenon DEF CallType
  <2>4. /\ \A v \in Users : v # u => call'[v] = call[v]
        /\ call'[u].at = l
    BY <2>1 DEF CallType
  <2> QED BY <1>7, <2>2, <2>3, <2>4, Zenon DEF RemoveSender, LeavesPipe, pipeVars, At
<1>8. ASSUME NEW v \in Users, AddSender(u, v) PROVE LeavesPipe
  <2>1. call' = [call EXCEPT ![v].sender = TRUE] /\ UNCHANGED pipeVars
    BY <1>8 DEF AddSender
  <2>2. CallType'
    BY <2>1, Zenon DEF CallType
  <2>3. \A w \in Users : call'[w].at = call[w].at /\ call'[w].closed = call[w].closed
    BY <2>1 DEF CallType
  <2> QED BY <2>1, <2>2, <2>3 DEF LeavesPipe, pipeVars, At
<1> QED BY <1>1, <1>2, <1>3, <1>4, <1>5, <1>6, <1>7, <1>8 DEF ChannelNext

-----------------------------------------------------------------------------
(* The tasks with a handle, and those in Channel::close. *)
Senders == {u \in Users \ {Receiver} : call[u].sender}
Closing(u) == call[u].at \in {"close", "close_wakes"}

(* The count is the number of handles, and the task that dropped the last  *)
(* one closes the channel alone: while it does nobody has a handle to drop *)
(* or to give.                                                             *)
ChannelInv ==
  /\ CallType
  /\ channel \in [buffer : Seq(Nat), closed : BOOLEAN, receiver_active : BOOLEAN,
                  sender_count : Nat]
  /\ sent \in Nat
  /\ channel.sender_count = Cardinality(Senders)
  /\ \A u, v \in Users : Closing(u) /\ Closing(v) => u = v
  /\ \A u \in Users : Closing(u) => channel.sender_count = 0
  /\ \A u \in Users : At(u, "close_wakes") => channel.closed
  /\ channel.sender_count = 0 => channel.closed \/ \E u \in Users : Closing(u)

(* Channel::with_capacity, with a sender for each task but the receiver. *)
LEMMA InitChannel == IpcInit => ChannelInv
<1> SUFFICES ASSUME IpcInit PROVE ChannelInv
  OBVIOUS
<1>1. Senders = Users \ {Receiver}
  BY DEF IpcInit, Senders
<1>2. IsFiniteSet(Users \ {Receiver})
  BY UsersAssumption, FS_Difference, Zenon
<1>3. Cardinality(Users \ {Receiver}) \in Nat /\ Cardinality(Users \ {Receiver}) # 0
  BY <1>2, UsersAssumption, FS_CardinalityType, FS_EmptySet, ZenonT(40)
<1>4. CallType
  BY InitPipe DEF PipeInv
<1>5. \A u \in Users : ~Closing(u) /\ ~At(u, "close_wakes")
  BY DEF IpcInit, Closing, At
<1>6. channel \in [buffer : Seq(Nat), closed : BOOLEAN, receiver_active : BOOLEAN,
                   sender_count : Nat] /\ sent \in Nat
  BY <1>3 DEF IpcInit
<1>7. channel.sender_count = Cardinality(Senders) /\ channel.sender_count # 0
  BY <1>1, <1>3 DEF IpcInit
<1> QED BY <1>4, <1>5, <1>6, <1>7 DEF ChannelInv

SameRole(v) ==
  /\ call'[v].sender = call[v].sender
  /\ \/ call'[v].at = call[v].at
     \/ ~Closing(v) /\ call'[v].at \notin {"close", "close_wakes"}

RolesKept == CallType' /\ \A v \in Users : SameRole(v)

(* A step that neither changes who has a handle nor closes. *)
LeavesSenders ==
  /\ channel'.sender_count = channel.sender_count /\ channel'.closed = channel.closed
  /\ channel' \in [buffer : Seq(Nat), closed : BOOLEAN, receiver_active : BOOLEAN,
                   sender_count : Nat]
  /\ sent' \in Nat
  /\ RolesKept

(* ... keeps the invariant of the channel. *)
LEMMA LeavesSendersKeeps == ASSUME ChannelInv, LeavesSenders PROVE ChannelInv'
<1>1. Senders' = Senders
  BY DEF LeavesSenders, RolesKept, SameRole, Senders
<1>2. \A v \in Users : /\ Closing(v)' <=> Closing(v)
                       /\ At(v, "close_wakes")' <=> At(v, "close_wakes")
  BY DEF LeavesSenders, RolesKept, SameRole, Closing, At
<1> QED BY <1>1, <1>2 DEF LeavesSenders, RolesKept, ChannelInv

(* A task that is not closing, and goes on to something else than that. *)
LEMMA MovesLeaveSenders ==
  ASSUME CallType, NEW u \in Users, NEW l \in Points, ~Closing(u),
         l \notin {"close", "close_wakes"}, GoTo(u, l)
  PROVE  RolesKept
<1>1. CallType'
  BY DEF CallType, GoTo
<1>2. \A v \in Users : v # u => call'[v] = call[v]
  BY DEF CallType, GoTo
<1>3. call'[u].at = l /\ call'[u].sender = call[u].sender
  BY DEF CallType, GoTo
<1>4. ASSUME NEW v \in Users
      PROVE  SameRole(v)
  <2>1. CASE v = u
    BY <2>1, <1>3 DEF SameRole
  <2>2. CASE v # u
    BY <2>2, <1>2 DEF SameRole
  <2> QED BY <2>1, <2>2
<1> QED BY <1>1, <1>4 DEF RolesKept

(* There are finitely many handles, and some if a task has one. *)
LEMMA SendersFinite == /\ IsFiniteSet(Senders)
                       /\ \A u \in Senders : Cardinality(Senders) # 0
BY UsersAssumption, FS_Subset, FS_EmptySet DEF Senders

(* No step on the pipe changes who has a handle or who closes. *)
LEMMA PipeStepLeavesSenders ==
  ASSUME ChannelInv, NEW u \in Users, PipeNext(u)
  PROVE  LeavesSenders
<1>t. CallType /\ channel \in [buffer : Seq(Nat), closed : BOOLEAN,
                               receiver_active : BOOLEAN, sender_count : Nat]
      /\ sent \in Nat
  BY Zenon DEF ChannelInv
<1>c. channel' = channel /\ sent' = sent
  BY Zenon DEF PipeNext, PipeWrite, PipeCopiesIn, PipeCopiesOut, PipeWakesReader, PipeWakesWriter,
         PipeEof, PipeNothing, PipeCloses, PipeWakesAll, Registers, channelVars
<1>q. RolesKept => LeavesSenders
  BY <1>t, <1>c DEF LeavesSenders
<1>1. ASSUME NEW n \in 1 .. PipeSize, PipeWrite(u, n) PROVE RolesKept
  <2>0. n \in Nat
    BY SizesAssumption
  <2>1. call' = [call EXCEPT ![u].at = "write", ![u].n = n] /\ call[u].at = "none"
    BY <1>1 DEF PipeWrite, At
  <2>2. CallType'
    BY <2>0, <2>1, <1>t, Labels, ZenonT(40) DEF CallType
  <2>3. /\ \A v \in Users : v # u => call'[v] = call[v]
        /\ call'[u].at = "write" /\ call'[u].sender = call[u].sender
    BY <2>1, <1>t DEF CallType
  <2>4. ~Closing(u)
    BY <2>1 DEF Closing
  <2> QED BY <2>2, <2>3, <2>4 DEF RolesKept, SameRole
<1>2. ASSUME NEW n \in 1 .. PipeSize, PipeCopiesOut(u, n) PROVE RolesKept
  <2>1. PICK l, b : /\ l = IF Readable(n) > 0 THEN "wake_writer" ELSE "eof"
                    /\ b = ~pipe.writer_active
    OBVIOUS
  <2>2. call' = [call EXCEPT ![u].at = l, ![u].closed = b] /\ call[u].at = "none"
    BY <2>1, <1>2, Zenon DEF PipeCopiesOut, At
  <2>3. l \in Points /\ l \notin {"close", "close_wakes"} /\ b \in BOOLEAN
    BY <2>1, Labels
  <2>4. CallType'
    BY <2>2, <2>3, <1>t, ZenonT(40) DEF CallType
  <2>5. /\ \A v \in Users : v # u => call'[v] = call[v]
        /\ call'[u].at = l /\ call'[u].sender = call[u].sender
    BY <2>2, <1>t DEF CallType
  <2>6. ~Closing(u)
    BY <2>2 DEF Closing
  <2> QED BY <2>3, <2>4, <2>5, <2>6 DEF RolesKept, SameRole
<1>3. CASE PipeCopiesIn(u)
  <2>1. PICK l : l = IF Lesser(call[u].n, PipeSize - pipe.count) > 0
                       THEN "wake_reader" ELSE "none"
    OBVIOUS
  <2>2. GoTo(u, l) /\ ~Closing(u)
    BY <2>1, <1>3 DEF PipeCopiesIn, At, Closing
  <2>3. l \in Points /\ l \notin {"close", "close_wakes"}
    BY <2>1, Labels
  <2> QED BY <2>2, <2>3, <1>t, <1>q, MovesLeaveSenders
<1>4. CASE PipeWakesReader(u) \/ PipeWakesWriter(u) \/ PipeEof(u) \/ PipeNothing(u) \/ PipeWakesAll(u)
  <2>1. GoTo(u, "none") /\ ~Closing(u)
    BY <1>4 DEF PipeWakesReader, PipeWakesWriter, PipeEof, PipeNothing, PipeWakesAll, At, Closing
  <2>2. "none" \in Points /\ "none" \notin {"close", "close_wakes"}
    BY Labels
  <2> QED BY <2>1, <2>2, <1>t, <1>q, MovesLeaveSenders
<1>5. CASE PipeCloses(u)
  <2>1. GoTo(u, "wake_ends") /\ ~Closing(u)
    BY <1>5 DEF PipeCloses, At, Closing
  <2>2. "wake_ends" \in Points /\ "wake_ends" \notin {"close", "close_wakes"}
    BY Labels
  <2> QED BY <2>1, <2>2, <1>t, <1>q, MovesLeaveSenders
<1>6. CASE Registers(u, "read") \/ Registers(u, "write")
  <2>1. call' = call
    BY <1>6 DEF Registers
  <2> QED BY <2>1, <1>t, <1>q DEF CallType, RolesKept, SameRole
<1> QED BY <1>q, <1>1, <1>2, <1>3, <1>4, <1>5, <1>6 DEF PipeNext

(* send, try_recv, add_sender, remove_sender and close keep ChannelInv. *)
LEMMA ChannelStepKeeps ==
  ASSUME ChannelInv, NEW u \in Users, ChannelNext(u)
  PROVE  ChannelInv'
<1>t. CallType /\ channel \in [buffer : Seq(Nat), closed : BOOLEAN,
                               receiver_active : BOOLEAN, sender_count : Nat]
      /\ sent \in Nat
  BY DEF ChannelInv
<1>a. "none" \notin {"close", "close_wakes"} /\ "has_receiver" \notin {"close", "close_wakes"}
      /\ "push" \notin {"close", "close_wakes"} /\ "pop" \notin {"close", "close_wakes"}
  OBVIOUS
<1>q. channel' = channel /\ sent' = sent /\ RolesKept => LeavesSenders
  BY <1>t DEF LeavesSenders
<1>1. CASE SendLooks(u) \/ RecvLooks(u) \/ SendLooksAgain(u)
  <2>1. channel' = channel /\ sent' = sent /\ ~Closing(u)
    BY <1>1 DEF SendLooks, RecvLooks, SendLooksAgain, channelVars, At, Closing
  <2>2. GoTo(u, "has_receiver") \/ GoTo(u, "pop") \/ GoTo(u, "push") \/ GoTo(u, "none")
    BY <1>1 DEF SendLooks, RecvLooks, SendLooksAgain
  <2>3. RolesKept
    BY <2>1, <2>2, <1>t, <1>a, Labels, MovesLeaveSenders
  <2> QED BY <2>1, <2>3, <1>q, LeavesSendersKeeps
<1>2. CASE SendPushes(u)
  <2>1. GoTo(u, "none") /\ ~Closing(u)
    BY <1>2 DEF SendPushes, At, Closing
  <2>2. RolesKept
    BY <2>1, <1>t, <1>a, Labels, MovesLeaveSenders
  <2>3. CASE Len(channel.buffer) >= Capacity
    <3>1. channel' = channel /\ sent' = sent
      BY <1>2, <2>3 DEF SendPushes
    <3> QED BY <3>1, <2>2, <1>q, LeavesSendersKeeps
  <2>4. CASE ~(Len(channel.buffer) >= Capacity)
    <3>1. channel' = [channel EXCEPT !.buffer = Append(@, sent + 1)] /\ sent' = sent + 1
      BY <1>2, <2>4 DEF SendPushes
    <3>2. Append(channel.buffer, sent + 1) \in Seq(Nat)
      BY <1>t
    <3>a. PICK b \in Seq(Nat) : b = Append(channel.buffer, sent + 1)
      BY <3>2, Zenon
    <3>b. channel' = [channel EXCEPT !.buffer = b] /\ sent' \in Nat
      BY <3>1, <3>a, <1>t
    <3>3. LeavesSenders
      BY <3>b, <2>2, <1>t, Zenon DEF LeavesSenders
    <3> QED BY <3>3, LeavesSendersKeeps
  <2> QED BY <2>3, <2>4
<1>3. CASE RecvPops(u)
  <2>1. /\ GoTo(u, "none") /\ ~Closing(u) /\ sent' = sent
        /\ channel' = [channel EXCEPT !.buffer = PopFront(@)]
    BY <1>3 DEF RecvPops, At, Closing
  <2>2. RolesKept
    BY <2>1, <1>t, <1>a, Labels, MovesLeaveSenders
  <2>3. PopFront(channel.buffer) \in Seq(Nat)
    BY <1>t DEF PopFront
  <2>4. LeavesSenders
    BY <2>1, <2>2, <2>3, <1>t, Zenon DEF LeavesSenders
  <2> QED BY <2>4, LeavesSendersKeeps
<1>4. CASE Registers(u, "recv")
  <2>1. channel' = channel /\ sent' = sent /\ call' = call
    BY <1>4 DEF Registers, channelVars
  <2>2. RolesKept
    BY <2>1, <1>t DEF CallType, RolesKept, SameRole
  <2> QED BY <2>1, <2>2, <1>q, LeavesSendersKeeps
<1>5. CASE DropReceiver(u)
  <2>1. channel' = [channel EXCEPT !.receiver_active = FALSE] /\ sent' = sent /\ call' = call
    BY <1>5 DEF DropReceiver
  <2>2. RolesKept
    BY <2>1, <1>t DEF CallType, RolesKept, SameRole
  <2>3. LeavesSenders
    BY <2>1, <2>2, <1>t, Zenon DEF LeavesSenders
  <2> QED BY <2>3, LeavesSendersKeeps
<1>6. CASE CloseStores(u)
  <2>1. /\ channel' = [channel EXCEPT !.closed = TRUE] /\ sent' = sent
        /\ GoTo(u, "close_wakes") /\ Closing(u)
    BY <1>6 DEF CloseStores, At, Closing
  <2>2. CallType' /\ channel' \in [buffer : Seq(Nat), closed : BOOLEAN,
                                   receiver_active : BOOLEAN, sender_count : Nat]
    BY <2>1, <1>t, Labels, ZenonT(40) DEF GoTo, CallType
  <2>3. \A v \in Users : /\ call'[v].sender = call[v].sender
                         /\ v # u => call'[v] = call[v]
    BY <2>1, <1>t DEF GoTo, CallType
  <2>4. call'[u].at = "close_wakes" /\ channel'.closed = TRUE
        /\ channel'.sender_count = channel.sender_count
    BY <2>1, <1>t DEF GoTo, CallType
  <2>5. Senders' = Senders
    BY <2>3 DEF Senders
  <2>6. \A v \in Users : Closing(v)' <=> Closing(v)
    BY <2>1, <2>3, <2>4 DEF Closing
  <2> QED BY <2>1, <2>2, <2>4, <2>5, <2>6, <1>t DEF ChannelInv
<1>7. CASE CloseWakes(u)
  <2>1. /\ channel' = channel /\ sent' = sent /\ GoTo(u, "none") /\ At(u, "close_wakes")
        /\ channel.closed
    BY <1>7 DEF CloseWakes, channelVars, ChannelInv
  <2>2. CallType'
    BY <2>1, <1>t, Labels DEF GoTo, CallType
  <2>3. \A v \in Users : /\ call'[v].sender = call[v].sender
                         /\ v # u => call'[v] = call[v]
    BY <2>1, <1>t DEF GoTo, CallType
  <2>4. call'[u].at = "none"
    BY <2>1, <1>t DEF GoTo, CallType
  <2>5. Senders' = Senders
    BY <2>3 DEF Senders
  <2>6. \A v \in Users : Closing(v)' => Closing(v)
    BY <2>3, <2>4 DEF Closing
  <2> QED BY <2>1, <2>2, <2>5, <2>6, <1>t DEF ChannelInv
<1>8. CASE RemoveSender(u)
  <2>1. PICK l : l = IF channel.sender_count = 1 THEN "close" ELSE "none"
    OBVIOUS
  <2>2. /\ channel' = [channel EXCEPT !.sender_count = @ - 1] /\ sent' = sent
        /\ call' = [call EXCEPT ![u].sender = FALSE, ![u].at = l]
        /\ u \in Senders
    BY <2>1, <1>8 DEF RemoveSender, WasLast, Senders
  <2>3. l \in Points /\ l # "close_wakes"
    BY <2>1, Labels
  <2>4. CallType'
    BY <2>2, <2>3, <1>t, Zenon DEF CallType
  <2>5. /\ \A v \in Users : v # u => call'[v] = call[v]
        /\ call'[u].at = l /\ call'[u].sender = FALSE
    BY <2>2, <1>t DEF CallType
  <2>6. Senders' = Senders \ {u}
    BY <2>5 DEF Senders
  <2>7. channel.sender_count = Cardinality(Senders) /\ channel.sender_count # 0
    BY <2>2, SendersFinite DEF ChannelInv
  <2>8. Cardinality(Senders') = channel.sender_count - 1
    BY <2>2, <2>6, <2>7, SendersFinite, FS_RemoveElement, Zenon
  <2>9. /\ channel' \in [buffer : Seq(Nat), closed : BOOLEAN,
                         receiver_active : BOOLEAN, sender_count : Nat]
        /\ channel'.sender_count = channel.sender_count - 1 /\ channel'.closed = channel.closed
    <3>1. channel.sender_count - 1 \in Nat
      BY <2>7, <1>t
    <3> QED BY <3>1, <2>2, <1>t, Zenon
  <2>10. \A v \in Users : ~Closing(v)
    BY <2>7 DEF ChannelInv
  <2>11. /\ \A v \in Users : Closing(v)' => v = u /\ l = "close"
         /\ l = "close" => Closing(u)'
         /\ \A v \in Users : ~At(v, "close_wakes")'
    BY <2>3, <2>5, <2>10 DEF Closing, At
  <2>12. l = "close" <=> channel'.sender_count = 0
    BY <2>1, <2>9, <1>t
  <2> QED BY <2>2, <2>4, <2>8, <2>9, <2>11, <2>12, <1>t DEF ChannelInv
<1>9. ASSUME NEW w \in Users, AddSender(u, w) PROVE ChannelInv'
  <2>2. /\ channel' = [channel EXCEPT !.sender_count = @ + 1] /\ sent' = sent
        /\ call' = [call EXCEPT ![w].sender = TRUE]
        /\ u \in Senders /\ w \notin Senders /\ w # Receiver
    BY <1>9 DEF AddSender, Senders
  <2>4. CallType'
    BY <2>2, <1>t, Zenon DEF CallType
  <2>5. \A v \in Users : /\ v # w => call'[v] = call[v]
                         /\ call'[v].at = call[v].at
    BY <2>2, <1>t DEF CallType
  <2>a. call'[w].sender = TRUE
    BY <2>2, <1>t DEF CallType
  <2>6. Senders' = Senders \cup {w}
    BY <2>2, <2>5, <2>a DEF Senders
  <2>7. channel.sender_count = Cardinality(Senders) /\ channel.sender_count # 0
    BY <2>2, SendersFinite DEF ChannelInv
  <2>8. Cardinality(Senders') = channel.sender_count + 1
    BY <2>2, <2>6, <2>7, SendersFinite, FS_AddElement
  <2>9. /\ channel' \in [buffer : Seq(Nat), closed : BOOLEAN,
                         receiver_active : BOOLEAN, sender_count : Nat]
        /\ channel'.sender_count = channel.sender_count + 1 /\ channel'.closed = channel.closed
    <3>1. channel.sender_count + 1 \in Nat
      BY <1>t
    <3>2. channel' = [channel EXCEPT !.sender_count = channel.sender_count + 1]
      BY <2>2
    <3> QED BY <3>1, <3>2, <1>t
  <2>10. \A v \in Users : ~Closing(v)' /\ ~At(v, "close_wakes")'
    BY <2>5, <2>7 DEF ChannelInv, Closing, At
  <2>11. channel'.sender_count # 0
    BY <2>9, <1>t
  <2> QED BY <2>2, <2>4, <2>8, <2>9, <2>10, <2>11, <1>t DEF ChannelInv
<1> QED BY <1>1, <1>2, <1>3, <1>4, <1>5, <1>6, <1>7, <1>8, <1>9 DEF ChannelNext

-----------------------------------------------------------------------------
IpcInv == PipeInv /\ ChannelInv

(* Every step of every task, on the pipe or on the channel. *)
LEMMA NextIpcInv == IpcInv /\ [IpcNext]_ipcVars => IpcInv'
<1> SUFFICES ASSUME IpcInv, [IpcNext]_ipcVars PROVE IpcInv'
  OBVIOUS
<1>1. ASSUME NEW u \in Users, PipeNext(u) PROVE IpcInv'
  BY <1>1, PipeStepKeeps, PipeStepLeavesSenders, LeavesSendersKeeps DEF IpcInv
<1>2. ASSUME NEW u \in Users, ChannelNext(u) PROVE IpcInv'
  <2>1. LeavesPipe
    BY <1>2, ChannelStepLeavesPipe DEF IpcInv, PipeInv
  <2> QED BY <1>2, <2>1, LeavesPipeKeeps, ChannelStepKeeps DEF IpcInv
<1>3. CASE UNCHANGED ipcVars
  <2>1. /\ pipe' = pipe /\ written' = written /\ read' = read /\ call' = call
        /\ channel' = channel /\ sent' = sent
    BY <1>3 DEF ipcVars
  <2>2. LeavesPipe
    BY <2>1 DEF LeavesPipe, IpcInv, PipeInv, CallType, At
  <2>3. LeavesSenders
    BY <2>1 DEF LeavesSenders, RolesKept, SameRole, IpcInv, ChannelInv, CallType
  <2> QED BY <2>2, <2>3, LeavesPipeKeeps, LeavesSendersKeeps DEF IpcInv
<1> QED BY <1>1, <1>2, <1>3 DEF IpcNext

(* For any tasks, buffer size and sizes of the calls, wherever the         *)
(* positions wrap: the pipe holds exactly the bytes written and not yet    *)
(* read, in order, and a read that began when the write end was closed and *)
(* returns EOF leaves none (PipeBuffer::write and read, Pipe::read).       *)
THEOREM PipeIsAlwaysFifo == IpcSpec => []PipeIsFifo
<1>1. IpcInit => IpcInv
  BY InitPipe, InitChannel DEF IpcInv
<1>2. IpcInv => PipeIsFifo
  <2> SUFFICES ASSUME IpcInv PROVE PipeIsFifo
    OBVIOUS
  <2>t. /\ pipe.read_pos \in Positions /\ pipe.count \in 0 .. PipeSize
        /\ written \in Nat /\ read \in Nat /\ pipe.count = written - read
        /\ HoldsBytes(pipe.data, pipe.read_pos, pipe.count, read)
    BY DEF IpcInv, PipeInv, PipeType, PipeHolds
  <2>1. \A i \in 1 .. pipe.count : pipe.data[(pipe.read_pos + i - 1) % PipeSize] = read + i
    <3> SUFFICES ASSUME NEW i \in 1 .. pipe.count
                 PROVE  pipe.data[(pipe.read_pos + i - 1) % PipeSize] = read + i
      OBVIOUS
    <3>1. /\ i - 1 \in 0 .. pipe.count - 1 /\ i - 1 \in Nat /\ (i - 1) + 0 <= PipeSize
          /\ pipe.read_pos + i - 1 = pipe.read_pos + (i - 1) /\ read + (i - 1) + 1 = read + i
      BY <2>t, SizesAssumption DEF Positions
    <3>2. After(pipe.read_pos, i - 1) = Wrap(pipe.read_pos + (i - 1))
      BY <3>1, <2>t, 0 \in Nat, AfterIsWrap
    <3>3. pipe.data[Wrap(pipe.read_pos + (i - 1))] = read + (i - 1) + 1
      BY <3>1, <2>t DEF HoldsBytes
    <3> QED BY <3>1, <3>2, <3>3 DEF After
  <2>2. PipeContents = [i \in 1 .. written - read |-> read + i]
    BY <2>1, <2>t DEF PipeContents
  <2>3. \A u \in Users : At(u, "eof") /\ call[u].closed => written = read
    BY <2>t DEF IpcInv, PipeInv, PipeEnds
  <2> QED BY <2>t, <2>2, <2>3 DEF PipeIsFifo
<1> QED BY <1>1, <1>2, NextIpcInv, PTL DEF IpcSpec

(* For any number of senders that drop their handles at once, one closes   *)
(* the channel, and a channel without senders is closed or being closed    *)
(* (Channel::remove_sender, add_sender and close).                         *)
THEOREM OrphanIsAlwaysClosed == IpcSpec => []OrphanIsClosed
<1>1. IpcInit => IpcInv
  BY InitPipe, InitChannel DEF IpcInv
<1>2. IpcInv => OrphanIsClosed
  <2> SUFFICES ASSUME IpcInv PROVE OrphanIsClosed
    OBVIOUS
  <2>1. PICK C : C = {u \in Users : call[u].at \in {"close", "close_wakes"}}
    BY Zenon
  <2>2. \A u \in Users : u \in C <=> Closing(u)
    BY <2>1 DEF Closing
  <2>3. Cardinality(C) <= 1
    <3>1. CASE C = {}
      BY <3>1, FS_EmptySet
    <3>2. CASE C # {}
      <4>0. PICK x : x \in C
        BY <3>2
      <4>a. \A u \in Users, v \in Users : Closing(u) /\ Closing(v) => u = v
        BY DEF IpcInv, ChannelInv
      <4>b. \A u \in C : u \in Users /\ u = x
        BY <4>0, <4>a, <2>1, <2>2
      <4>1. C = {x}
        BY <4>0, <4>b
      <4>2. Cardinality({x}) = 1
        BY FS_Singleton, Zenon
      <4> QED BY <4>1, <4>2
    <3> QED BY <3>1, <3>2
  <2>4. channel.sender_count = 0 => channel.closed \/ C # {}
    BY <2>2 DEF IpcInv, ChannelInv
  <2> QED BY <2>1, <2>3, <2>4 DEF OrphanIsClosed
<1> QED BY <1>1, <1>2, NextIpcInv, PTL DEF IpcSpec
=============================================================================
