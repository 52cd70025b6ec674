------------------------------ MODULE Spinlock ------------------------------
(***************************************************************************)
(* The kernel's spinlock, kernel/src/lock.rs: one Spinlock<T> and the      *)
(* harts that call lock(), try_lock() and drop the guard.                  *)
(*                                                                         *)
(* Every atomic memory operation of the code is one action.  In a debug    *)
(* build (DebugAssertions) the holder field is written after the swap that *)
(* takes the lock and cleared before the swap that releases it, and a hart *)
(* that has spun long enough compares it with its own id.                  *)
(***************************************************************************)
EXTENDS Naturals, FiniteSets

CONSTANTS Harts,            \* the harts that share the lock
          NoHart,           \* usize::MAX in the holder field
          DebugAssertions   \* cfg(debug_assertions)

ASSUME NoHartAssumption == NoHart \notin Harts
ASSUME DebugAssumption == DebugAssertions \in BOOLEAN

UNLOCKED == 0
LOCKED == 1

VARIABLES locked,   \* the AtomicU32
          holder,   \* the AtomicUsize of a debug build
          pc        \* where each hart is in lock.rs

vars == <<locked, holder, pc>>

(* outside  no guard, not calling                                          *)
(* spin     in lock(), the last swap returned LOCKED (or none done yet)    *)
(* taken    the swap returned UNLOCKED, holder not yet stored              *)
(* guard    the SpinlockGuard is alive                                     *)
(* again    in lock() while its own guard is alive                         *)
(* dropping drop() has cleared holder, the releasing swap is still to come *)
(* panic    the deadlock check panicked                                    *)
PC == {"outside", "spin", "taken", "guard", "again", "dropping", "panic"}

Init == /\ locked = UNLOCKED
        /\ holder = NoHart
        /\ pc = [h \in Harts |-> "outside"]

Goto(h, l) == pc' = [pc EXCEPT ![h] = l]

(* lock() is entered; a hart that still has the guard may do so too. *)
CallLock(h) ==
  /\ pc[h] \in {"outside", "guard"}
  /\ Goto(h, IF pc[h] = "outside" THEN "spin" ELSE "again")
  /\ UNCHANGED <<locked, holder>>

(* self.locked.swap(LOCKED) in lock(): the old value decides. *)
Swap(h) ==
  /\ pc[h] \in {"spin", "again"}
  /\ locked' = LOCKED
  /\ IF locked = UNLOCKED
       THEN Goto(h, IF DebugAssertions THEN "taken" ELSE "guard")
       ELSE UNCHANGED pc
  /\ UNCHANGED holder

(* Mutant: try_lock() ignores the value the swap returned. *)
TryLockIgnoresOldValue(h) ==
  /\ pc[h] = "outside"
  /\ locked' = LOCKED
  /\ Goto(h, IF DebugAssertions THEN "taken" ELSE "guard")
  /\ UNCHANGED holder

(* try_lock(): the same swap, but a LOCKED answer returns None. *)
TryLock(h) ==
  /\ pc[h] = "outside"
  /\ locked' = LOCKED
  /\ IF locked = UNLOCKED
       THEN Goto(h, IF DebugAssertions THEN "taken" ELSE "guard")
       ELSE UNCHANGED pc
  /\ UNCHANGED holder

(* Mutant: the guard is returned without recording the holder. *)
ReturnWithoutHolder(h) ==
  /\ pc[h] = "taken"
  /\ Goto(h, "guard")
  /\ UNCHANGED <<locked, holder>>

(* self.holder.store(hart_id) and the return of the guard. *)
StoreHolder(h) ==
  /\ pc[h] = "taken"
  /\ holder' = h
  /\ Goto(h, "guard")
  /\ UNCHANGED locked

(* More than 1_000_000 spins in a debug build: panic when holder is us.    *)
(* The count is left out, so the check may come at any time of the spin.   *)
CheckDeadlock(h) ==
  /\ DebugAssertions
  /\ pc[h] \in {"spin", "again"}
  /\ holder = h
  /\ Goto(h, "panic")
  /\ UNCHANGED <<locked, holder>>

(* drop(): holder := usize::MAX ... *)
ClearHolder(h) ==
  /\ DebugAssertions
  /\ pc[h] = "guard"
  /\ holder' = NoHart
  /\ Goto(h, "dropping")
  /\ UNCHANGED locked

(* ... and then swap(UNLOCKED). *)
Unlock(h) ==
  /\ pc[h] = IF DebugAssertions THEN "dropping" ELSE "guard"
  /\ locked' = UNLOCKED
  /\ Goto(h, "outside")
  /\ UNCHANGED holder

HartStep(h) == \/ CallLock(h) \/ Swap(h) \/ TryLock(h) \/ StoreHolder(h)
               \/ CheckDeadlock(h) \/ ClearHolder(h) \/ Unlock(h)

Next == \E h \in Harts : HartStep(h)

Spec == Init /\ [][Next]_vars

-----------------------------------------------------------------------------
(* Values the variables can have. *)
TypeOK == /\ locked \in {UNLOCKED, LOCKED}
          /\ holder \in Harts \cup {NoHart}
          /\ pc \in [Harts -> PC]

(* The harts the lock belongs to, from the successful swap to the releasing *)
(* one.  A panicked hart never drops its guard (panic_halt).                *)
Owning == {"taken", "guard", "again", "dropping", "panic"}
Owners == {h \in Harts : pc[h] \in Owning}

(* lock(), try_lock() and drop(): two harts never have a guard together,    *)
(* and the word is LOCKED exactly while some hart has one, so no release    *)
(* is lost and none happens twice.                                          *)
MutualExclusion == /\ \A g, h \in Owners : g = h
                   /\ locked = LOCKED <=> Owners # {}

(* The debug holder field is the hart of the guard whenever a guard exists, *)
(* and nobody's otherwise: the deadlock check of lock() panics only on a    *)
(* hart that really re-acquires its own lock, never on one that lost the    *)
(* race for it.                                                             *)
HolderTellsOwner ==
  DebugAssertions =>
    \A h \in Harts : holder = h <=> pc[h] \in {"guard", "again", "panic"}

owner == IF Owners = {} THEN NoHart ELSE CHOOSE h \in Harts : pc[h] \in Owning

M == INSTANCE Mutex

(* The spinlock implements the abstract mutual exclusion of Mutex. *)
ImplementsMutex == M!Spec
=============================================================================
