------------------------------- MODULE Mutex -------------------------------
(***************************************************************************)
(* What kernel/src/lock.rs promises its callers: a guard exists on at most *)
(* one hart, and only the hart that has the guard can give it back.        *)
(* Spinlock implements this specification.                                 *)
(***************************************************************************)
CONSTANTS Harts, NoHart

VARIABLE owner

Init == owner = NoHart

(* A hart is handed a SpinlockGuard. *)
Acquire(h) == owner = NoHart /\ owner' = h

(* The guard is dropped. *)
Release(h) == owner = h /\ owner' = NoHart

Next == \E h \in Harts : Acquire(h) \/ Release(h)

Spec == Init /\ [][Next]_owner
=============================================================================
