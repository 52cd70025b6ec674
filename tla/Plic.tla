------------------------------- MODULE Plic -------------------------------
(***************************************************************************)
(* The emulated interrupt controller (riscv-vm/src/devices/plic.rs).       *)
(* PlicState is behind one mutex, so an operation on it is one step; the   *)
(* caches are written before the mutex is released and are read without    *)
(* it by the interrupt poll of every hart (module Interrupts).             *)
(***************************************************************************)
EXTENDS Naturals

CONSTANTS Harts,      \* hart ids
          Sources,    \* interrupt sources; 0 means no interrupt
          Priorities  \* bound: values software writes to the priority and
                      \* threshold registers

ASSUME PlicAssumption ==
  /\ Harts \subseteq Nat
  /\ Sources \subseteq Nat \ {0}
  /\ Priorities \subseteq Nat
  /\ 0 \in Priorities

VARIABLES priority, pending, enable, threshold,
          active,     \* claimed and not yet completed, per context
          priority_cache, pending_cache, enable_cache, threshold_cache

plicCaches == <<priority_cache, pending_cache, enable_cache, threshold_cache>>
plicVars == <<priority, pending, enable, threshold, active,
              priority_cache, pending_cache, enable_cache, threshold_cache>>

MContext(h) == 2 * h
SContext(h) == 2 * h + 1
Contexts == {MContext(h) : h \in Harts} \cup {SContext(h) : h \in Harts}

PlicTypeOK ==
  /\ priority \in [Sources -> Priorities]
  /\ pending \in SUBSET Sources
  /\ enable \in [Contexts -> SUBSET Sources]
  /\ threshold \in [Contexts -> Priorities]
  /\ active \in [Contexts -> SUBSET Sources]
  /\ priority_cache \in [Sources -> Priorities]
  /\ pending_cache \in SUBSET Sources
  /\ enable_cache \in [Contexts -> SUBSET Sources]
  /\ threshold_cache \in [Contexts -> Priorities]

(* store to a priority register, with sync_priority_cache. *)
StorePriority(s, v) ==
  /\ priority' = [priority EXCEPT ![s] = v]
  /\ priority_cache' = [priority_cache EXCEPT ![s] = priority'[s]]
  /\ UNCHANGED <<pending, enable, threshold, active,
                 pending_cache, enable_cache, threshold_cache>>

(* store to an enable register, with sync_enable_cache. *)
StoreEnable(c, set) ==
  /\ enable' = [enable EXCEPT ![c] = set]
  /\ enable_cache' = [enable_cache EXCEPT ![c] = enable'[c]]
  /\ UNCHANGED <<priority, pending, threshold, active,
                 priority_cache, pending_cache, threshold_cache>>

(* store to a threshold register, with sync_threshold_cache. *)
StoreThreshold(c, v) ==
  /\ threshold' = [threshold EXCEPT ![c] = v]
  /\ threshold_cache' = [threshold_cache EXCEPT ![c] = threshold'[c]]
  /\ UNCHANGED <<priority, pending, enable, active,
                 priority_cache, pending_cache, enable_cache>>

(* set_source_level, with sync_pending_cache. *)
SetSourceLevel(s, level) ==
  /\ pending' = IF level THEN pending \cup {s} ELSE pending \ {s}
  /\ pending_cache' = pending'
  /\ UNCHANGED <<priority, enable, threshold, active,
                 priority_cache, enable_cache, threshold_cache>>

(* What makes a source interrupt context c, in-flight or not, and          *)
(* eligible_for_context.                                                   *)
Raised(s, c) ==
  /\ s \in pending
  /\ s \in enable[c]
  /\ priority[s] > threshold[c]

Eligible(s, c) == Raised(s, c) /\ s \notin active[c]

(* The source claim_interrupt_for_internal picks: the first of those with  *)
(* the highest priority; 0 if there is none.                               *)
Best(c) ==
  LET set == {s \in Sources : Eligible(s, c)}
  IN  IF set = {} THEN 0
      ELSE CHOOSE s \in set :
             \A t \in set : \/ priority[t] < priority[s]
                            \/ priority[t] = priority[s] /\ s <= t

(* load of a claim register that returns id. *)
ClaimInterrupt(c, id) ==
  /\ id = Best(c)
  /\ active' = IF id = 0 THEN active ELSE [active EXCEPT ![c] = @ \cup {id}]
  /\ UNCHANGED <<priority, pending, enable, threshold, plicCaches>>

(* Mutant: the completion does not end the claim. *)
CompleteNothing(c, id) == UNCHANGED plicVars

(* store to a claim register: completion. *)
CompleteInterrupt(c, id) ==
  /\ active' = [active EXCEPT ![c] = @ \ {id}]
  /\ UNCHANGED <<priority, pending, enable, threshold, plicCaches>>

-----------------------------------------------------------------------------

(* Whoever reads the caches without the lock reads what a reader with the  *)
(* lock would: no operation leaves them behind the state they mirror.      *)
CachesMirror ==
  /\ priority_cache = priority
  /\ pending_cache = pending
  /\ enable_cache = enable
  /\ threshold_cache = threshold
=============================================================================
