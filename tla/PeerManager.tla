---------------------------- MODULE PeerManager ----------------------------
(***************************************************************************)
(* The relay's table of peers (relay/src/peer.rs): PeerManager and the     *)
(* IpPool inside it.  Four maps describe the same peers, and the pool is a *)
(* stack of free host numbers.  A HashMap is a function on its key set.    *)
(*                                                                         *)
(* Every operation runs under the write lock of the table, so each is one  *)
(* action.  Hub adds the tasks that call them and the locks.               *)
(***************************************************************************)
EXTENDS Naturals, Sequences, FiniteSets

CONSTANTS Macs,   \* MAC addresses of the clients
          Pool,   \* the stack of host numbers the pool starts with
          MaxId   \* bound: identifiers 1 .. MaxId are handed out

(* The pool is made of the numbers IP_POOL_START ..= IP_POOL_END, each once. *)
Hosts == {Pool[k] : k \in DOMAIN Pool}

ASSUME PoolAssumption ==
  /\ Pool \in Seq(Hosts)
  /\ \A j, k \in DOMAIN Pool : Pool[j] = Pool[k] => j = k
ASSUME MaxIdAssumption == MaxId \in Nat

VARIABLES
  peers,      \* peers: HashMap<PeerId, Peer>
  macToPeer,  \* mac_to_peer
  ipToPeer,   \* ip_to_peer (an address is its host number)
  available,  \* ip_pool.available
  allocated,  \* ip_pool.allocated
  nextId      \* next_id

pmVars == <<peers, macToPeer, ipToPeer, available, allocated, nextId>>

Ids == 1 .. MaxId

(* HashMap::insert and HashMap::remove *)
Insert(f, k, v) == [x \in DOMAIN f \cup {k} |-> IF x = k THEN v ELSE f[x]]
Remove(f, k) == [x \in DOMAIN f \ {k} |-> f[x]]
Empty == [x \in {} |-> 0]

PmInit ==
  /\ peers = Empty /\ macToPeer = Empty /\ ipToPeer = Empty
  /\ available = Pool /\ allocated = Empty
  /\ nextId = 1

-----------------------------------------------------------------------------
(* find_by_mac succeeds. *)
FoundByMac(m) == m \in DOMAIN macToPeer /\ macToPeer[m] \in DOMAIN peers

(* What register returns when it does not fail. *)
IdFor(m) == IF FoundByMac(m) THEN macToPeer[m] ELSE nextId

(* IpPool::allocate for a pool that has an address left. *)
Allocate(id) ==
  /\ allocated' = Insert(allocated, available[Len(available)], id)
  /\ available' = SubSeq(available, 1, Len(available) - 1)

(* IpPool::release *)
Release(h) ==
  IF h \in DOMAIN allocated
    THEN /\ allocated' = Remove(allocated, h)
         /\ available' = Append(available, h)
    ELSE UNCHANGED <<allocated, available>>

(* register for a MAC in the table: the existing registration. *)
RegisterAgain(m) == FoundByMac(m) /\ UNCHANGED pmVars

(* register for a new MAC. *)
RegisterNew(m) ==
  /\ ~FoundByMac(m) /\ available # <<>>
  /\ nextId <= MaxId
  /\ nextId' = nextId + 1
  /\ Allocate(nextId)
  /\ LET ip == available[Len(available)]
     IN  /\ peers' = Insert(peers, nextId, [mac |-> m, ip |-> ip])
         /\ ipToPeer' = Insert(ipToPeer, ip, nextId)
  /\ macToPeer' = Insert(macToPeer, m, nextId)

(* register when the pool is exhausted uses up an identifier. *)
RegisterFails(m) ==
  /\ ~FoundByMac(m) /\ available = <<>>
  /\ nextId <= MaxId
  /\ nextId' = nextId + 1
  /\ UNCHANGED <<peers, macToPeer, ipToPeer, available, allocated>>

(* unregister: nothing happens for an identifier that is gone. *)
Unregister(id) ==
  IF id \in DOMAIN peers
    THEN /\ peers' = Remove(peers, id)
         /\ macToPeer' = Remove(macToPeer, peers[id].mac)
         /\ ipToPeer' = Remove(ipToPeer, peers[id].ip)
         /\ Release(peers[id].ip)
         /\ UNCHANGED nextId
    ELSE UNCHANGED pmVars

PmNext ==
  \/ \E m \in Macs : RegisterAgain(m) \/ RegisterNew(m) \/ RegisterFails(m)
  \/ \E id \in Ids : Unregister(id)

PmSpec == PmInit /\ [][PmNext]_pmVars

-----------------------------------------------------------------------------
(* The types of the table; the keys of every map are peers of the past or  *)
(* the present.                                                            *)
PeerTypeOK ==
  /\ nextId \in 1 .. MaxId + 1
  /\ DOMAIN peers \subseteq 1 .. nextId - 1
  /\ \A i \in DOMAIN peers : peers[i].mac \in Macs /\ peers[i].ip \in Hosts
  /\ DOMAIN macToPeer \subseteq Macs
  /\ DOMAIN ipToPeer \subseteq Hosts
  /\ available \in Seq(Hosts)

(* The three indexes describe the same peers: looking a registered peer up *)
(* by its MAC or by its address finds it, and an index entry leads to a    *)
(* registered peer with that MAC or address.  So no two peers share a MAC  *)
(* or an address (register, unregister and cleanup_expired of PeerManager  *)
(* update the maps one after the other).                                   *)
IndexesAgree ==
  /\ \A i \in DOMAIN peers : /\ peers[i].mac \in DOMAIN macToPeer
                             /\ macToPeer[peers[i].mac] = i
                             /\ peers[i].ip \in DOMAIN ipToPeer
                             /\ ipToPeer[peers[i].ip] = i
  /\ \A m \in DOMAIN macToPeer : /\ macToPeer[m] \in DOMAIN peers
                                 /\ peers[macToPeer[m]].mac = m
  /\ \A h \in DOMAIN ipToPeer : /\ ipToPeer[h] \in DOMAIN peers
                                /\ peers[ipToPeer[h]].ip = h

(* The pool never loses or doubles an address: every host number is either *)
(* in the stack, exactly once, or allocated to the peer that has it        *)
(* (IpPool::allocate and IpPool::release).                                 *)
PoolConserved ==
  /\ \A j, k \in DOMAIN available : available[j] = available[k] => j = k
  /\ \A h \in Hosts : (\E k \in DOMAIN available : available[k] = h)
                      <=> h \notin DOMAIN allocated
  /\ \A h \in DOMAIN allocated : /\ allocated[h] \in DOMAIN peers
                                 /\ peers[allocated[h]].ip = h
  /\ \A i \in DOMAIN peers : /\ peers[i].ip \in DOMAIN allocated
                             /\ allocated[peers[i].ip] = i
=============================================================================
