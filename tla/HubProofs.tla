----------------------------- MODULE HubProofs -----------------------------
(***************************************************************************)
(* The relay, for any number of connections, any pool, any channel         *)
(* capacity and any datagrams.                                             *)
(*                                                                         *)
(* First the peer table by itself: its indexes agree and the address pool  *)
(* is conserved.  The two statements are only inductive together:          *)
(* releasing an address is safe because the indexes say who has it, and an *)
(* index entry is not overwritten because the pool hands an address out    *)
(* once.                                                                   *)
(*                                                                         *)
(* Then the hub: it uses the table only through its operations, a          *)
(* registered peer can be reached, and an ended connection is forgotten.   *)
(* The invariant adds the discipline of the two locks: who holds which is  *)
(* told by where the tasks are, and what a task that holds one has still   *)
(* to do is told by its label.                                             *)
(***************************************************************************)
EXTENDS Hub, TLAPS

IInv == PeerTypeOK /\ IndexesAgree /\ PoolConserved

(* Popping a non-empty stack leaves the elements below the top. *)
LEMMA PopStack ==
  ASSUME NEW S, NEW s \in Seq(S), s # <<>>
  PROVE  LET t == SubSeq(s, 1, Len(s) - 1)
         IN  /\ t \in Seq(S) /\ Len(s) \in Nat \ {0}
             /\ DOMAIN s = 1 .. Len(s) /\ s[Len(s)] \in S
             /\ DOMAIN t = 1 .. Len(s) - 1
             /\ \A k \in 1 .. Len(s) - 1 : t[k] = s[k]
  OBVIOUS

(* Pushing on a stack leaves the elements below the new top. *)
LEMMA PushStack ==
  ASSUME NEW S, NEW s \in Seq(S), NEW e \in S
  PROVE  LET t == Append(s, e)
         IN  /\ t \in Seq(S) /\ Len(s) \in Nat
             /\ DOMAIN s = 1 .. Len(s)
             /\ DOMAIN t = 1 .. Len(s) + 1
             /\ t[Len(s) + 1] = e
             /\ \A k \in 1 .. Len(s) : t[k] = s[k]
  OBVIOUS

(* The empty table of PeerManager::new satisfies the invariant. *)
LEMMA InitIInv == PmInit => IInv
<1> SUFFICES ASSUME PmInit PROVE IInv
  OBVIOUS
<1>1. PeerTypeOK
  BY PoolAssumption, MaxIdAssumption DEF PmInit, PeerTypeOK, Empty
<1>2. IndexesAgree
  BY DEF PmInit, IndexesAgree, Empty
<1>3. PoolConserved
  BY PoolAssumption DEF PmInit, PoolConserved, Empty, Hosts
<1> QED
  BY <1>1, <1>2, <1>3 DEF IInv

(* register for a new MAC address preserves the invariant. *)
LEMMA RegisterNewIInv ==
  ASSUME IInv, NEW m \in Macs, RegisterNew(m)
  PROVE  IInv'
<1> DEFINE ip == available[Len(available)]
           rest == SubSeq(available, 1, Len(available) - 1)
<1>1. /\ available \in Seq(Hosts) /\ available # <<>>
      /\ nextId \in Nat /\ nextId \in 1 .. MaxId /\ nextId' = nextId + 1
      /\ nextId \notin DOMAIN peers
  BY MaxIdAssumption DEF IInv, PeerTypeOK, RegisterNew
<1>2. /\ rest \in Seq(Hosts) /\ Len(available) \in Nat \ {0}
      /\ DOMAIN available = 1 .. Len(available) /\ ip \in Hosts
      /\ DOMAIN rest = 1 .. Len(available) - 1
      /\ \A k \in 1 .. Len(available) - 1 : rest[k] = available[k]
  BY <1>1, PopStack
<1>3. /\ available' = rest
      /\ allocated' = Insert(allocated, ip, nextId)
      /\ peers' = Insert(peers, nextId, [mac |-> m, ip |-> ip])
      /\ ipToPeer' = Insert(ipToPeer, ip, nextId)
      /\ macToPeer' = Insert(macToPeer, m, nextId)
  BY DEF RegisterNew, Allocate
<1>4. ip \notin DOMAIN allocated
  BY <1>2 DEF IInv, PoolConserved
<1>5. ip \notin DOMAIN ipToPeer
  BY <1>4 DEF IInv, PoolConserved, IndexesAgree
<1>6. m \notin DOMAIN macToPeer
  BY DEF IInv, IndexesAgree, RegisterNew, FoundByMac
<1> HIDE DEF ip, rest
<1>7. PeerTypeOK'
  <2>1. nextId' \in 1 .. MaxId + 1 /\ DOMAIN peers' \subseteq 1 .. nextId' - 1
    BY <1>1, <1>3, MaxIdAssumption DEF IInv, PeerTypeOK, Insert
  <2>2. \A i \in DOMAIN peers' : peers'[i].mac \in Macs /\ peers'[i].ip \in Hosts
    BY <1>2, <1>3 DEF IInv, PeerTypeOK, Insert
  <2> QED
    BY <2>1, <2>2, <1>2, <1>3 DEF IInv, PeerTypeOK, Insert
<1>8. IndexesAgree'
  BY <1>1, <1>3, <1>5, <1>6 DEF IInv, IndexesAgree, Insert
<1>9. PoolConserved'
  <2>1. \A j, k \in DOMAIN available' : available'[j] = available'[k] => j = k
    BY <1>2, <1>3 DEF IInv, PoolConserved
  <2>2. \A h \in Hosts : (\E k \in DOMAIN available' : available'[k] = h)
                         <=> h \notin DOMAIN allocated'
    <3> SUFFICES ASSUME NEW h \in Hosts
                 PROVE  (\E k \in DOMAIN available' : available'[k] = h)
                        <=> (h # ip /\ h \notin DOMAIN allocated)
      BY <1>3 DEF Insert
    <3>1. ASSUME NEW k \in DOMAIN rest, rest[k] = h
          PROVE  h # ip /\ h \notin DOMAIN allocated
      BY <3>1, <1>2 DEF IInv, PoolConserved, ip
    <3>2. ASSUME h # ip, h \notin DOMAIN allocated
          PROVE  \E k \in DOMAIN rest : rest[k] = h
      <4>1. PICK k \in DOMAIN available : available[k] = h
        BY <3>2 DEF IInv, PoolConserved
      <4>2. k # Len(available)
        BY <4>1, <3>2 DEF ip
      <4> QED
        BY <4>1, <4>2, <1>2
    <3> QED
      BY <3>1, <3>2, <1>3
  <2>3. \A h \in DOMAIN allocated' : /\ allocated'[h] \in DOMAIN peers'
                                     /\ peers'[allocated'[h]].ip = h
    BY <1>1, <1>3 DEF IInv, PoolConserved, Insert
  <2>4. \A i \in DOMAIN peers' : /\ peers'[i].ip \in DOMAIN allocated'
                                 /\ allocated'[peers'[i].ip] = i
    BY <1>1, <1>3, <1>4 DEF IInv, PoolConserved, Insert
  <2> QED
    BY <2>1, <2>2, <2>3, <2>4 DEF PoolConserved
<1> QED
  BY <1>7, <1>8, <1>9 DEF IInv

(* unregister of a registered peer preserves the invariant. *)
LEMMA UnregisterIInv ==
  ASSUME IInv, NEW p \in DOMAIN peers, Unregister(p)
  PROVE  IInv'
<1> DEFINE ip == peers[p].ip
           mac == peers[p].mac
           pushed == Append(available, ip)
<1>1. ip \in DOMAIN allocated /\ allocated[ip] = p /\ ip \in Hosts
  BY DEF IInv, PoolConserved, PeerTypeOK
<1>2. /\ pushed \in Seq(Hosts) /\ Len(available) \in Nat
      /\ DOMAIN available = 1 .. Len(available)
      /\ DOMAIN pushed = 1 .. Len(available) + 1
      /\ pushed[Len(available) + 1] = ip
      /\ \A k \in 1 .. Len(available) : pushed[k] = available[k]
  BY <1>1, PushStack DEF IInv, PeerTypeOK
<1>3. /\ peers' = Remove(peers, p)
      /\ macToPeer' = Remove(macToPeer, mac)
      /\ ipToPeer' = Remove(ipToPeer, ip)
      /\ allocated' = Remove(allocated, ip)
      /\ available' = pushed
      /\ nextId' = nextId
  BY <1>1 DEF Unregister, Release
<1>4. \A k \in DOMAIN available : available[k] # ip
  BY <1>1 DEF IInv, PoolConserved
<1>5. \A i \in DOMAIN peers : i # p => peers[i].ip # ip /\ peers[i].mac # mac
  BY DEF IInv, IndexesAgree
<1> HIDE DEF pushed
<1>6. PeerTypeOK'
  BY <1>2, <1>3 DEF IInv, PeerTypeOK, Remove
<1>7. IndexesAgree'
  BY <1>3, <1>5 DEF IInv, IndexesAgree, Remove
<1>8. PoolConserved'
  <2>1. \A j, k \in DOMAIN available' : available'[j] = available'[k] => j = k
    BY <1>2, <1>3, <1>4 DEF IInv, PoolConserved
  <2>2. \A h \in Hosts : (\E k \in DOMAIN available' : available'[k] = h)
                         <=> h \notin DOMAIN allocated'
    <3> SUFFICES ASSUME NEW h \in Hosts
                 PROVE  (\E k \in DOMAIN pushed : pushed[k] = h)
                        <=> (h = ip \/ h \notin DOMAIN allocated)
      BY <1>3 DEF Remove
    <3>1. ASSUME NEW k \in DOMAIN pushed, pushed[k] = h, h # ip
          PROVE  h \notin DOMAIN allocated
      <4>1. k \in DOMAIN available /\ available[k] = h
        BY <3>1, <1>2
      <4> QED
        BY <4>1 DEF IInv, PoolConserved
    <3>2. h = ip => \E k \in DOMAIN pushed : pushed[k] = h
      BY <1>2
    <3>3. ASSUME h \notin DOMAIN allocated
          PROVE  \E k \in DOMAIN pushed : pushed[k] = h
      <4>1. PICK k \in DOMAIN available : available[k] = h
        BY <3>3 DEF IInv, PoolConserved
      <4> QED
        BY <4>1, <1>2
    <3> QED
      BY <3>1, <3>2, <3>3
  <2>3. \A h \in DOMAIN allocated' : /\ allocated'[h] \in DOMAIN peers'
                                     /\ peers'[allocated'[h]].ip = h
    BY <1>3, <1>5 DEF IInv, PoolConserved, Remove
  <2>4. \A i \in DOMAIN peers' : /\ peers'[i].ip \in DOMAIN allocated'
                                 /\ allocated'[peers'[i].ip] = i
    BY <1>3, <1>5 DEF IInv, PoolConserved, Remove
  <2> QED
    BY <2>1, <2>2, <2>3, <2>4 DEF PoolConserved
<1> QED
  BY <1>6, <1>7, <1>8 DEF IInv

(* Every call of the peer table preserves the invariant. *)
LEMMA NextIInv == IInv /\ [PmNext]_pmVars => IInv'
<1> SUFFICES ASSUME IInv, [PmNext]_pmVars PROVE IInv'
  OBVIOUS
<1>1. ASSUME UNCHANGED pmVars PROVE IInv'
  BY <1>1 DEF IInv, PeerTypeOK, IndexesAgree, PoolConserved, pmVars
<1>2. ASSUME NEW m \in Macs, RegisterAgain(m) PROVE IInv'
  BY <1>1, <1>2 DEF RegisterAgain
<1>3. ASSUME NEW m \in Macs, RegisterNew(m) PROVE IInv'
  BY <1>3, RegisterNewIInv
<1>4. ASSUME NEW m \in Macs, RegisterFails(m) PROVE IInv'
  <2>1. UNCHANGED <<peers, macToPeer, ipToPeer, available, allocated>>
    BY <1>4 DEF RegisterFails
  <2>2. nextId' \in 1 .. MaxId + 1 /\ DOMAIN peers \subseteq 1 .. nextId' - 1
    BY <1>4, MaxIdAssumption DEF RegisterFails, IInv, PeerTypeOK
  <2>3. PeerTypeOK'
    BY <2>1, <2>2 DEF IInv, PeerTypeOK
  <2>4. IndexesAgree' /\ PoolConserved'
    BY <2>1 DEF IInv, IndexesAgree, PoolConserved
  <2> QED
    BY <2>3, <2>4 DEF IInv
<1>5. ASSUME NEW p \in Ids, Unregister(p) PROVE IInv'
  <2>1. CASE p \in DOMAIN peers
    BY <2>1, <1>5, UnregisterIInv
  <2>2. CASE p \notin DOMAIN peers
    BY <2>2, <1>1, <1>5 DEF Unregister
  <2> QED
    BY <2>1, <2>2
<1> QED
  BY <1>1, <1>2, <1>3, <1>4, <1>5 DEF PmNext

(* The invariant holds of every behaviour of the peer table. *)
THEOREM PeerManagerIInv == PmSpec => []IInv
  BY InitIInv, NextIInv, PTL DEF PmSpec

(* The MAC index and the address index describe the registered peers, and  *)
(* no two peers share a MAC or an address, whatever the order of register, *)
(* unregister and cleanup_expired.                                         *)
THEOREM PeerManagerIndexesAgree == PmSpec => []IndexesAgree
<1>1. IInv => IndexesAgree
  BY DEF IInv
<1> QED
  BY <1>1, PeerManagerIInv, PTL

(* IpPool never loses, doubles or shares an address. *)
THEOREM PeerManagerPoolConserved == PmSpec => []PoolConserved
<1>1. IInv => PoolConserved
  BY DEF IInv
<1> QED
  BY <1>1, PeerManagerIInv, PTL

-----------------------------------------------------------------------------
Labels == {"register", "add sender", "wait", "touch", "route", "send", "full",
           "unregister", "drop sender", "gone", "expire", "drop expired"}

HubType ==
  /\ pc \in [Tasks -> Labels]
  /\ id \in [Conns -> 0 .. nextId - 1]
  /\ \A i \in DOMAIN senders : i # 0 /\ senders[i] \in Conns
  /\ target \in [Tasks -> Nat]
  /\ expired \subseteq 1 .. nextId - 1
  /\ peersLock \in Tasks \cup {NoTask}
  /\ sendersRead \subseteq Tasks

(* The write lock of the table is held across an await only at these       *)
(* labels, the read lock of the senders only by a task that waits for      *)
(* room; the sender it waits for stays in the map.                         *)
LocksInv ==
  /\ \A t \in Tasks : peersLock = t <=> pc[t] \in {"add sender", "drop sender", "expire"}
  /\ \A t \in Tasks : t \in sendersRead <=> pc[t] = "full"
  /\ \A t \in Tasks : pc[t] = "full" => target[t] \in DOMAIN senders

(* What the labels say of the table. *)
LabelsInv ==
  /\ \A c \in Conns : /\ pc[c] = "register" => id[c] = 0
                      /\ pc[c] = "add sender" => id[c] \in DOMAIN peers
                      /\ pc[c] = "drop sender" => id[c] \notin DOMAIN peers
  /\ pc[Cleaner] = "drop expired" => expired \cap DOMAIN peers = {}

HubInv ==
  HubType /\ LocksInv /\ LabelsInv /\ RegisteredIsReachable /\ GoneIsForgotten


(* The labels at which a task holds no lock and that promise nothing. *)
Quiet == {"wait", "touch", "route", "send", "unregister"}

-----------------------------------------------------------------------------
(* Every step of the hub is a step of the peer table or leaves it alone.   *)
LEMMA HubUsesTable == IInv /\ [Next]_vars => [PmNext]_pmVars
<1> SUFFICES ASSUME IInv, [Next]_vars PROVE [PmNext]_pmVars
  OBVIOUS
<1>1. ASSUME NEW i, Unregister(i) PROVE [PmNext]_pmVars
  <2>1. CASE i \in DOMAIN peers
    <3>1. i \in Ids
      BY <2>1, MaxIdAssumption DEF IInv, PeerTypeOK, Ids
    <3> QED
      BY <1>1, <3>1 DEF PmNext
  <2>2. CASE i \notin DOMAIN peers
    BY <1>1, <2>2 DEF Unregister
  <2> QED
    BY <2>1, <2>2
<1>2. ASSUME NEW c \in Conns, ConnStep(c) PROVE [PmNext]_pmVars
  <2>1. ASSUME UnregisterPeer(c) PROVE [PmNext]_pmVars
    BY <1>1, <2>1, ZenonT(40) DEF UnregisterPeer
  <2>2. CASE ~UnregisterPeer(c)
    BY <1>2, <2>2, ZenonT(40) DEF ConnStep, AddSender, Touch, RouteFrame, SendToPeer, SendResumes,
                      Forward, DropSender
  <2> QED
    BY <2>1, <2>2
<1>3. ASSUME ProxyStep PROVE [PmNext]_pmVars
  BY <1>3 DEF ProxyStep, SendToPeer, SendResumes
<1>4. ASSUME CleanerStep PROVE [PmNext]_pmVars
  <2>1. ASSUME NEW i \in Ids, Expire(i) PROVE [PmNext]_pmVars
    BY <1>1, <2>1 DEF Expire
  <2> QED
    BY <1>4, <2>1 DEF CleanerStep, CleanupBegin, ExpireDone, DropExpired
<1>5. ASSUME Environment PROVE [PmNext]_pmVars
  <2>1. ASSUME NEW c \in Conns, NEW m \in Macs, RegisterPeer(c, m) PROVE [PmNext]_pmVars
    BY <2>1 DEF RegisterPeer, PmNext
  <2> QED
    BY <1>5, <2>1 DEF Environment, Datagram, GiveUp, Close, ProxyResponse, GoSilent
<1> QED
  BY <1>2, <1>3, <1>4, <1>5 DEF Next, vars

(* The table's invariant holds in the hub. *)
LEMMA HubTable == Spec => []IInv /\ [][PmNext]_pmVars
<1>1. Init => IInv
  BY InitIInv DEF Init
<1>2. IInv /\ [Next]_vars => IInv'
  BY HubUsesTable, NextIInv
<1> QED
  BY <1>1, <1>2, HubUsesTable, PTL DEF Spec

(* register_peer, unregister_peer and cleanup_expired_peers of the hub,    *)
(* interleaved in any way, use the peer table only through its operations: *)
(* the hub implements PeerManager.                                         *)
THEOREM HubUsesPeerTable == Spec => UsesPeerTable
<1>1. Init => PmInit
  BY DEF Init
<1>2. PmInit /\ [][PmNext]_pmVars => UsesPeerTable
  BY DEF UsesPeerTable, PmSpec
<1> QED
  BY <1>1, <1>2, HubTable, PTL DEF Spec

-----------------------------------------------------------------------------
(* The hub starts with empty maps and all locks free. *)
LEMMA InitHubInv == Init => HubInv
<1> SUFFICES ASSUME Init PROVE HubInv
  OBVIOUS
<1>1. HubType
  <2>1. nextId = 1 /\ DOMAIN senders = {} /\ id \in [Conns -> 0 .. nextId - 1]
    BY DEF Init, PmInit, Empty
  <2>2. pc \in [Tasks -> Labels] /\ target \in [Tasks -> Nat]
    BY DEF Init, Labels
  <2> QED
    BY <2>1, <2>2 DEF Init, HubType
<1>2. LocksInv
  BY TasksAssumption DEF Init, LocksInv, Tasks
<1>3. LabelsInv
  BY DEF Init, LabelsInv, Tasks
<1>4. RegisteredIsReachable /\ GoneIsForgotten
  BY DEF Init, PmInit, RegisteredIsReachable, GoneIsForgotten, Empty, Tasks
<1> QED
  BY <1>1, <1>2, <1>3, <1>4 DEF HubInv

(* A step between two quiet labels does not disturb the invariant. *)
LEMMA QuietStep ==
  ASSUME HubInv, NEW t \in Tasks, NEW l \in Quiet, pc[t] \in Quiet,
         pc' = [pc EXCEPT ![t] = l],
         target' \in [Tasks -> Nat], \A u \in Tasks \ {t} : target'[u] = target[u],
         UNCHANGED <<peers, nextId, senders, id, expired, peersLock, sendersRead>>
  PROVE  HubInv'
<1>1. HubType'
  <2>1. pc' \in [Tasks -> Labels]
    BY DEF HubInv, HubType, Quiet, Labels
  <2> QED
    BY <2>1 DEF HubInv, HubType
<1>2. /\ \A u \in Tasks : u # t => pc'[u] = pc[u]
      /\ pc'[t] = l
  BY DEF HubInv, HubType
<1>3. LocksInv'
  BY <1>2 DEF HubInv, LocksInv, Quiet
<1>4. LabelsInv'
  BY <1>2 DEF HubInv, LabelsInv, Quiet, Tasks
<1>5. RegisteredIsReachable'
  BY <1>2, ZenonT(40) DEF HubInv, RegisteredIsReachable, Quiet, Tasks
<1>6. GoneIsForgotten'
  BY <1>2 DEF HubInv, GoneIsForgotten, Quiet, Tasks
<1> QED
  BY <1>1, <1>3, <1>4, <1>5, <1>6 DEF HubInv

(* More identifiers have been handed out. *)
LEMMA RangeGrows ==
  ASSUME NEW a \in Nat, NEW b \in Nat, b >= a
  PROVE  0 .. a - 1 \subseteq 0 .. b - 1 /\ 1 .. a - 1 \subseteq 1 .. b - 1
  OBVIOUS

(* Identifiers start at 1. *)
LEMMA ZeroIsNoPeer == IInv => 0 \notin DOMAIN peers
<1> SUFFICES ASSUME IInv PROVE 0 \notin DOMAIN peers
  OBVIOUS
<1>1. DOMAIN peers \subseteq 1 .. nextId - 1 /\ nextId \in Nat
  BY MaxIdAssumption DEF IInv, PeerTypeOK
<1>2. 0 \notin 1 .. nextId - 1
  BY <1>1
<1> QED
  BY <1>1, <1>2

(* register_peer takes the lock of the table and promises a sender. *)
LEMMA RegisterHubInv ==
  ASSUME IInv, HubInv, NEW c \in Conns, NEW m \in Macs, RegisterPeer(c, m)
  PROVE  HubInv'
<1>1. /\ c \in Tasks /\ pc[c] = "register" /\ peersLock = NoTask /\ id[c] = 0
      /\ nextId \in Nat \ {0} /\ DOMAIN peers \subseteq 1 .. nextId - 1
      /\ UNCHANGED <<senders, sendersRead, target, expired>>
  <2>1. pc[c] = "register" /\ peersLock = NoTask
    BY DEF RegisterPeer, PeersFree
  <2>2. UNCHANGED <<senders, sendersRead, target, expired>>
    BY DEF RegisterPeer
  <2>3. nextId \in Nat \ {0} /\ DOMAIN peers \subseteq 1 .. nextId - 1
    BY MaxIdAssumption DEF IInv, PeerTypeOK
  <2> QED
    BY <2>1, <2>2, <2>3 DEF Tasks, HubInv, LabelsInv
<1>2. \A i \in DOMAIN senders : senders[i] # c /\ senders[i] \in Conns
  BY <1>1 DEF HubInv, HubType, RegisteredIsReachable
<1>3. CASE RegisterAgain(m) \/ RegisterNew(m)
  <2>1. /\ id' = [id EXCEPT ![c] = IdFor(m)] /\ peersLock' = c
        /\ pc' = [pc EXCEPT ![c] = "add sender"]
    BY <1>3 DEF RegisterPeer, RegisterAgain, RegisterNew, RegisterFails, Goto
  <2>2. /\ nextId' \in Nat /\ nextId' >= nextId /\ IdFor(m) \in 1 .. nextId' - 1
        /\ DOMAIN peers' = DOMAIN peers \cup {IdFor(m)}
        /\ IdFor(m) \in DOMAIN peers \/ IdFor(m) = nextId
    <3>1. CASE RegisterAgain(m)
      BY <1>1, <3>1 DEF RegisterAgain, IdFor, pmVars, FoundByMac
    <3>2. CASE RegisterNew(m)
      <4>1. /\ IdFor(m) = nextId /\ nextId' = nextId + 1
            /\ peers' = Insert(peers, nextId, [mac |-> m, ip |-> available[Len(available)]])
        BY <3>2 DEF RegisterNew, IdFor
      <4> QED
        BY <1>1, <4>1 DEF Insert
    <3> QED
      BY <1>3, <3>1, <3>2
  <2> DEFINE n == IdFor(m)
  <2> HIDE DEF n
  <2>3. /\ id' = [id EXCEPT ![c] = n] /\ n \in 1 .. nextId' - 1
        /\ DOMAIN peers' = DOMAIN peers \cup {n}
        /\ n \in DOMAIN peers \/ n = nextId
    BY <2>1, <2>2 DEF n
  <2>4. /\ id'[c] = n /\ pc'[c] = "add sender"
        /\ \A d \in Conns : d # c => id'[d] = id[d]
        /\ \A t \in Tasks : t # c => pc'[t] = pc[t]
    BY <2>1, <2>3 DEF HubInv, HubType, Tasks
  <2>5. /\ \A d \in Conns : id[d] # nextId
        /\ nextId \notin expired
        /\ 0 .. nextId - 1 \subseteq 0 .. nextId' - 1
        /\ 1 .. nextId - 1 \subseteq 1 .. nextId' - 1
    <3>1. nextId \in Nat /\ nextId' \in Nat /\ nextId' >= nextId
      BY <1>1, <2>2
    <3>2. /\ 0 .. nextId - 1 \subseteq 0 .. nextId' - 1
          /\ 1 .. nextId - 1 \subseteq 1 .. nextId' - 1
      BY <3>1, RangeGrows, Zenon
    <3>3. nextId \notin 0 .. nextId - 1 /\ nextId \notin 1 .. nextId - 1
      BY <3>1
    <3> QED
      BY <3>2, <3>3, Zenon DEF HubInv, HubType
  <2>6. HubType'
    <3>1. pc' \in [Tasks -> Labels]
      BY <2>1 DEF HubInv, HubType, Labels
    <3>2. id' \in [Conns -> 0 .. nextId' - 1]
      BY <2>3, <2>5 DEF HubInv, HubType
    <3>3. expired' \subseteq 1 .. nextId' - 1
      BY <1>1, <2>5 DEF HubInv, HubType
    <3> QED
      BY <1>1, <2>1, <3>1, <3>2, <3>3 DEF HubInv, HubType
  <2>7. LocksInv'
    BY TasksAssumption, <1>1, <2>1, <2>4 DEF HubInv, LocksInv, Tasks
  <2>8. LabelsInv'
    <3>1. \A d \in Conns : /\ pc'[d] = "register" => id'[d] = 0
                           /\ pc'[d] = "add sender" => id'[d] \in DOMAIN peers'
                           /\ pc'[d] = "drop sender" => id'[d] \notin DOMAIN peers'
      BY TasksAssumption, <1>1, <2>3, <2>4 DEF HubInv, LabelsInv, LocksInv, Tasks
    <3>2. pc'[Cleaner] = "drop expired" => expired' \cap DOMAIN peers' = {}
      BY <1>1, <2>3, <2>4, <2>5, ZenonT(40) DEF HubInv, LabelsInv, Tasks
    <3> QED
      BY <3>1, <3>2 DEF LabelsInv
  <2>9. RegisteredIsReachable'
    <3>1. \A i \in DOMAIN peers : i \in DOMAIN senders
      BY TasksAssumption, <1>1 DEF HubInv, RegisteredIsReachable, Tasks
    <3>2. \A i \in DOMAIN senders' : id'[senders'[i]] = i
      BY <1>1, <1>2, <2>4 DEF HubInv, RegisteredIsReachable
    <3> QED
      BY <1>1, <2>1, <2>3, <2>4, <3>1, <3>2 DEF RegisteredIsReachable
  <2>10. GoneIsForgotten'
    BY <1>1, <2>3, <2>4, <2>5, ZenonT(40) DEF HubInv, GoneIsForgotten, Tasks
  <2> QED
    BY <2>6, <2>7, <2>8, <2>9, <2>10 DEF HubInv
<1>4. CASE ~(RegisterAgain(m) \/ RegisterNew(m))
  <2>1. /\ UNCHANGED <<peers, id, peersLock>> /\ nextId' = nextId + 1
        /\ pc' = [pc EXCEPT ![c] = "gone"]
    BY <1>4 DEF RegisterPeer, RegisterFails, Goto
  <2>2. pc'[c] = "gone" /\ \A t \in Tasks : t # c => pc'[t] = pc[t]
    BY <1>1, <2>1 DEF HubInv, HubType
  <2>3. HubType'
    <3>1. pc' \in [Tasks -> Labels]
      BY <2>1 DEF HubInv, HubType, Labels
    <3>2. id' \in [Conns -> 0 .. nextId' - 1]
      BY <1>1, <2>1 DEF HubInv, HubType
    <3> QED
      BY <1>1, <2>1, <3>1, <3>2 DEF HubInv, HubType
  <2>4. LocksInv'
    BY <1>1, <2>1, <2>2 DEF HubInv, LocksInv
  <2>5. LabelsInv'
    BY <1>1, <2>1, <2>2 DEF HubInv, LabelsInv, Tasks
  <2>6. RegisteredIsReachable'
    BY TasksAssumption, <1>1, <2>1, <2>2, ZenonT(40) DEF HubInv, RegisteredIsReachable, Tasks
  <2>7. GoneIsForgotten'
    BY <1>1, <2>1, <2>2 DEF HubInv, GoneIsForgotten, Tasks, HubType
  <2> QED
    BY <2>3, <2>4, <2>5, <2>6, <2>7 DEF HubInv
<1> QED
  BY <1>3, <1>4

(* What unregister and the drop of the senders leave: an entry of a map is *)
(* removed, and the others stay.                                           *)
LEMMA UnregisterDomain ==
  ASSUME NEW i, Unregister(i)
  PROVE  DOMAIN peers' = DOMAIN peers \ {i} /\ nextId' = nextId
  BY DEF Unregister, Remove, pmVars

(* The rest of register_peer keeps the promise and frees the table. *)
LEMMA AddSenderHubInv ==
  ASSUME IInv, HubInv, NEW c \in Conns, AddSender(c)
  PROVE  HubInv'
<1>1. /\ c \in Tasks /\ pc[c] = "add sender" /\ sendersRead = {}
      /\ peersLock = c /\ peersLock' = NoTask /\ id[c] \in DOMAIN peers
      /\ UNCHANGED <<peers, nextId, sendersRead, id, target, expired>>
      /\ pc' = [pc EXCEPT ![c] = "wait"]
      /\ senders' = Insert(senders, id[c], c)
  <2>1. /\ pc[c] = "add sender" /\ sendersRead = {} /\ peersLock' = NoTask
        /\ pc' = [pc EXCEPT ![c] = "wait"] /\ senders' = Insert(senders, id[c], c)
        /\ UNCHANGED <<peers, nextId, sendersRead, id, target, expired>>
    BY DEF AddSender, SendersWritable, Loop, Goto, pmVars
  <2> QED
    BY <2>1, ZenonT(40) DEF HubInv, LocksInv, LabelsInv, Tasks
<1>2. pc'[c] = "wait" /\ \A t \in Tasks : t # c => pc'[t] = pc[t]
  BY <1>1 DEF HubInv, HubType
<1>3. /\ DOMAIN senders' = DOMAIN senders \cup {id[c]} /\ senders'[id[c]] = c
      /\ \A i \in DOMAIN senders : i # id[c] => senders'[i] = senders[i]
  BY <1>1 DEF Insert
<1>4. HubType'
  <2>1. pc' \in [Tasks -> Labels]
    BY <1>1 DEF HubInv, HubType, Labels
  <2>2. \A i \in DOMAIN senders' : senders'[i] \in Conns
    BY <1>3 DEF HubInv, HubType
  <2>3. \A i \in DOMAIN senders' : i # 0
    <3>1. id[c] # 0
      BY <1>1, ZeroIsNoPeer
    <3> QED
      BY <1>3, <3>1 DEF HubInv, HubType
  <2> QED
    BY <1>1, <2>1, <2>2, <2>3 DEF HubInv, HubType
<1>5. LocksInv'
  BY TasksAssumption, <1>1, <1>2 DEF HubInv, LocksInv, HubType, Tasks
<1>6. LabelsInv'
  BY <1>1, <1>2 DEF HubInv, LabelsInv, Tasks
<1>7. RegisteredIsReachable'
  BY <1>1, <1>2, <1>3 DEF HubInv, RegisteredIsReachable, HubType
<1>8. GoneIsForgotten'
  BY <1>1, <1>2, <1>3 DEF HubInv, GoneIsForgotten, Tasks
<1> QED
  BY <1>4, <1>5, <1>6, <1>7, <1>8 DEF HubInv

(* unregister_peer takes the lock and empties the table of the peer. *)
LEMMA UnregisterHubInv ==
  ASSUME HubInv, NEW c \in Conns, UnregisterPeer(c)
  PROVE  HubInv'
<1>1. /\ c \in Tasks /\ pc[c] = "unregister" /\ peersLock = NoTask /\ peersLock' = c
      /\ UNCHANGED <<senders, sendersRead, id, target, expired, nextId>>
      /\ pc' = [pc EXCEPT ![c] = "drop sender"]
      /\ DOMAIN peers' = DOMAIN peers \ {id[c]}
  BY UnregisterDomain DEF UnregisterPeer, PeersFree, Goto, Tasks
<1>2. pc'[c] = "drop sender" /\ \A t \in Tasks : t # c => pc'[t] = pc[t]
  BY <1>1 DEF HubInv, HubType
<1>3. HubType'
  <2>1. pc' \in [Tasks -> Labels]
    BY <1>1 DEF HubInv, HubType, Labels
  <2> QED
    BY <1>1, <2>1 DEF HubInv, HubType
<1>4. LocksInv'
  BY TasksAssumption, <1>1, <1>2 DEF HubInv, LocksInv, Tasks
<1>5. LabelsInv'
  BY TasksAssumption, <1>1, <1>2 DEF HubInv, LabelsInv, LocksInv, Tasks
<1>6. RegisteredIsReachable'
  BY TasksAssumption, <1>1, <1>2 DEF HubInv, RegisteredIsReachable, Tasks
<1>7. GoneIsForgotten'
  BY <1>1, <1>2 DEF HubInv, GoneIsForgotten, Tasks
<1> QED
  BY <1>3, <1>4, <1>5, <1>6, <1>7, Zenon DEF HubInv

(* The rest of unregister_peer takes the sender away as well. *)
LEMMA DropSenderHubInv ==
  ASSUME HubInv, NEW c \in Conns, DropSender(c)
  PROVE  HubInv'
<1> DEFINE l == IF job[c].kind = "disconnect" THEN "wait" ELSE "gone"
<1>1. /\ c \in Tasks /\ pc[c] = "drop sender" /\ sendersRead = {}
      /\ peersLock = c /\ peersLock' = NoTask /\ id[c] \notin DOMAIN peers
      /\ UNCHANGED <<peers, nextId, sendersRead, id, target, expired>>
      /\ pc' = [pc EXCEPT ![c] = l] /\ l \in {"wait", "gone"}
      /\ senders' = Remove(senders, id[c])
  <2>1. /\ pc[c] = "drop sender" /\ sendersRead = {} /\ peersLock' = NoTask
        /\ pc' = [pc EXCEPT ![c] = l] /\ senders' = Remove(senders, id[c])
        /\ UNCHANGED <<peers, nextId, sendersRead, id, target, expired>>
    BY DEF DropSender, SendersWritable, Goto, pmVars
  <2> QED
    BY <2>1, ZenonT(40) DEF HubInv, LocksInv, LabelsInv, Tasks
<1> HIDE DEF l
<1>2. pc'[c] = l /\ \A t \in Tasks : t # c => pc'[t] = pc[t]
  BY <1>1 DEF HubInv, HubType
<1>3. /\ DOMAIN senders' = DOMAIN senders \ {id[c]}
      /\ \A i \in DOMAIN senders' : senders'[i] = senders[i]
  BY <1>1 DEF Remove
<1>4. HubType'
  <2>1. pc' \in [Tasks -> Labels]
    BY <1>1 DEF HubInv, HubType, Labels
  <2> QED
    BY <1>1, <1>3, <2>1 DEF HubInv, HubType
<1>5. LocksInv'
  BY TasksAssumption, <1>1, <1>2 DEF HubInv, LocksInv, HubType, Tasks
<1>6. LabelsInv'
  BY <1>1, <1>2 DEF HubInv, LabelsInv, Tasks
<1>7. RegisteredIsReachable'
  BY <1>1, <1>2, <1>3, ZenonT(40) DEF HubInv, RegisteredIsReachable, HubType
<1>8. GoneIsForgotten'
  BY <1>1, <1>2, <1>3, ZenonT(40) DEF HubInv, GoneIsForgotten, Tasks
<1> QED
  BY <1>4, <1>5, <1>6, <1>7, <1>8 DEF HubInv

(* A connection that never registered ends. *)
LEMMA GiveUpHubInv ==
  ASSUME IInv, HubInv, NEW c \in Conns, GiveUp(c)
  PROVE  HubInv'
<1>1. /\ c \in Tasks /\ pc[c] = "register" /\ id[c] = 0
      /\ UNCHANGED <<peers, nextId, senders, peersLock, sendersRead, id, target, expired>>
      /\ pc' = [pc EXCEPT ![c] = "gone"]
  BY DEF GiveUp, Goto, Tasks, HubInv, LabelsInv, pmVars, locks
<1>2. pc'[c] = "gone" /\ \A t \in Tasks : t # c => pc'[t] = pc[t]
  BY <1>1 DEF HubInv, HubType
<1>3. HubType'
  <2>1. pc' \in [Tasks -> Labels]
    BY <1>1 DEF HubInv, HubType, Labels
  <2> QED
    BY <1>1, <2>1 DEF HubInv, HubType
<1>4. LocksInv'
  BY <1>1, <1>2 DEF HubInv, LocksInv
<1>5. LabelsInv'
  BY <1>1, <1>2 DEF HubInv, LabelsInv, Tasks
<1>6. RegisteredIsReachable'
  <2>1. \A i \in DOMAIN senders' : id'[senders'[i]] = i
    BY <1>1 DEF HubInv, RegisteredIsReachable
  <2>2. \A i \in DOMAIN peers' :
          i \in DOMAIN senders' \/ \E d \in Conns : /\ pc'[d] = "add sender"
                                                   /\ id'[d] = i /\ peersLock' = d
    <3> SUFFICES ASSUME NEW i \in DOMAIN peers, i \notin DOMAIN senders
                 PROVE  \E d \in Conns : pc'[d] = "add sender" /\ id[d] = i /\ peersLock = d
      BY <1>1
    <3>1. PICK d \in Conns : pc[d] = "add sender" /\ id[d] = i /\ peersLock = d
      BY DEF HubInv, RegisteredIsReachable
    <3>2. pc'[d] = "add sender"
      BY <1>1, <1>2, <3>1 DEF Tasks
    <3> QED
      BY <3>1, <3>2
  <2> QED
    BY <2>1, <2>2 DEF RegisteredIsReachable
<1>7. GoneIsForgotten'
  BY <1>1, <1>2, ZeroIsNoPeer DEF HubInv, GoneIsForgotten, Tasks, HubType
<1> QED
  BY <1>3, <1>4, <1>5, <1>6, <1>7 DEF HubInv

(* send_to_peer, and its end when there is room in the channel again. *)
LEMMA SendHubInv ==
  ASSUME HubInv, NEW t \in Tasks, SendToPeer(t) \/ SendResumes(t)
  PROVE  HubInv'
<1>1. UNCHANGED <<peers, nextId, senders, peersLock, id, target, expired>>
  BY DEF SendToPeer, SendResumes, pmVars
<1>2. \/ /\ pc[t] = "send" /\ pc' = [pc EXCEPT ![t] = "wait"] /\ UNCHANGED sendersRead
      \/ /\ pc[t] = "send" /\ pc' = [pc EXCEPT ![t] = "full"]
         /\ sendersRead' = sendersRead \cup {t} /\ target[t] \in DOMAIN senders
      \/ /\ pc[t] = "full" /\ pc' = [pc EXCEPT ![t] = "wait"]
         /\ sendersRead' = sendersRead \ {t}
  BY DEF SendToPeer, SendResumes, Loop, Goto
<1>3. PICK l \in {"wait", "full"} : pc' = [pc EXCEPT ![t] = l]
  BY <1>2
<1>4. pc'[t] = l /\ \A u \in Tasks : u # t => pc'[u] = pc[u]
  BY <1>3 DEF HubInv, HubType
<1>5. HubType'
  <2>1. pc' \in [Tasks -> Labels]
    BY <1>3 DEF HubInv, HubType, Labels
  <2> QED
    BY <1>1, <1>2, <2>1 DEF HubInv, HubType
<1>6. LocksInv'
  <2>1. \A u \in Tasks : peersLock' = u <=> pc'[u] \in {"add sender", "drop sender", "expire"}
    BY <1>1, <1>2, <1>4 DEF HubInv, LocksInv
  <2>2. \A u \in Tasks : u \in sendersRead' <=> pc'[u] = "full"
    BY <1>2, <1>4 DEF HubInv, LocksInv, HubType
  <2>3. \A u \in Tasks : pc'[u] = "full" => target'[u] \in DOMAIN senders'
    BY <1>1, <1>2, <1>4, ZenonT(40) DEF HubInv, LocksInv, HubType
  <2> QED
    BY <2>1, <2>2, <2>3 DEF LocksInv
<1>7. LabelsInv'
  BY <1>1, <1>2, <1>4 DEF HubInv, LabelsInv, Tasks
<1>8. RegisteredIsReachable'
  BY <1>1, <1>2, <1>4 DEF HubInv, RegisteredIsReachable, Tasks
<1>9. GoneIsForgotten'
  BY <1>1, <1>2, <1>4 DEF HubInv, GoneIsForgotten, Tasks
<1> QED
  BY <1>5, <1>6, <1>7, <1>8, <1>9 DEF HubInv

(* cleanup_expired under the lock of the table: one expired peer. *)
LEMMA ExpireHubInv ==
  ASSUME HubInv, NEW i, Expire(i)
  PROVE  HubInv'
<1>1. /\ Cleaner \in Tasks /\ pc[Cleaner] = "expire" /\ peersLock = Cleaner
      /\ UNCHANGED <<senders, sendersRead, peersLock, pc, id, target, expired, nextId>>
      /\ DOMAIN peers' = DOMAIN peers \ {i}
  <2>1. /\ pc[Cleaner] = "expire" /\ DOMAIN peers' = DOMAIN peers \ {i}
        /\ UNCHANGED <<senders, sendersRead, peersLock, pc, id, target, expired, nextId>>
    BY UnregisterDomain DEF Expire, locks
  <2> QED
    BY <2>1, ZenonT(40) DEF HubInv, LocksInv, Tasks
<1>2. HubType' /\ LocksInv'
  BY <1>1 DEF HubInv, HubType, LocksInv
<1>3. LabelsInv'
  BY <1>1, TasksAssumption, ZenonT(40) DEF HubInv, LabelsInv, LocksInv, Tasks
<1>4. RegisteredIsReachable' /\ GoneIsForgotten'
  BY <1>1 DEF HubInv, RegisteredIsReachable, GoneIsForgotten
<1> QED
  BY <1>2, <1>3, <1>4 DEF HubInv

(* The other steps of cleanup_expired_peers. *)
LEMMA CleanupHubInv ==
  ASSUME IInv, HubInv, CleanupBegin \/ ExpireDone \/ DropExpired
  PROVE  HubInv'
<1>1. Cleaner \in Tasks /\ Cleaner \notin Conns /\ NoTask \notin Tasks
  BY TasksAssumption DEF Tasks
<1>2. ASSUME NEW l \in Labels, pc' = [pc EXCEPT ![Cleaner] = l]
      PROVE  /\ pc' \in [Tasks -> Labels]
             /\ pc'[Cleaner] = l /\ \A t \in Tasks : t # Cleaner => pc'[t] = pc[t]
             /\ \A c \in Conns : c \in Tasks /\ pc'[c] = pc[c]
  BY <1>1, <1>2 DEF HubInv, HubType, Tasks
<1>3. CASE CleanupBegin
  <2>1. /\ pc[Cleaner] = "wait" /\ peersLock = NoTask /\ peersLock' = Cleaner
        /\ pc' = [pc EXCEPT ![Cleaner] = "expire"] /\ expired' \subseteq DOMAIN peers
        /\ UNCHANGED <<peers, nextId, senders, sendersRead, id, target>>
    BY <1>3 DEF CleanupBegin, PeersFree, Goto, pmVars
  <2>2. /\ pc' \in [Tasks -> Labels]
        /\ pc'[Cleaner] = "expire" /\ \A t \in Tasks : t # Cleaner => pc'[t] = pc[t]
        /\ \A c \in Conns : c \in Tasks /\ pc'[c] = pc[c]
    BY <1>2, <2>1 DEF Labels
  <2>3. HubType'
    BY <1>1, <2>1, <2>2 DEF HubInv, HubType, IInv, PeerTypeOK
  <2>4. LocksInv'
    BY <1>1, <2>1, <2>2 DEF HubInv, LocksInv
  <2>5. LabelsInv'
    BY <2>1, <2>2 DEF HubInv, LabelsInv
  <2>6. RegisteredIsReachable' /\ GoneIsForgotten'
    <3>1. \A i \in DOMAIN peers : i \in DOMAIN senders
      BY <1>1, <2>1, <2>2, ZenonT(40) DEF HubInv, RegisteredIsReachable
    <3>2. \A i \in DOMAIN senders' : id'[senders'[i]] = i
      BY <2>1 DEF HubInv, RegisteredIsReachable
    <3>3. GoneIsForgotten'
      BY <2>1, <2>2 DEF HubInv, GoneIsForgotten
    <3> QED
      BY <2>1, <3>1, <3>2, <3>3 DEF RegisteredIsReachable
  <2> QED
    BY <2>3, <2>4, <2>5, <2>6 DEF HubInv
<1>4. CASE ExpireDone
  <2>1. /\ pc[Cleaner] = "expire" /\ peersLock' = NoTask
        /\ expired \cap DOMAIN peers = {}
        /\ pc' = [pc EXCEPT ![Cleaner] = "drop expired"]
        /\ UNCHANGED <<peers, nextId, senders, sendersRead, id, target, expired>>
    BY <1>4 DEF ExpireDone, Goto, pmVars
  <2>2. /\ pc' \in [Tasks -> Labels]
        /\ pc'[Cleaner] = "drop expired" /\ \A t \in Tasks : t # Cleaner => pc'[t] = pc[t]
        /\ \A c \in Conns : c \in Tasks /\ pc'[c] = pc[c]
    BY <1>2, <2>1 DEF Labels
  <2>3. peersLock = Cleaner
    BY <1>1, <2>1 DEF HubInv, LocksInv
  <2>4. HubType'
    BY <1>1, <2>1, <2>2, ZenonT(40) DEF HubInv, HubType
  <2>5. LocksInv'
    BY <1>1, <2>1, <2>2, <2>3 DEF HubInv, LocksInv
  <2>6. LabelsInv'
    BY <2>1, <2>2 DEF HubInv, LabelsInv
  <2>7. RegisteredIsReachable' /\ GoneIsForgotten'
    BY <1>1, <2>1, <2>2, <2>3 DEF HubInv, RegisteredIsReachable, GoneIsForgotten
  <2> QED
    BY <2>4, <2>5, <2>6, <2>7 DEF HubInv
<1>5. CASE DropExpired
  <2>1. /\ pc[Cleaner] = "drop expired" /\ sendersRead = {} /\ expired' = {}
        /\ pc' = [pc EXCEPT ![Cleaner] = "wait"]
        /\ senders' = [i \in DOMAIN senders \ expired |-> senders[i]]
        /\ UNCHANGED <<peers, nextId, peersLock, sendersRead, id, target>>
    BY <1>5 DEF DropExpired, SendersWritable, Loop, Goto, pmVars, locks
  <2>2. /\ pc' \in [Tasks -> Labels]
        /\ pc'[Cleaner] = "wait" /\ \A t \in Tasks : t # Cleaner => pc'[t] = pc[t]
        /\ \A c \in Conns : c \in Tasks /\ pc'[c] = pc[c]
    BY <1>2, <2>1, ZenonT(40) DEF Labels
  <2>3. expired \cap DOMAIN peers = {}
    BY <2>1 DEF HubInv, LabelsInv
  <2>4. HubType'
    BY <1>1, <2>1, <2>2, ZenonT(40) DEF HubInv, HubType
  <2>5. LocksInv'
    BY <1>1, <2>1, <2>2 DEF HubInv, LocksInv
  <2>6. LabelsInv'
    BY <2>1, <2>2 DEF HubInv, LabelsInv
  <2>7. RegisteredIsReachable' /\ GoneIsForgotten'
    <3>1. /\ DOMAIN senders' = DOMAIN senders \ expired
          /\ \A i \in DOMAIN senders' : senders'[i] = senders[i]
      BY <2>1
    <3>2. \A i \in DOMAIN senders' : id'[senders'[i]] = i
      BY <2>1, <3>1 DEF HubInv, RegisteredIsReachable
    <3>3. \A i \in DOMAIN peers' :
            i \in DOMAIN senders' \/ \E c \in Conns : /\ pc'[c] = "add sender"
                                                     /\ id'[c] = i /\ peersLock' = c
      <4> SUFFICES ASSUME NEW i \in DOMAIN peers, i \notin DOMAIN senders
                   PROVE  \E c \in Conns : pc'[c] = "add sender" /\ id[c] = i /\ peersLock = c
        BY <2>1, <2>3, <3>1, ZenonT(40)
      <4>1. PICK c \in Conns : pc[c] = "add sender" /\ id[c] = i /\ peersLock = c
        BY DEF HubInv, RegisteredIsReachable
      <4> QED
        BY <2>2, <4>1
    <3>4. GoneIsForgotten'
      BY <2>1, <2>2, <3>1 DEF HubInv, GoneIsForgotten
    <3> QED
      BY <3>2, <3>3, <3>4 DEF RegisteredIsReachable
  <2> QED
    BY <2>4, <2>5, <2>6, <2>7 DEF HubInv
<1> QED
  BY <1>3, <1>4, <1>5

(* The steps of a task between the locks: where a datagram takes it. *)
LEMMA RouteHubInv ==
  ASSUME IInv, HubInv, NEW c \in Conns, RouteFrame(c)
  PROVE  HubInv'
<1>1. /\ c \in Tasks /\ pc[c] = "route"
      /\ UNCHANGED <<peers, nextId, senders, peersLock, sendersRead, id, expired>>
  BY DEF RouteFrame, Tasks, pmVars, locks
<1>2. ASSUME NEW i \in Nat, SendTo(c, i) PROVE HubInv'
  <2>1. target' \in [Tasks -> Nat] /\ \A u \in Tasks \ {c} : target'[u] = target[u]
    BY <1>2, Zenon DEF SendTo, HubInv, HubType
  <2>2. pc' = [pc EXCEPT ![c] = "send"]
    BY <1>2 DEF SendTo, Goto
  <2> QED
    BY <1>1, <2>1, <2>2, QuietStep, Zenon DEF Quiet
<1>3. ASSUME NEW l \in {"wait", "unregister"}, Goto(c, l), UNCHANGED target PROVE HubInv'
  <2>1. target' \in [Tasks -> Nat] /\ \A u \in Tasks \ {c} : target'[u] = target[u]
    BY <1>3 DEF HubInv, HubType
  <2>2. pc' = [pc EXCEPT ![c] = l] /\ l \in Quiet
    BY <1>3 DEF Goto, Quiet
  <2> QED
    BY <1>1, <2>1, <2>2, QuietStep, Zenon DEF Quiet
<1>4. ASSUME Loop(c), UNCHANGED target PROVE HubInv'
  BY <1>3, <1>4 DEF Loop
<1>5. id[c] \in Nat
  BY DEF HubInv, HubType
<1>6. ASSUME NEW i \in DOMAIN peers PROVE i \in Nat
  <2>1. nextId \in Nat /\ i \in 1 .. nextId - 1
    BY <1>6, MaxIdAssumption DEF IInv, PeerTypeOK
  <2> QED
    BY <2>1
<1>7. ASSUME RouteControl(c) PROVE HubInv'
  BY <1>2, <1>3, <1>4, <1>5, <1>7 DEF RouteControl
<1>8. ASSUME RouteAnswer(c) PROVE HubInv'
  BY <1>2, <1>4, <1>5, <1>8 DEF RouteAnswer
<1>9. ASSUME RouteByIp(c) PROVE HubInv'
  <2>1. CASE job[c].ip \in DOMAIN ipToPeer
    <3>1. ipToPeer[job[c].ip] \in Nat
      BY <1>6, <2>1 DEF IInv, IndexesAgree
    <3> QED
      BY <1>2, <1>4, <1>9, <2>1, <3>1 DEF RouteByIp
  <2>2. CASE job[c].ip \notin DOMAIN ipToPeer
    <3>1. UNCHANGED <<pc, target>>
      BY <1>9, <2>2 DEF RouteByIp
    <3> QED
      BY <1>1, <3>1, ZenonT(40) DEF HubInv, HubType, LocksInv, LabelsInv, RegisteredIsReachable,
                        GoneIsForgotten
  <2> QED
    BY <2>1, <2>2
<1>10. ASSUME RouteByMac(c) PROVE HubInv'
  BY <1>2, <1>4, <1>6, <1>10, Zenon DEF RouteByMac, FoundByMac
<1>11. ASSUME RouteBroadcast(c), UNCHANGED target PROVE HubInv'
  BY <1>4, <1>11 DEF RouteBroadcast
<1> QED
  BY <1>7, <1>8, <1>9, <1>10, <1>11 DEF RouteFrame

(* Datagrams, touch_peer and the end of the loop. *)
LEMMA LoopHubInv ==
  ASSUME HubInv, NEW c \in Conns, NEW d, Datagram(c, d) \/ Touch(c) \/ Close(c)
  PROVE  HubInv'
<1>1. UNCHANGED <<peers, nextId, senders, peersLock, sendersRead, id, expired, target>>
  BY DEF Datagram, Touch, Close, pmVars, locks
<1>2. c \in Tasks /\ pc[c] \in Quiet /\ \E l \in Quiet : pc' = [pc EXCEPT ![c] = l]
  BY DEF Datagram, Touch, Close, Goto, Quiet, Tasks
<1>3. target \in [Tasks -> Nat]
  BY DEF HubInv, HubType
<1> QED
  BY <1>1, <1>2, <1>3, QuietStep, Zenon

(* broadcast_response *)
LEMMA ProxyHubInv ==
  ASSUME IInv, HubInv, NEW m, ProxyResponse(m)
  PROVE  HubInv'
<1>1. UNCHANGED <<peers, nextId, senders, peersLock, sendersRead, id, expired>>
  BY DEF ProxyResponse, pmVars, locks
<1>2. CASE FoundByMac(m)
  <2>1. macToPeer[m] \in Nat
    <3>1. nextId \in Nat /\ macToPeer[m] \in 1 .. nextId - 1
      BY <1>2, MaxIdAssumption DEF IInv, PeerTypeOK, FoundByMac
    <3> QED
      BY <3>1
  <2>2. /\ Proxy \in Tasks /\ pc[Proxy] \in Quiet /\ "send" \in Quiet
        /\ pc' = [pc EXCEPT ![Proxy] = "send"]
        /\ target' = [target EXCEPT ![Proxy] = macToPeer[m]]
    BY <1>2 DEF ProxyResponse, SendTo, Goto, Quiet, Tasks
  <2>3. target' \in [Tasks -> Nat] /\ \A u \in Tasks \ {Proxy} : target'[u] = target[u]
    BY <2>1, <2>2 DEF HubInv, HubType
  <2> QED
    BY <1>1, <2>2, <2>3, QuietStep, Zenon
<1>3. CASE ~FoundByMac(m)
  <2>1. UNCHANGED <<pc, target>>
    BY <1>3 DEF ProxyResponse
  <2> QED
    BY <1>1, <2>1, ZenonT(40) DEF HubInv, HubType, LocksInv, LabelsInv, RegisteredIsReachable,
                      GoneIsForgotten
<1> QED
  BY <1>2, <1>3

-----------------------------------------------------------------------------
(* Every step of the hub preserves the invariant. *)
LEMMA NextHubInv == IInv /\ HubInv /\ [Next]_vars => HubInv'
<1> SUFFICES ASSUME IInv, HubInv, [Next]_vars PROVE HubInv'
  OBVIOUS
<1>1. ASSUME UNCHANGED <<peers, nextId, senders, peersLock, sendersRead, id, expired,
                         pc, target>>
      PROVE  HubInv'
  BY <1>1, ZenonT(40) DEF HubInv, HubType, LocksInv, LabelsInv, RegisteredIsReachable, GoneIsForgotten
<1>2. ASSUME NEW c \in Conns, ConnStep(c) PROVE HubInv'
  <2>1. c \in Tasks
    BY DEF Tasks
  <2>2. CASE Forward(c)
    BY <1>1, <2>2, Zenon DEF Forward, pmVars, locks
  <2> QED
    BY <1>2, <2>1, <2>2, AddSenderHubInv, LoopHubInv, RouteHubInv, SendHubInv,
       UnregisterHubInv, DropSenderHubInv DEF ConnStep
<1>3. ASSUME ProxyStep PROVE HubInv'
  BY <1>3, SendHubInv DEF ProxyStep, Tasks
<1>4. ASSUME CleanerStep PROVE HubInv'
  BY <1>4, CleanupHubInv, ExpireHubInv DEF CleanerStep
<1>5. ASSUME Environment PROVE HubInv'
  <2>1. ASSUME NEW i \in Ids, GoSilent(i) PROVE HubInv'
    BY <1>1, <2>1 DEF GoSilent, pmVars, locks
  <2> QED
    BY <1>5, <2>1, RegisterHubInv, LoopHubInv, GiveUpHubInv, ProxyHubInv DEF Environment
<1>6. ASSUME UNCHANGED vars PROVE HubInv'
  BY <1>1, <1>6 DEF vars, pmVars, locks
<1> QED
  BY <1>2, <1>3, <1>4, <1>5, <1>6 DEF Next

(* The invariant holds of every behaviour of the hub. *)
LEMMA HubInvariant == Spec => []HubInv
  BY InitHubInv, NextHubInv, HubTable, PTL DEF Spec

(* Whatever the tasks do, a registered peer has a sender once the table is *)
(* unlocked, and the sender leads to a connection with that identifier:    *)
(* the order of register_peer, unregister_peer, cleanup_expired_peers and  *)
(* send_to_peer over the two locks does not matter.                        *)
THEOREM HubRegisteredIsReachable == Spec => []RegisteredIsReachable
<1>1. HubInv => RegisteredIsReachable
  BY DEF HubInv
<1> QED
  BY <1>1, HubInvariant, PTL

(* The task of a connection that ends leaves neither an entry in the peer  *)
(* table nor a sender, although others register and expire meanwhile.      *)
THEOREM HubGoneIsForgotten == Spec => []GoneIsForgotten
<1>1. HubInv => GoneIsForgotten
  BY DEF HubInv
<1> QED
  BY <1>1, HubInvariant, PTL
=============================================================================
