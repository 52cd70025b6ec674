-------------------------------- MODULE Hub --------------------------------
(***************************************************************************)
(* The relay's hub (relay/src/hub.rs) and the tasks around it              *)
(* (relay/src/main.rs): one task per WebTransport connection, the cleanup  *)
(* task and the task that forwards the proxy's answers.  They share the    *)
(* peer table (PeerManager, behind one RwLock) and the map of senders      *)
(* (behind another); every connection has a bounded channel which only its *)
(* own task drains.                                                        *)
(*                                                                         *)
(* A step ends where a task awaits something it may have to wait for: a    *)
(* lock or room in a channel.  The locks are tokio's: a reader waits when  *)
(* a writer waits.  Frames carry only what routing looks at.               *)
(***************************************************************************)
EXTENDS PeerManager

CONSTANTS Conns,      \* connections; each is used once
          Cleaner,    \* the cleanup task
          Proxy,      \* the tasks that forward the proxy's answers
          NoTask,
          Capacity,   \* the capacity of a connection's channel (256)
          Datagrams,  \* the datagrams clients send
          MaxFrames,  \* bound on datagrams and proxy answers
          Silences    \* whether a peer may be silent for heartbeat_timeout

Tasks == Conns \cup {Cleaner, Proxy}

(* What a connection's task does with a datagram depends on its kind and,  *)
(* for Ethernet frames, on the destination address and MAC.                *)
Kinds == {"heartbeat", "disconnect", "ignored", "gateway", "external",
          "ip", "mac", "broadcast"}

ASSUME TasksAssumption ==
  /\ Cleaner \notin Conns /\ Proxy \notin Conns /\ Cleaner # Proxy
  /\ NoTask \notin Tasks
ASSUME CapacityAssumption == Capacity \in Nat \ {0}
ASSUME MaxFramesAssumption == MaxFrames \in Nat
ASSUME SilencesAssumption == Silences \in BOOLEAN
ASSUME DatagramsAssumption == \A d \in Datagrams : d.kind \in Kinds

VARIABLES
  idle,         \* peers whose last_seen is older than heartbeat_timeout
  senders,      \* peer_senders: peer -> connection at the channel's end
  peersLock,    \* the task holding peers.write() across an await
  sendersRead,  \* the tasks holding peer_senders.read() across an await
  pc,           \* where each task is
  id,           \* peer_id of a connection, 0 before registration
  job,          \* the datagram a task works on
  target,       \* send_to_peer's peer_id
  chan,         \* rx of each connection
  bcast,        \* broadcast_rx of each connection
  expired,      \* the cleanup task's list
  frames        \* ghost: datagrams and answers so far

locks == <<peersLock, sendersRead>>
queuesVars == <<chan, bcast>>
vars == <<pmVars, idle, senders, locks, pc, id, job, target, queuesVars, expired, frames>>

Nothing == [kind |-> "ignored"]

Init ==
  /\ PmInit
  /\ idle = {} /\ senders = Empty
  /\ peersLock = NoTask /\ sendersRead = {}
  /\ pc = [t \in Tasks |-> IF t \in Conns THEN "register" ELSE "wait"]
  /\ id = [c \in Conns |-> 0]
  /\ job = [t \in Tasks |-> Nothing]
  /\ target = [t \in Tasks |-> 0]
  /\ chan = [c \in Conns |-> <<>>] /\ bcast = [c \in Conns |-> <<>>]
  /\ expired = {} /\ frames = 0

Goto(t, l) == pc' = [pc EXCEPT ![t] = l]

(* The task waits for the select! of its loop. *)
Loop(t) == Goto(t, "wait")

(* peers.read() or peers.write() can be had; so can peer_senders.read(),   *)
(* when no task waits to write, and peer_senders.write().                  *)
PeersFree == peersLock = NoTask
SendersReadable ==
  \A t \in Tasks : pc[t] \notin {"add sender", "drop sender", "drop expired"}
SendersWritable == sendersRead = {}

-----------------------------------------------------------------------------
(* handle_connection: registration *)

(* register_peer up to peer_senders.write(), which it awaits with the peer *)
(* table locked; "IP pool exhausted" ends the connection.                  *)
RegisterPeer(c, m) ==
  /\ pc[c] = "register" /\ PeersFree
  /\ \/ /\ RegisterAgain(m) \/ RegisterNew(m)
        /\ id' = [id EXCEPT ![c] = IdFor(m)]
        /\ peersLock' = c
        /\ Goto(c, "add sender")
     \/ /\ RegisterFails(m)
        /\ Goto(c, "gone")
        /\ UNCHANGED <<id, peersLock>>
  /\ UNCHANGED <<idle, senders, sendersRead, job, target, queuesVars, expired, frames>>

(* The rest of register_peer, and subscribe(). *)
AddSender(c) ==
  /\ pc[c] = "add sender" /\ SendersWritable
  /\ senders' = Insert(senders, id[c], c)
  /\ chan' = [chan EXCEPT ![c] = Append(@, "assigned")]
  /\ peersLock' = NoTask
  /\ Loop(c)
  /\ UNCHANGED <<pmVars, idle, sendersRead, id, job, target, bcast, expired, frames>>

(* Registration timeout, or the connection closes before. *)
GiveUp(c) ==
  /\ pc[c] = "register" /\ Goto(c, "gone")
  /\ UNCHANGED <<pmVars, idle, senders, locks, id, job, target, queuesVars, expired, frames>>

-----------------------------------------------------------------------------
(* handle_connection: the main loop *)

Datagram(c, d) ==
  /\ pc[c] = "wait" /\ frames < MaxFrames
  /\ frames' = frames + 1
  /\ job' = [job EXCEPT ![c] = d]
  /\ Goto(c, "touch")
  /\ UNCHANGED <<pmVars, idle, senders, locks, id, target, queuesVars, expired>>

(* touch_peer *)
Touch(c) ==
  /\ pc[c] = "touch" /\ PeersFree
  /\ idle' = idle \ {id[c]}
  /\ Goto(c, "route")
  /\ UNCHANGED <<pmVars, senders, locks, id, job, target, queuesVars, expired, frames>>

(* send_to_peer is called next. *)
SendTo(t, i) == target' = [target EXCEPT ![t] = i] /\ Goto(t, "send")

(* The frames route_data_frame answers itself or hands to the proxy, whose *)
(* answer, if it has one at once, goes back to the sender.                 *)
RouteAnswer(c) ==
  \/ /\ job[c].kind = "gateway"
     /\ SendTo(c, id[c])
  \/ /\ job[c].kind = "external" /\ PeersFree
     /\ SendTo(c, id[c]) \/ (Loop(c) /\ UNCHANGED target)

(* By address: an unknown address leaves the decision to the MAC. *)
RouteByIp(c) ==
  /\ job[c].kind = "ip" /\ PeersFree
  /\ IF job[c].ip \in DOMAIN ipToPeer
       THEN /\ IF ipToPeer[job[c].ip] # id[c]
                 THEN SendTo(c, ipToPeer[job[c].ip])
                 ELSE Loop(c) /\ UNCHANGED target
            /\ UNCHANGED job
       ELSE /\ job' = [job EXCEPT ![c] = [kind |-> "mac", mac |-> job[c].mac]]
            /\ UNCHANGED <<pc, target>>

(* By MAC: find_by_mac. *)
RouteByMac(t) ==
  /\ job[t].kind = "mac" /\ PeersFree
  /\ IF FoundByMac(job[t].mac)
       THEN SendTo(t, macToPeer[job[t].mac])
       ELSE Loop(t) /\ UNCHANGED target

(* broadcast_tx.send *)
Subscribed(c) == pc[c] \notin {"register", "add sender", "gone"}
RouteBroadcast(c) ==
  /\ job[c].kind = "broadcast"
  /\ bcast' = [x \in Conns |-> IF Subscribed(x) THEN Append(bcast[x], id[c]) ELSE bcast[x]]
  /\ Loop(c)

(* handle_control_message *)
RouteControl(c) ==
  \/ /\ job[c].kind = "heartbeat" /\ PeersFree
     /\ idle' = idle \ {id[c]}
     /\ SendTo(c, id[c])
  \/ /\ job[c].kind = "disconnect"
     /\ Goto(c, "unregister") /\ UNCHANGED <<idle, target>>
  \/ /\ job[c].kind = "ignored"
     /\ Loop(c) /\ UNCHANGED <<idle, target>>

(* route_frame *)
RouteFrame(c) ==
  /\ pc[c] = "route"
  /\ \/ RouteControl(c) /\ UNCHANGED <<job, bcast>>
     \/ RouteAnswer(c) /\ UNCHANGED <<job, bcast, idle>>
     \/ RouteByIp(c) /\ UNCHANGED <<bcast, idle>>
     \/ RouteByMac(c) /\ UNCHANGED <<job, bcast, idle>>
     \/ RouteBroadcast(c) /\ UNCHANGED <<job, target, idle>>
  /\ UNCHANGED <<pmVars, senders, locks, id, chan, expired, frames>>

(* The message that goes into the channel. *)
Message(t) == IF job[t].kind = "heartbeat" THEN "ack" ELSE "frame"

(* send_to_peer: a sender whose receiver is gone fails at once, one whose  *)
(* channel is full waits with peer_senders.read() held.                    *)
SendToPeer(t) ==
  /\ pc[t] = "send" /\ SendersReadable
  /\ LET reach == target[t] \in DOMAIN senders
         c == senders[target[t]]
     IN  IF ~reach \/ pc[c] = "gone"
           THEN Loop(t) /\ UNCHANGED <<chan, sendersRead>>
           ELSE IF Len(chan[c]) < Capacity
             THEN /\ chan' = [chan EXCEPT ![c] = Append(@, Message(t))]
                  /\ Loop(t) /\ UNCHANGED sendersRead
             ELSE /\ sendersRead' = sendersRead \cup {t}
                  /\ Goto(t, "full") /\ UNCHANGED chan
  /\ UNCHANGED <<pmVars, idle, senders, peersLock, id, job, target, bcast, expired, frames>>

(* There is room again. *)
SendResumes(t) ==
  /\ pc[t] = "full"
  /\ LET c == senders[target[t]]
     IN  /\ Len(chan[c]) < Capacity
         /\ chan' = [chan EXCEPT ![c] = Append(@, Message(t))]
  /\ sendersRead' = sendersRead \ {t}
  /\ Loop(t)
  /\ UNCHANGED <<pmVars, idle, senders, peersLock, id, job, target, bcast, expired, frames>>

(* rx.recv() and broadcast_rx.recv(), and send_datagram to the client. *)
Forward(c) ==
  /\ pc[c] = "wait"
  /\ \/ /\ chan[c] # <<>> /\ chan' = [chan EXCEPT ![c] = Tail(@)]
        /\ UNCHANGED bcast
     \/ /\ bcast[c] # <<>> /\ bcast' = [bcast EXCEPT ![c] = Tail(@)]
        /\ UNCHANGED chan
  /\ UNCHANGED <<pmVars, idle, senders, locks, pc, id, job, target, expired, frames>>

(* receive_datagram or send_datagram fails: the loop ends. *)
Close(c) ==
  /\ pc[c] = "wait" /\ id[c] # 0
  /\ job' = [job EXCEPT ![c] = Nothing]
  /\ Goto(c, "unregister")
  /\ UNCHANGED <<pmVars, idle, senders, locks, id, target, queuesVars, expired, frames>>

(* unregister_peer up to peer_senders.write(). *)
UnregisterPeer(c) ==
  /\ pc[c] = "unregister" /\ PeersFree
  /\ Unregister(id[c])
  /\ peersLock' = c
  /\ Goto(c, "drop sender")
  /\ UNCHANGED <<idle, senders, sendersRead, id, job, target, queuesVars, expired, frames>>

(* Mutant: only the peer table forgets the peer. *)
KeepSender(c) ==
  /\ pc[c] = "drop sender" /\ SendersWritable
  /\ peersLock' = NoTask
  /\ Goto(c, IF job[c].kind = "disconnect" THEN "wait" ELSE "gone")
  /\ UNCHANGED <<pmVars, idle, senders, sendersRead, id, job, target, queuesVars, expired, frames>>

(* The rest of unregister_peer; after a Disconnect message the loop goes   *)
(* on, otherwise the task ends.                                            *)
DropSender(c) ==
  /\ pc[c] = "drop sender" /\ SendersWritable
  /\ senders' = Remove(senders, id[c])
  /\ peersLock' = NoTask
  /\ Goto(c, IF job[c].kind = "disconnect" THEN "wait" ELSE "gone")
  /\ UNCHANGED <<pmVars, idle, sendersRead, id, job, target, queuesVars, expired, frames>>

-----------------------------------------------------------------------------
(* The proxy's answers: broadcast_response *)
ProxyResponse(m) ==
  /\ pc[Proxy] = "wait" /\ PeersFree /\ frames < MaxFrames
  /\ frames' = frames + 1
  /\ job' = [job EXCEPT ![Proxy] = [kind |-> "mac", mac |-> m]]
  /\ IF FoundByMac(m)
       THEN SendTo(Proxy, macToPeer[m])
       ELSE UNCHANGED <<pc, target>>
  /\ UNCHANGED <<pmVars, idle, senders, locks, id, queuesVars, expired>>

(* heartbeat_timeout (two minutes) passes without a datagram of the peer:  *)
(* no task has one of its datagrams at hand.                               *)
GoSilent(i) ==
  /\ Silences /\ i \in DOMAIN peers \ idle
  /\ \A c \in Conns : id[c] = i => pc[c] \notin {"touch", "route"}
  /\ idle' = idle \cup {i}
  /\ UNCHANGED <<pmVars, senders, locks, pc, id, job, target, queuesVars, expired, frames>>

(* cleanup_expired_peers: cleanup_expired under peers.write() ... *)
CleanupBegin ==
  /\ pc[Cleaner] = "wait" /\ PeersFree
  /\ expired' = idle \cap DOMAIN peers
  /\ peersLock' = Cleaner
  /\ Goto(Cleaner, "expire")
  /\ UNCHANGED <<pmVars, idle, senders, sendersRead, id, job, target, queuesVars, frames>>

(* Mutant: an expired peer is only taken out of the map of peers. *)
ExpirePartly(i) ==
  /\ pc[Cleaner] = "expire" /\ i \in expired \cap DOMAIN peers
  /\ peers' = Remove(peers, i)
  /\ UNCHANGED <<macToPeer, ipToPeer, available, allocated, nextId>>
  /\ UNCHANGED <<idle, senders, locks, pc, id, job, target, queuesVars, expired, frames>>

(* Mutant: the loop over the expired peers never gets on. *)
ExpireNothing(i) ==
  /\ pc[Cleaner] = "expire" /\ i \in expired \cap DOMAIN peers
  /\ UNCHANGED vars

(* ... one peer after the other ... *)
Expire(i) ==
  /\ pc[Cleaner] = "expire" /\ i \in expired \cap DOMAIN peers
  /\ Unregister(i)
  /\ UNCHANGED <<idle, senders, locks, pc, id, job, target, queuesVars, expired, frames>>

ExpireDone ==
  /\ pc[Cleaner] = "expire" /\ expired \cap DOMAIN peers = {}
  /\ peersLock' = NoTask
  /\ Goto(Cleaner, "drop expired")
  /\ UNCHANGED <<pmVars, idle, senders, sendersRead, id, job, target, queuesVars, expired, frames>>

(* Mutant: the senders are dropped for the peers idle by now. *)
DropIdle ==
  /\ pc[Cleaner] = "drop expired" /\ SendersWritable
  /\ senders' = [i \in DOMAIN senders \ idle |-> senders[i]]
  /\ expired' = {}
  /\ Loop(Cleaner)
  /\ UNCHANGED <<pmVars, idle, locks, id, job, target, queuesVars, frames>>

(* ... and then, with the peer table unlocked, peer_senders.write(). *)
DropExpired ==
  /\ pc[Cleaner] = "drop expired" /\ SendersWritable
  /\ senders' = [i \in DOMAIN senders \ expired |-> senders[i]]
  /\ expired' = {}
  /\ Loop(Cleaner)
  /\ UNCHANGED <<pmVars, idle, locks, id, job, target, queuesVars, frames>>

-----------------------------------------------------------------------------
(* What a task does by itself, and what clients, the network and time do. *)
ConnStep(c) ==
  \/ AddSender(c) \/ Touch(c) \/ RouteFrame(c) \/ SendToPeer(c)
  \/ SendResumes(c) \/ Forward(c) \/ UnregisterPeer(c) \/ DropSender(c)
ProxyStep == SendToPeer(Proxy) \/ SendResumes(Proxy)
CleanerStep ==
  CleanupBegin \/ (\E i \in Ids : Expire(i)) \/ ExpireDone \/ DropExpired
Environment ==
  \/ \E c \in Conns : \/ \E m \in Macs : RegisterPeer(c, m)
                      \/ \E d \in Datagrams : Datagram(c, d)
                      \/ GiveUp(c) \/ Close(c)
  \/ \E m \in Macs : ProxyResponse(m)
  \/ \E i \in Ids : GoSilent(i)

Next == (\E c \in Conns : ConnStep(c)) \/ ProxyStep \/ CleanerStep \/ Environment

Spec == Init /\ [][Next]_vars

(* Tokio polls every task that is ready, and its locks are first come,     *)
(* first served: no task that can go on is left out for ever.              *)
Fairness ==
  /\ \A c \in Conns : SF_vars(ConnStep(c))
  /\ SF_vars(ProxyStep) /\ SF_vars(CleanerStep)
FairSpec == Spec /\ Fairness

-----------------------------------------------------------------------------

(* The interleaved tasks use the peer table only through its operations,   *)
(* under its lock: the hub implements PeerManager (register_peer,          *)
(* unregister_peer and cleanup_expired_peers of hub.rs), so what is proved *)
(* of PeerManager holds of the table in the hub.                           *)
UsesPeerTable == PmSpec

(* Every registered peer has a sender, except while the task that          *)
(* registers it still has the table locked, and a sender is the channel of *)
(* a connection that holds that peer, so that no frame goes to another:    *)
(* the two maps are changed under different locks, and send_to_peer looks  *)
(* the sender up after the table was unlocked.                             *)
RegisteredIsReachable ==
  /\ \A i \in DOMAIN senders : id[senders[i]] = i
  /\ \A i \in DOMAIN peers :
       i \in DOMAIN senders \/ \E c \in Conns : /\ pc[c] = "add sender"
                                               /\ id[c] = i /\ peersLock = c

(* When a connection's task has ended, no trace of its peer is left, and   *)
(* its address is free again: neither the table nor the senders keep it    *)
(* (cleanup at the end of handle_connection racing cleanup_expired_peers   *)
(* and a reconnect).                                                       *)
GoneIsForgotten ==
  \A c \in Conns : pc[c] = "gone" => id[c] \notin DOMAIN peers \cup DOMAIN senders

(* A connection that ends is unregistered, whatever the other tasks do;    *)
(* all that can stop it is a send_to_peer that waits for room in a channel *)
(* (unregister_peer needs both locks).                                     *)
ClosedIsUnregistered ==
  \A c \in Conns :
    pc[c] = "unregister" ~>
      (pc[c] \in {"wait", "gone"} \/ \E t \in Tasks : pc[t] = "full")

(* A heartbeat is handled to the end: the task that took it comes back to  *)
(* its loop (hub.rs, "Send heartbeat ack").                                *)
HeartbeatHandled ==
  \A c \in Conns :
    (pc[c] = "touch" /\ job[c].kind = "heartbeat") ~> (pc[c] = "wait")
-----------------------------------------------------------------------------
(* The checked instances: pools and sets of datagrams. *)
OneHost == <<10>>
TwoHosts == <<10, 11>>

Control == {[kind |-> "heartbeat"], [kind |-> "disconnect"], [kind |-> "ignored"]}
Heartbeats == {[kind |-> "heartbeat"]}

(* Frames for a peer's address or its MAC, for the gateway and beyond it. *)
ByIp == {[kind |-> "ip", ip |-> h, mac |-> m] : h \in Hosts, m \in Macs}
ByMac == {[kind |-> "mac", mac |-> m] : m \in Macs}
Answered == {[kind |-> "gateway"], [kind |-> "external"]}

AllDatagrams == Control \cup ByIp \cup ByMac \cup Answered \cup {[kind |-> "broadcast"]}
=============================================================================
