------------------------------- MODULE Proxy -------------------------------
(***************************************************************************)
(* The relay's proxy (relay/src/proxy.rs) for the traffic that leaves the  *)
(* virtual network.  A TCP connection of a VM ends at the relay and is     *)
(* carried on over a socket of the host, by one task for each.  The UDP    *)
(* datagrams of all VMs leave by one socket; an answer is given to a       *)
(* session found by the address it comes from.  An echo request makes the  *)
(* handler of the VM await a ping command.  Sessions of both kinds expire, *)
(* when the next UDP datagram comes in.                                    *)
(*                                                                         *)
(* The frames of one VM are handled one after the other by the task of its *)
(* link to the relay, which awaits the connect.  They come as datagrams,   *)
(* so any segment of what a VM sent may arrive early, late or again.  A    *)
(* byte is the VM's stream and its position in it; a sequence number is    *)
(* below SeqSpace.  What a handler returns at once goes back to the VM and *)
(* is not read again: SYN-ACK, RST and FIN-ACK, and an ACK of serverAck.   *)
(***************************************************************************)
EXTENDS Integers, Sequences, SequencesExt, FiniteSets

CONSTANTS
  TcpKeys,      \* addresses and ports of connections (TcpKey)
  SeqSpace,     \* 2^32
  VmIss,        \* the initial sequence number of each stream of the VMs
  ServerIss,    \* the clock's, at a connect
  QueueLen,     \* the channel of a connection's task (64)
  ResponseLen,  \* the channel of the answers (256)
  MaxPayload,   \* MAX_TCP_PAYLOAD (1000)
  UpLen,        \* bound on the bytes a VM sends on a stream
  DownLen,      \* bound on the bytes a server sends
  MaxStreams,   \* bound on the streams the VMs open
  MaxConns,     \* bound on the connections to servers
  NoKey

Conns == 1 .. MaxConns

ASSUME SeqSpaceAssumption == SeqSpace \in Nat /\ SeqSpace % 4 = 0 /\ SeqSpace > 4 * UpLen
ASSUME PayloadAssumption == MaxPayload \in Nat \ {0}

VARIABLES
  sessions,    \* tcp_sessions: key -> session
  tcpOld,      \* the keys whose last_activity is session_timeout ago
  connecting,  \* the key whose connect the VM's handler awaits
  tasks,       \* tcp_connection_task: connection -> task
  responses,   \* tcp_response channel
  stream,      \* ghost: the VM's stream on each key, 0 before the first
  streams,     \* ghost: streams opened so far
  conns,       \* ghost: connections made so far
  written,     \* ghost: what each task wrote to its server
  gap,         \* ghost: a segment arrived whose predecessor did not
  refused,     \* ghost: try_send failed
  handed       \* ghost: bytes of a server given to the VM

vmSide == <<stream, streams>>
ghosts == <<written, gap, refused, handed>>
tcpVars == <<sessions, tcpOld, connecting, tasks, responses, stream, streams, conns,
             written, gap, refused, handed>>

Add(a, b) == (a + b) % SeqSpace
(* a.wrapping_sub(b) as i32 *)
Diff(a, b) == LET d == (a - b) % SeqSpace
              IN  IF d < SeqSpace \div 2 THEN d ELSE d - SeqSpace
(* 1 << 30 *)
Quarter == SeqSpace \div 4

NoSession == [conn |-> 0, stream |-> 0, state |-> "none", serverSeq |-> 0, serverAck |-> 0]
Live(k) == sessions[k].conn # 0

NoTask == [state |-> "none", key |-> NoKey, rx |-> <<>>, seq |-> 0, ack |-> 0,
           data |-> <<>>, read |-> 0]

(* build_tcp_packet; the addresses are the key's. *)
BuildTcpPacket(k, seq, ack, flags, payload) ==
  [key |-> k, seq |-> seq, ack |-> ack, flags |-> flags, payload |-> payload]

TcpInit ==
  /\ sessions = [k \in TcpKeys |-> NoSession] /\ tcpOld = {}
  /\ connecting = NoKey
  /\ tasks = [c \in Conns |-> NoTask]
  /\ responses = <<>>
  /\ stream = [k \in TcpKeys |-> 0] /\ streams = 0 /\ conns = 0
  /\ written = [c \in Conns |-> <<>>]
  /\ gap = [c \in Conns |-> FALSE] /\ refused = [c \in Conns |-> FALSE]
  /\ handed = [c \in Conns |-> 0]

(* The task of the VM's link is at its select!. *)
Ready == connecting = NoKey

(* The sequence number of a byte of the stream the VM has on a key; the    *)
(* SYN takes the one before the first byte's.                              *)
VmSeq(k, pos) == Add(VmIss[stream[k]], pos)

-----------------------------------------------------------------------------
(* handle_tcp: SYN *)

(* The VM opens a stream, on a port it may have used before. *)
VmOpens(k) ==
  /\ Ready /\ streams < MaxStreams
  /\ streams' = streams + 1
  /\ stream' = [stream EXCEPT ![k] = streams + 1]
  /\ UNCHANGED <<sessions, tcpOld, connecting, tasks, responses, conns, ghosts>>

(* A SYN: for a known key the SYN-ACK is sent again, otherwise the handler *)
(* awaits a connect.                                                       *)
SynArrives(k) ==
  /\ Ready /\ stream[k] # 0
  /\ connecting' = IF Live(k) THEN NoKey ELSE k
  /\ UNCHANGED <<sessions, tcpOld, tasks, responses, vmSide, conns, ghosts>>

(* handle_tcp_syn, when the connect succeeds: the task starts. *)
ConnectSucceeds(k) ==
  /\ connecting = k /\ conns < MaxConns
  /\ conns' = conns + 1
  /\ sessions' = [sessions EXCEPT ![k] =
       [conn |-> conns', stream |-> stream[k], state |-> "SynSent",
        serverSeq |-> ServerIss, serverAck |-> VmSeq(k, 1)]]
  /\ tasks' = [tasks EXCEPT ![conns'] =
       [state |-> "select", key |-> k, rx |-> <<>>, seq |-> Add(ServerIss, 1),
        ack |-> VmSeq(k, 1), data |-> <<>>, read |-> 0]]
  /\ connecting' = NoKey
  /\ UNCHANGED <<tcpOld, responses, vmSide, ghosts>>

(* It fails, or takes ten seconds: generate_tcp_rst. *)
ConnectFails(k) ==
  /\ connecting = k
  /\ connecting' = NoKey
  /\ UNCHANGED <<sessions, tcpOld, tasks, responses, vmSide, conns, ghosts>>

-----------------------------------------------------------------------------
(* handle_tcp: RST, FIN and data *)

(* Sessions are taken out of the table; this drops their channels' senders. *)
DropSessions(K) ==
  /\ sessions' = [k \in TcpKeys |-> IF k \in K THEN NoSession ELSE sessions[k]]
  /\ tcpOld' = tcpOld \ K

RstArrives(k) ==
  /\ Ready /\ stream[k] # 0
  /\ DropSessions({k})
  /\ UNCHANGED <<connecting, tasks, responses, vmSide, conns, ghosts>>

(* session.tx.try_send: a full channel and one whose task ended refuse. *)
TrySend(c, payload) ==
  IF tasks[c].state = "over" \/ Len(tasks[c].rx) >= QueueLen
    THEN refused' = [refused EXCEPT ![c] = TRUE] /\ UNCHANGED tasks
    ELSE tasks' = [tasks EXCEPT ![c].rx = Append(@, payload)] /\ UNCHANGED refused

(* A FIN after off bytes; a payload it carries is not looked at. *)
FinArrives(k, off) ==
  /\ Ready /\ Live(k)
  /\ sessions' = [sessions EXCEPT ![k].state = "FinWait"]
  /\ tcpOld' = tcpOld \ {k}
  /\ TrySend(sessions[k].conn, <<>>)
  /\ UNCHANGED <<connecting, responses, vmSide, conns, written, gap, handed>>

(* The part of a payload behind server_ack, which is skip bytes into it. *)
NewBytes(bytes, skip) ==
  IF skip > 0 /\ skip < Quarter THEN SubSeq(bytes, skip + 1, Len(bytes)) ELSE bytes

(* Mutant: no segment is taken for a retransmission. *)
NeverPure(skip, beyond) == FALSE

(* is_pure_retransmission *)
PureRetransmission(skip, beyond) ==
  skip > 0 /\ skip < Quarter /\ (beyond <= 0 \/ beyond >= Quarter)

(* A segment with the n bytes after off; none make it an acknowledgement. *)
DataArrives(k, off, n) ==
  /\ Ready /\ Live(k)
  /\ tcpOld' = tcpOld \ {k}
  /\ LET c == sessions[k].conn
         ack == sessions[k].serverAck
         seq == VmSeq(k, off + 1)
         end == Add(seq, n)
         skip == Diff(ack, seq)
         bytes == [i \in 1 .. n |-> [stream |-> stream[k], pos |-> off + i]]
         pure == PureRetransmission(skip, Diff(end, ack))
     IN  \/ /\ n = 0 \/ pure
            /\ UNCHANGED <<sessions, tasks, gap, refused>>
         \/ /\ n > 0 /\ ~pure
            /\ TrySend(c, NewBytes(bytes, skip))
            /\ sessions' = [sessions EXCEPT ![k].serverAck = end]
            /\ gap' = [gap EXCEPT ![c] = @ \/ skip < 0]
  /\ UNCHANGED <<connecting, responses, vmSide, conns, written, handed>>

-----------------------------------------------------------------------------
(* tcp_connection_task *)

(* rx.recv(): data goes to the server, an empty message ends the task, and *)
(* so does a write that fails.  With the sender gone and the channel empty *)
(* this branch of the select! is off.                                      *)
TaskForwards(c) ==
  /\ tasks[c].state = "select" /\ tasks[c].rx # <<>>
  /\ LET data == Head(tasks[c].rx)
         Took(l) == [tasks[c] EXCEPT !.rx = Tail(@), !.ack = Add(@, Len(data)), !.state = l]
     IN  \/ /\ data # <<>>
            /\ tasks' = [tasks EXCEPT ![c] = Took("select")]
            /\ written' = [written EXCEPT ![c] = @ \o data]
         \/ tasks' = [tasks EXCEPT ![c] = Took("over")] /\ UNCHANGED written
  /\ UNCHANGED <<sessions, tcpOld, connecting, responses, vmSide, conns, gap, refused,
                 handed>>

Task(c, changed) ==
  /\ tasks' = [tasks EXCEPT ![c] = changed]
  /\ UNCHANGED <<sessions, tcpOld, connecting, vmSide, conns, ghosts>>

(* stream.read(): n bytes, the end of the stream, or an error. *)
TaskReads(c, n) ==
  /\ tasks[c].state = "select" /\ tasks[c].read + n <= DownLen
  /\ Task(c, [tasks[c] EXCEPT !.state = "sending", !.read = @ + n,
                              !.data = [i \in 1 .. n |-> tasks[c].read + i]])
  /\ UNCHANGED responses

ServerCloses(c) ==
  /\ tasks[c].state = "select"
  /\ Task(c, [tasks[c] EXCEPT !.state = "closing"])
  /\ UNCHANGED responses

ReadFails(c) ==
  /\ tasks[c].state = "select"
  /\ Task(c, [tasks[c] EXCEPT !.state = "over"])
  /\ UNCHANGED responses

(* response_tx.send waits for room. *)
Respond(c, flags, payload) ==
  /\ Len(responses) < ResponseLen
  /\ responses' = Append(responses,
       [conn |-> c,
        packet |-> BuildTcpPacket(tasks[c].key, tasks[c].seq, tasks[c].ack, flags, payload)])

(* One packet of what was read. *)
SendsChunk(c) ==
  /\ tasks[c].state = "sending"
  /\ LET data == tasks[c].data
         n == IF Len(data) < MaxPayload THEN Len(data) ELSE MaxPayload
     IN  /\ Respond(c, IF n = Len(data) THEN {"psh", "ack"} ELSE {"ack"}, SubSeq(data, 1, n))
         /\ Task(c, [tasks[c] EXCEPT !.seq = Add(@, n),
                                     !.data = SubSeq(@, n + 1, Len(@)),
                                     !.state = IF n = Len(data) THEN "select" ELSE "sending"])

SendsFin(c) ==
  /\ tasks[c].state = "closing"
  /\ Respond(c, {"fin", "ack"}, <<>>)
  /\ Task(c, [tasks[c] EXCEPT !.state = "over"])

(* poll_tcp_response, by run_tcp_proxy_receiver. *)
PollTcpResponse ==
  /\ responses # <<>>
  /\ responses' = Tail(responses)
  /\ handed' = [handed EXCEPT ![Head(responses).conn] = @ + Len(Head(responses).packet.payload)]
  /\ UNCHANGED <<sessions, tcpOld, connecting, tasks, vmSide, conns, written, gap, refused>>

(* session_timeout passes without a packet of the VM. *)
TcpAges(k) ==
  /\ Live(k) /\ k \notin tcpOld
  /\ tcpOld' = tcpOld \cup {k}
  /\ UNCHANGED <<sessions, connecting, tasks, responses, vmSide, conns, ghosts>>

(* cleanup_expired_sessions, its TCP half. *)
TcpCleanup ==
  /\ DropSessions(tcpOld)
  /\ UNCHANGED <<connecting, tasks, responses, vmSide, conns, ghosts>>

TaskStep(c) == TaskForwards(c) \/ SendsChunk(c) \/ SendsFin(c)
ServerStep(c) ==
  ServerCloses(c) \/ ReadFails(c) \/ \E n \in 1 .. DownLen : TaskReads(c, n)
VmStep(k) ==
  \/ VmOpens(k) \/ SynArrives(k) \/ RstArrives(k)
  \/ \E off \in 0 .. UpLen : \/ FinArrives(k, off)
                             \/ \E n \in 0 .. UpLen - off : DataArrives(k, off, n)
ConnectEnds(k) == ConnectSucceeds(k) \/ ConnectFails(k)

TcpNext ==
  \/ \E k \in TcpKeys : VmStep(k) \/ ConnectEnds(k) \/ TcpAges(k)
  \/ \E c \in Conns : TaskStep(c) \/ ServerStep(c)
  \/ PollTcpResponse

-----------------------------------------------------------------------------
(* UDP and ICMP *)

CONSTANTS
  Vms,      \* the VMs, by MAC and address
  VmPorts,  \* their source ports
  Servers,  \* addresses and ports outside that the VMs ask
  Sources,  \* addresses and ports outside that datagrams come from
  DnsPort,  \* 53
  Echoes,   \* echo requests: address, identifier and sequence number
  NoOne

VARIABLES
  socket,       \* udp_socket is bound
  udpSessions,  \* udp_sessions, as a set of sessions with distinct keys
  udpOld,       \* the sessions created session_timeout ago
  incoming,     \* where handle_incoming_udp is, and the datagram's source
  pinging,      \* the echo request whose ping a VM's handler awaits
  answer,       \* the last frame for a VM
  asked         \* ghost: what VMs sent out within session_timeout

udpVars == <<socket, udpSessions, udpOld, incoming, pinging, answer, asked>>

Silent == [kind |-> "none"]
AtRest == [pc |-> "wait"]

UdpInit ==
  /\ socket \in BOOLEAN
  /\ udpSessions = {} /\ udpOld = {} /\ incoming = AtRest
  /\ pinging = [v \in Vms |-> NoOne] /\ answer = Silent /\ asked = {}

(* The key of udp_sessions: (dst_addr, dst_port, src_port). *)
SameKey(s, t) == s.ip = t.ip /\ s.port = t.port /\ s.vmPort = t.vmPort

(* handle_udp: the session replaces one with the same key, another VM's    *)
(* included; the datagram goes out when there is a socket.                 *)
HandleUdp(v, vp, dst) ==
  LET s == [vm |-> v, vmPort |-> vp, ip |-> dst.ip, port |-> dst.port]
  IN  /\ pinging[v] = NoOne
      /\ udpSessions' = {t \in udpSessions : ~SameKey(s, t)} \cup {s}
      /\ udpOld' = {t \in udpOld : ~SameKey(s, t)}
      /\ asked' = asked \cup {s}
      /\ UNCHANGED <<socket, incoming, pinging, answer>>

(* session_timeout passes after a session was created; what was sent for   *)
(* it before is older still.                                               *)
UdpAges(s) ==
  /\ s \in udpSessions \ udpOld /\ incoming = AtRest
  /\ udpOld' = udpOld \cup {s}
  /\ asked' = {t \in asked : t.ip # s.ip \/ t.port # s.port \/ t.vmPort # s.vmPort}
  /\ UNCHANGED <<socket, udpSessions, incoming, pinging, answer>>

(* cleanup_expired_sessions, its UDP half *)
UdpCleanup ==
  /\ udpSessions' = udpSessions \ udpOld
  /\ udpOld' = {}

(* handle_incoming_udp: a datagram comes in, and old sessions go ... *)
DatagramArrives(src) ==
  /\ socket /\ incoming = AtRest
  /\ incoming' = [pc |-> "find", src |-> src]
  /\ UdpCleanup
  /\ UNCHANGED <<socket, pinging, answer, asked>>

(* Mutant: the port is enough. *)
MatchesByPort(s, src) == s.port = src.port

(* Whether a session takes a datagram; a name server may answer from       *)
(* another address.                                                        *)
Matches(s, src) == s.port = src.port /\ (s.ip = src.ip \/ src.port = DnsPort)

(* ... then any session that matches gets it; its addresses make the       *)
(* frame's (generate_udp_response).                                        *)
FindSession ==
  /\ incoming # AtRest
  /\ LET found == {s \in udpSessions : Matches(s, incoming.src)}
     IN  IF found = {}
           THEN UNCHANGED answer
           ELSE \E s \in found : answer' = [kind |-> "udp", to |-> s, from |-> incoming.src.ip]
  /\ incoming' = AtRest
  /\ UNCHANGED <<socket, udpSessions, udpOld, pinging, asked>>

(* handle_icmp: the handler of the VM awaits ping -c 1 -W 3 ... *)
HandleIcmp(v, e) ==
  /\ pinging[v] = NoOne
  /\ pinging' = [pinging EXCEPT ![v] = e]
  /\ UNCHANGED <<socket, udpSessions, udpOld, incoming, answer, asked>>

(* ... whose failure leaves the request without an answer. *)
PingFails(v) ==
  /\ pinging[v] # NoOne
  /\ pinging' = [pinging EXCEPT ![v] = NoOne]
  /\ UNCHANGED <<socket, udpSessions, udpOld, incoming, answer, asked>>

PingSucceeds(v) ==
  /\ pinging[v] # NoOne
  /\ answer' = [kind |-> "echo", to |-> v, echo |-> pinging[v]]
  /\ pinging' = [pinging EXCEPT ![v] = NoOne]
  /\ UNCHANGED <<socket, udpSessions, udpOld, incoming, asked>>

PingEnds(v) == PingFails(v) \/ PingSucceeds(v)

UdpNext ==
  \/ \E v \in Vms : \/ \E vp \in VmPorts, dst \in Servers : HandleUdp(v, vp, dst)
                    \/ \E e \in Echoes : HandleIcmp(v, e)
                    \/ PingEnds(v)
  \/ \E s \in udpSessions : UdpAges(s)
  \/ FindSession

-----------------------------------------------------------------------------
(* What a connection's task has written or will write to the server. *)
Upstream(c) == written[c] \o FlattenSeq(tasks[c].rx)

(* A server gets every byte of a stream at most once and in order. *)
ServerSeesOrder ==
  \A c \in Conns : \A i, j \in DOMAIN Upstream(c) :
    i < j /\ Upstream(c)[i].stream = Upstream(c)[j].stream =>
      Upstream(c)[i].pos < Upstream(c)[j].pos

(* While no segment arrived before its predecessor and no try_send was     *)
(* refused, exactly the bytes acknowledged to the VM were written to the   *)
(* server or wait in the task's channel.                                   *)
AckedIsForwarded ==
  \A k \in TcpKeys :
    LET c == sessions[k].conn
        Trusted == /\ sessions[k].stream = stream[k] /\ ~gap[c] /\ ~refused[c]
                   /\ tasks[c].state # "over"
    IN  Live(k) /\ Trusted =>
          Upstream(c) = [i \in 1 .. Diff(sessions[k].serverAck, VmSeq(k, 1)) |->
                           [stream |-> stream[k], pos |-> i]]

(* What a server sends reaches the VM in order, without a hole, under the  *)
(* sequence numbers that follow the SYN-ACK's.                             *)
AnswersFit ==
  \A c \in Conns :
    LET mine == SelectSeq(responses, LAMBDA r : r.conn = c)
        bytes == FlattenSeq([i \in DOMAIN mine |-> mine[i].packet.payload]) \o tasks[c].data
    IN  /\ bytes = [i \in 1 .. tasks[c].read - handed[c] |-> handed[c] + i]
        /\ \A i \in DOMAIN mine :
             LET p == mine[i].packet
             IN  p.payload # <<>> => p.seq = Add(ServerIss, p.payload[1])

(* A proxied connection is a stream in both directions, whatever segments  *)
(* of the VM are lost, late, repeated or cut anew and however the server's *)
(* bytes are cut into packets.  The acknowledgement that handle_tcp sends  *)
(* at once is wrong in two cases only, a segment ahead of its predecessor  *)
(* and a refused try_send (handle_tcp, tcp_connection_task).               *)
ProxyKeepsStreams == ServerSeesOrder /\ AckedIsForwarded /\ AnswersFit

(* An answer goes to a VM and a port of it that sent a datagram to the     *)
(* server's port within the session timeout, and unless the port is DNS's, *)
(* to the server's very address: a session that expired is not used, and   *)
(* no datagram gets to a VM that asked for nothing (handle_incoming_udp).  *)
AnswerWasAsked ==
  [][answer' # answer /\ answer'.kind = "udp" =>
       /\ answer'.to \in asked
       /\ answer'.to.ip = answer'.from \/ answer'.to.port = DnsPort]_udpVars
=============================================================================
