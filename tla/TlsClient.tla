----------------------------- MODULE TlsClient -----------------------------
(***************************************************************************)
(* The kernel's TCP socket (net.rs, one smoltcp socket for every request), *)
(* its blocking wrapper (tls.rs, BlockingTcpSocket) and the TLS 1.2 client *)
(* (tls12.rs) over it.  What smoltcp promises is taken from how the kernel *)
(* uses it: a byte taken by send_slice arrives once and in order, and what *)
(* has arrived stays readable after the peer's FIN or RST.                 *)
(*                                                                         *)
(* A TLS record is written in RecordSize parts so that a send buffer can   *)
(* take some of it.  A record the peer cut by closing counts as not sent:  *)
(* read_exact fails on it as it fails on nothing.  Message codes are those *)
(* of tls12.rs lines 41-47; a code nobody expects stands for a malformed   *)
(* or unacceptable message, which every receive step refuses alike.        *)
(***************************************************************************)
EXTENDS Integers, Sequences, SequencesExt, FiniteSets

CONSTANTS
  RecordSize,   \* parts of a record the send buffer takes separately
  BufLen        \* units of the 1024-byte buffer handed to read

VARIABLES
  sock,     \* the socket: its state (closed, synSent, established, closeWait,
            \* closing) and what waits in its receive buffer
  late,     \* more than timeout_ms since start_time
  out,      \* parts of the record being written that were taken
  tls,      \* Tls12Connection
  peer      \* the peer: what reached it on this connection, what it did

Record(type, data, enc, seq) ==
  [type |-> type, data |-> data, enc |-> enc, seq |-> seq]

NewPeer == [wire |-> <<>>, said |-> 0, encs |-> 0, served |-> 0]
NewTls == [step |-> 1, client_seq |-> 0, server_seq |-> 0,
           dropped |-> FALSE]

ClientInit ==
  /\ sock = [state |-> "closed", rx |-> <<>>]
  /\ late = FALSE
  /\ out = 0
  /\ tls = NewTls
  /\ peer = NewPeer

MaySend == sock.state \in {"established", "closeWait"}
MayRecv == sock.state = "established" \/ sock.rx # <<>>

(* Mutant: a FIN ends the reading, whatever is still unread. *)
ClosedNow == sock.state \in {"closeWait", "closed"}

PeerClosed == ~MayRecv /\ sock.state \in {"closeWait", "closed"}

(***************************************************************************)
(* NetState.                                                               *)
(***************************************************************************)

(* tcp_connect: what was there is aborted, the handshake starts. *)
TcpConnect ==
  /\ sock' = [state |-> "synSent", rx |-> <<>>]
  /\ peer' = NewPeer

(* The result of tcp_close; tcp_abort always ends in "closed". *)
Closing(state) == IF state \in {"established", "closeWait"} THEN "closing" ELSE "closed"

TcpClose == sock' = [sock EXCEPT !.state = Closing(@)]
TcpAbort == sock' = [sock EXCEPT !.state = "closed"]

(* Time passes: get_time only grows. *)
Tick ==
  /\ ~late
  /\ late' = TRUE
  /\ UNCHANGED <<sock, out, tls, peer>>

(***************************************************************************)
(* BlockingTcpSocket::write of one record.  Its callers look for an error  *)
(* only: a short write, which is an Ok, counts as the whole record.        *)
(***************************************************************************)
WritesSome(rec) ==
  /\ ~late /\ MaySend
  /\ \E n \in 1 .. RecordSize - out :
       /\ out' = (out + n) % RecordSize
       /\ peer' = IF out + n = RecordSize
                    THEN [peer EXCEPT !.wire = Append(@, rec)] ELSE peer
  /\ late' = FALSE

RecordIsOut == out' = 0

(* The deadline, or a socket that may no longer send, in mid-record. *)
WriteGivesUp == late \/ ~MaySend

WritesShort ==
  /\ WriteGivesUp /\ out > 0
  /\ out' = 0
  /\ UNCHANGED <<late, peer>>

WriteFails == WriteGivesUp /\ out = 0

(***************************************************************************)
(* BlockingTcpSocket::read and Tls12Connection::read_exact of one record.  *)
(***************************************************************************)
ReadsRecord(rec) ==
  /\ ~late /\ sock.rx # <<>>
  /\ rec = Head(sock.rx)
  /\ sock' = [sock EXCEPT !.rx = Tail(@)]
  /\ late' = FALSE

ReadTimesOut == late
ReadIsClosed == ~late /\ PeerClosed

(* recv_encrypted_record: the record opens only under the sequence number  *)
(* the client counts.                                                      *)
Opens(rec) == rec.enc /\ rec.seq = tls.server_seq

(***************************************************************************)
(* Tls12Connection::handshake, one entry per step; compute_keys comes with *)
(* the ChangeCipherSpec that follows it.                                   *)
(***************************************************************************)
Out(type, msg) == [sends |-> TRUE, type |-> type, msg |-> msg]
In(type, msg) == [sends |-> FALSE, type |-> type, msg |-> msg]

Handshake ==
  << Out("handshake", 1), In("handshake", 2), In("handshake", 11),
     In("handshake", 12), In("handshake", 14), Out("handshake", 16),
     Out("ccs", 1), Out("handshake", 20), In("ccs", 1), In("handshake", 20) >>

ClientFinished == 8
ServerFinished == 10

Encrypted(step) == step \in {ClientFinished, ServerFinished}
InHandshake == tls.step <= Len(Handshake)

SeqAfter(step) == IF Encrypted(step) THEN 1 ELSE 0

HandshakeSends ==
  /\ InHandshake /\ Handshake[tls.step].sends
  /\ LET h == Handshake[tls.step]
         rec == Record(h.type, <<h.msg>>, Encrypted(tls.step), tls.client_seq)
     IN  /\ WritesSome(rec) \/ WritesShort
         /\ tls' = IF RecordIsOut
                   THEN [tls EXCEPT !.step = @ + 1,
                                    !.client_seq = @ + SeqAfter(tls.step)]
                   ELSE tls
  /\ UNCHANGED sock

Expected(rec, h) ==
  rec.type = h.type /\ rec.data # <<>> /\ (h.type = "ccs" \/ Head(rec.data) = h.msg)

HandshakeReceives ==
  /\ InHandshake /\ ~Handshake[tls.step].sends
  /\ \E rec \in ToSet(sock.rx) :
       /\ ReadsRecord(rec)
       /\ Expected(rec, Handshake[tls.step])
       /\ Encrypted(tls.step) => Opens(rec)
       /\ tls' = [tls EXCEPT !.step = @ + 1,
                             !.server_seq = @ + SeqAfter(tls.step)]
  /\ UNCHANGED <<out, peer>>

(* Any error of a step leaves handshake() at once, with the socket open. *)
Refuses(rec) ==
  ~(Expected(rec, Handshake[tls.step]) /\ (Encrypted(tls.step) => Opens(rec)))

HandshakeFails ==
  /\ InHandshake
  /\ IF Handshake[tls.step].sends
     THEN WriteFails
     ELSE \/ ReadTimesOut \/ ReadIsClosed
          \/ ~late /\ sock.rx # <<>> /\ Refuses(Head(sock.rx))

(***************************************************************************)
(* The peer, and the network that carries what it says (external).         *)
(***************************************************************************)
Heard(type, msg) ==
  \E i \in DOMAIN peer.wire : peer.wire[i].type = type /\ Head(peer.wire[i].data) = msg

Says(rec) == sock' = [sock EXCEPT !.rx = Append(@, rec)]

PeerAccepts ==
  /\ sock.state = "synSent"
  /\ sock' = [sock EXCEPT !.state = "established"]
  /\ UNCHANGED <<late, out, tls, peer>>

Flight == <<2, 11, 12, 14>>

(* The next message of the first flight in a record, or all that is left. *)
PeerHellos ==
  /\ sock.state = "established" /\ Heard("handshake", 1) /\ peer.said < Len(Flight)
  /\ \E n \in {1, Len(Flight) - peer.said} :
       LET msgs == SubSeq(Flight, peer.said + 1, peer.said + n)
       IN  /\ Says(Record("handshake", msgs, FALSE, 0))
           /\ peer' = [peer EXCEPT !.said = @ + n]
  /\ UNCHANGED <<late, out, tls>>

(* An alert, or a message the client does not accept. *)
PeerObjects ==
  /\ sock.state = "established" /\ Heard("handshake", 1)
  /\ peer.said < Len(Flight) + 2
  /\ \E type \in {"alert", "handshake"} : Says(Record(type, <<0>>, FALSE, 0))
  /\ peer' = [peer EXCEPT !.said = Len(Flight) + 2]
  /\ UNCHANGED <<late, out, tls>>

PeerFinishes ==
  /\ sock.state = "established" /\ Heard("handshake", 20)
  /\ peer.said \in {Len(Flight), Len(Flight) + 1}
  /\ IF peer.said = Len(Flight)
     THEN Says(Record("ccs", <<1>>, FALSE, 0)) /\ peer' = [peer EXCEPT !.said = @ + 1]
     ELSE /\ Says(Record("handshake", <<20>>, TRUE, peer.encs))
          /\ peer' = [peer EXCEPT !.said = @ + 1, !.encs = @ + 1]
  /\ UNCHANGED <<late, out, tls>>

(* FIN, or RST. *)
PeerCloses ==
  /\ \/ sock.state = "established" /\ sock' = [sock EXCEPT !.state = "closeWait"]
     \/ sock.state \in {"synSent", "established", "closeWait"} /\ TcpAbort
  /\ UNCHANGED <<late, out, tls, peer>>
=============================================================================
