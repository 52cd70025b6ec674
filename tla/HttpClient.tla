---------------------------- MODULE HttpClient ----------------------------
(***************************************************************************)
(* http.rs: one GET with the redirects it follows, over plain TCP, over    *)
(* TLS 1.3 (embedded-tls, external) or, when that fails, over TLS 1.2.     *)
(* A page is HeadLen units of header and BodyLen of body, numbered; the    *)
(* header says how the body is framed and whether there is a location to   *)
(* go to, which is settled when it is read.  GET is the only method the    *)
(* kernel asks for, so the method and the request body stay out.           *)
(***************************************************************************)
EXTENDS TlsClient

CONSTANTS
  FirstUrls,     \* the URLs programs ask for
  Locations,     \* the Location headers servers send
  HeadLen, BodyLen,
  MaxRedirects,  \* MAX_REDIRECTS
  MaxRecord      \* units a server puts into one record

ASSUME ClientAssumption ==
  /\ {HeadLen, BodyLen, MaxRecord, BufLen, RecordSize} \subseteq Nat \ {0}
  /\ MaxRedirects \in Nat

VARIABLES
  call,      \* the call: where it is, the connection's protocol, redirects
  url,       \* current_request, its URL parsed
  page,      \* the page the server gives for this request
  response,  \* response_buf
  ended      \* why the receive loop ended

httpVars == <<sock, late, out, tls, peer, call, url, page, response, ended>>

(***************************************************************************)
(* URLs.  The text of one has a scheme ("none" when there is no prefix), a *)
(* host, a port (NoPort when there is none) and a path, the segments that  *)
(* follow each slash (<<>> when there is no slash).                        *)
(***************************************************************************)
NoPort == -1
DefaultPort(https) == IF https THEN 443 ELSE 80

PortIsValid(text) == text.port <= 65535

parse_url(text) ==
  LET https == text.scheme = "https"
  IN  [https |-> https,
       host |-> text.host,
       port |-> IF text.port = NoPort THEN DefaultPort(https) ELSE text.port,
       path |-> IF text.path = <<>> THEN <<"">> ELSE text.path]

PortText(u) == IF u.port = DefaultPort(u.https) THEN NoPort ELSE u.port

resolve_redirect_url(u, loc) ==
  LET scheme == IF u.https THEN "https" ELSE "http"
      base == [scheme |-> scheme, host |-> u.host, port |-> PortText(u), path |-> loc.path]
  IN  CASE loc.kind = "url" -> [scheme |-> loc.scheme, host |-> loc.host,
                                port |-> loc.port, path |-> loc.path]
        [] loc.kind = "host" -> [scheme |-> scheme, host |-> loc.host,
                                 port |-> loc.port, path |-> loc.path]
        [] loc.kind = "path" -> base
        [] loc.kind = "relative" -> [base EXCEPT !.path = Front(u.path) \o @]

(***************************************************************************)
(* State.                                                                  *)
(***************************************************************************)
Framings == {"length", "chunked", "none"}
NoPage == [framing |-> "unknown", location |-> [kind |-> "none"]]
Pages == {[NoPage EXCEPT !.framing = f] : f \in Framings}

PageLen == HeadLen + BodyLen
Unit == [i \in 1 .. PageLen |-> i]

HttpInit ==
  /\ ClientInit
  /\ call = [phase |-> "resolve", proto |-> "http", redirects |-> 0, result |-> "none"]
  /\ url \in {parse_url(text) : text \in FirstUrls}
  /\ page = NoPage
  /\ response = <<>>
  /\ ended = "not"

Phase(p) == call.phase = p /\ call.result = "none"
Proto(p) == call.proto = p
Goes(p) == call' = [call EXCEPT !.phase = p]
Returns(r) == call' = [call EXCEPT !.phase = "done", !.result = r]

(* An error of http_request, and of https_request when TLS 1.2 failed; a   *)
(* failure of TLS 1.3 goes on to TLS 1.2.                                  *)
Fails == IF Proto("tls13") THEN call' = [call EXCEPT !.phase = "open", !.proto = "tls12"]
                           ELSE Returns("err")

(***************************************************************************)
(* Resolving and connecting.                                               *)
(***************************************************************************)

(* resolve_host: the address, or the end of the call. *)
Resolve ==
  /\ Phase("resolve")
  /\ \/ call' = [call EXCEPT !.phase = "open", !.proto = IF url.https THEN "tls13" ELSE "http"]
     \/ Returns("err")
  /\ UNCHANGED <<sock, late, out, tls, peer, url, page, response, ended>>

(* tcp_connect and the start of the wait; every try starts afresh. *)
Connect ==
  /\ Phase("open")
  /\ TcpConnect
  /\ late' = FALSE /\ out' = 0 /\ tls' = NewTls
  /\ response' = <<>> /\ ended' = "not"
  /\ Goes("connect")
  /\ page' = NoPage
  /\ UNCHANGED url

(* socket.connect refuses a port of 0; what was open is aborted by then. *)
ConnectRefused ==
  /\ Phase("open") /\ url.port = 0
  /\ TcpAbort
  /\ Fails
  /\ UNCHANGED <<late, out, tls, peer, url, page, response, ended>>

Connected ==
  /\ Phase("connect") /\ ~late /\ sock.state = "established"
  /\ Goes(IF Proto("http") THEN "send" ELSE "handshake")
  /\ late' = FALSE
  /\ UNCHANGED <<sock, out, tls, peer, url, page, response, ended>>

ConnectionFails ==
  /\ Phase("connect")
  /\ \/ late /\ TcpAbort
     \/ ~late /\ sock.state = "closed" /\ UNCHANGED sock
  /\ Fails
  /\ UNCHANGED <<late, out, tls, peer, url, page, response, ended>>

(***************************************************************************)
(* The handshake: TLS 1.3 by embedded-tls, one way or the other; TLS 1.2   *)
(* step by step.  Neither closes the connection when it fails.             *)
(***************************************************************************)
Opened13 ==
  /\ Phase("handshake") /\ Proto("tls13") /\ ~late /\ MaySend
  /\ Goes("send")
  /\ UNCHANGED <<sock, late, out, tls, peer, url, page, response, ended>>

Handshake12 ==
  /\ Phase("handshake") /\ Proto("tls12")
  /\ HandshakeSends \/ HandshakeReceives
  /\ call' = IF tls'.step > Len(Handshake) THEN [call EXCEPT !.phase = "send"] ELSE call
  /\ UNCHANGED <<url, page, response, ended>>

NoHandshake ==
  /\ Phase("handshake")
  /\ Proto("tls12") => HandshakeFails
  /\ Fails
  /\ UNCHANGED <<sock, late, out, tls, peer, url, page, response, ended>>

(***************************************************************************)
(* Sending the request.                                                    *)
(***************************************************************************)
Request == Record("data", <<0>>, Proto("tls12"), tls.client_seq)

(* http.rs and Tls12Connection::write, part by part; embedded-tls writes   *)
(* all of the record or fails.                                             *)
Sends ==
  /\ Phase("send")
  /\ \/ WritesSome(Request) /\ (Proto("tls13") => RecordIsOut)
     \/ Proto("tls12") /\ WritesShort
  /\ IF RecordIsOut
     THEN /\ Goes("receive")
          /\ tls' = [tls EXCEPT !.client_seq = @ + (IF Proto("tls12") THEN 1 ELSE 0)]
     ELSE UNCHANGED <<call, tls>>
  /\ UNCHANGED <<sock, url, page, response, ended>>

SendFails ==
  /\ Phase("send")
  /\ \/ Proto("http") /\ WriteGivesUp /\ TcpAbort
     \/ Proto("tls13") /\ WriteGivesUp /\ TcpClose
     \/ Proto("tls12") /\ WriteFails /\ UNCHANGED sock
  /\ Fails
  /\ UNCHANGED <<late, out, tls, peer, url, page, response, ended>>

(***************************************************************************)
(* Receiving the response.                                                 *)
(***************************************************************************)
HeaderDone(r) == \E i \in DOMAIN r : r[i] = HeadLen
AfterHeader(r) == Len(r) - (CHOOSE i \in DOMAIN r : r[i] = HeadLen)

(* The test each of the three receive loops makes after every read. *)
IsComplete(r) ==
  /\ HeaderDone(r)
  /\ CASE page.framing = "length" -> AfterHeader(r) >= BodyLen
       [] page.framing = "chunked" /\ Proto("tls13") -> \E i \in DOMAIN r : r[i] = PageLen
       [] OTHER -> ~Proto("http") /\ AfterHeader(r) > 0

(* The loop ends with what it has, and the connection is closed; TLS 1.2   *)
(* numbers its close_notify, which may or may not still get out.           *)
Closes ==
  IF Proto("tls12")
  THEN /\ tls' = [tls EXCEPT !.client_seq = @ + 1]
       /\ \/ UNCHANGED peer
          \/ /\ ~late /\ MaySend
             /\ peer' = [peer EXCEPT !.wire = Append(@, Record("alert", <<0>>, TRUE, tls.client_seq))]
  ELSE UNCHANGED <<tls, peer>>

Ends(why) == ended' = why /\ Goes("parse")

GoesOn(r) ==
  /\ response' = response \o r
  /\ IF IsComplete(response \o r)
     THEN Ends("complete") ELSE UNCHANGED <<call, ended>>

Min2(a, b) == IF a < b THEN a ELSE b
First(s) == SubSeq(s, 1, Min2(BufLen, Len(s)))
Rest(s) == SubSeq(s, Min2(BufLen, Len(s)) + 1, Len(s))

(* tcp_recv and embedded-tls take what fits and keep the rest. *)
StreamReads ==
  /\ Phase("receive") /\ ~Proto("tls12") /\ ~late
  /\ sock.rx # <<>> /\ Head(sock.rx).type = "data"
  /\ LET rec == Head(sock.rx)
         rest == Rest(rec.data)
     IN  /\ GoesOn(First(rec.data))
         /\ sock' = [sock EXCEPT !.rx = IF rest = <<>> THEN Tail(@)
                                        ELSE <<[rec EXCEPT !.data = rest]>> \o Tail(@)]
  /\ UNCHANGED <<late, out, tls, peer, url, page>>

(* Tls12Connection::read: what of a record does not fit is dropped. *)
RecordReads ==
  /\ Phase("receive") /\ Proto("tls12")
  /\ \E rec \in ToSet(sock.rx) :
       /\ ReadsRecord(rec) /\ Opens(rec) /\ rec.type = "data"
       /\ IF rec.data = <<>> THEN Ends("empty") /\ UNCHANGED response
                            ELSE GoesOn(First(rec.data))
       /\ tls' = [tls EXCEPT !.server_seq = @ + 1, !.dropped = @ \/ Rest(rec.data) # <<>>]
  /\ UNCHANGED <<out, peer, url, page>>

(* close_notify, or for TLS 1.2 and plain TCP the end of the connection. *)
PeerEnds ==
  /\ Phase("receive") /\ ~late
  /\ \/ /\ sock.rx # <<>> /\ Head(sock.rx).type = "alert"
        /\ Proto("tls12") => Opens(Head(sock.rx))
     \/ ReadIsClosed /\ (Proto("tls12") \/ (Proto("http") /\ response # <<>>))
  /\ Ends("closed")
  /\ UNCHANGED <<sock, late, out, tls, peer, url, page, response>>

ReceiveFails ==
  /\ Phase("receive")
  /\ \/ late
     \/ ReadIsClosed /\ (Proto("tls13") \/ (Proto("http") /\ response = <<>>))
     \/ /\ ~late /\ Proto("tls12") /\ sock.rx # <<>>
        /\ ~(Opens(Head(sock.rx)) /\ Head(sock.rx).type \in {"data", "alert"})
  /\ IF Proto("http") THEN TcpAbort /\ UNCHANGED <<tls, peer>> ELSE TcpClose /\ Closes
  /\ Fails
  /\ UNCHANGED <<late, out, url, page, response, ended>>

(***************************************************************************)
(* The end of http_request: the connection is closed and the response      *)
(* parsed, which may fail; http_request_follow_redirects then returns what *)
(* it got or goes on.                                                      *)
(***************************************************************************)
TooMany == call.redirects + 1 > MaxRedirects

(* Mutant: the redirects are not counted. *)
Uncounted(loc) ==
  /\ url' = parse_url(resolve_redirect_url(url, loc))
  /\ call' = [call EXCEPT !.phase = "resolve"]

Follows(loc) ==
  IF TooMany \/ ~PortIsValid(resolve_redirect_url(url, loc))
  THEN Returns("err") /\ UNCHANGED url
  ELSE /\ url' = parse_url(resolve_redirect_url(url, loc))
       /\ call' = [call EXCEPT !.phase = "resolve", !.redirects = @ + 1]
     
ParseResponse ==
  /\ Phase("parse")
  /\ TcpClose /\ Closes
  /\ \/ /\ \E r \in IF HeaderDone(response) THEN {"ok", "err"} ELSE {"err"} : Returns(r)
        /\ UNCHANGED <<url, page>>
     \/ /\ HeaderDone(response)
        /\ \E loc \in Locations :
             Follows(loc) /\ page' = [page EXCEPT !.location = loc]
  /\ UNCHANGED <<late, out, response, ended>>

(***************************************************************************)
(* The peer's answer (external): a page in records, TLS 1.2 ones possibly  *)
(* empty, and close_notify or, on TLS 1.2, a record read does not expect.  *)
(***************************************************************************)
SaidAll == 100
Answering ==
  /\ sock.state = "established" /\ Heard("data", 0) /\ peer.said # SaidAll
  /\ call.result = "none"

Numbered == IF Proto("tls12") THEN peer.encs ELSE 0

PeerServes ==
  /\ Answering /\ peer.served < PageLen /\ peer.encs <= PageLen + 1
  /\ page' \in IF page = NoPage THEN Pages ELSE {page}
  /\ \E n \in (IF Proto("tls12") THEN 0 ELSE 1) .. Min2(MaxRecord, PageLen - peer.served) :
       /\ Says(Record("data", SubSeq(Unit, peer.served + 1, peer.served + n), Proto("tls12"), Numbered))
       /\ peer' = [peer EXCEPT !.served = @ + n, !.encs = @ + 1]
  /\ UNCHANGED <<late, out, tls, call, url, response, ended>>

PeerNotifies ==
  /\ Answering /\ ~Proto("http")
  /\ \E type \in IF Proto("tls12") THEN {"alert", "handshake"} ELSE {"alert"} :
       Says(Record(type, <<0>>, Proto("tls12"), Numbered))
  /\ peer' = [peer EXCEPT !.encs = @ + 1, !.said = SaidAll]
  /\ page' \in IF page = NoPage THEN Pages ELSE {page}
  /\ UNCHANGED <<late, out, tls, call, url, response, ended>>

PeerSteps ==
  /\ call.result = "none"
  /\ PeerAccepts \/ PeerHellos \/ PeerObjects \/ PeerFinishes \/ PeerCloses
  /\ UNCHANGED <<call, url, page, response, ended>>

TimePasses ==
  /\ call.result = "none" /\ Tick
  /\ UNCHANGED <<call, url, page, response, ended>>

ClientSteps ==
  \/ Resolve \/ Connect \/ ConnectRefused \/ Connected \/ ConnectionFails
  \/ Opened13 \/ Handshake12 \/ NoHandshake
  \/ Sends \/ SendFails
  \/ StreamReads \/ RecordReads \/ PeerEnds \/ ReceiveFails \/ ParseResponse

HttpNext == ClientSteps \/ TimePasses \/ PeerServes \/ PeerNotifies \/ PeerSteps

-----------------------------------------------------------------------------
(* A request that succeeds has the beginning of the page, in order and     *)
(* without a gap, and it has the whole page or everything the server had   *)
(* sent when it closed: a close never overtakes data that has arrived      *)
(* (net.rs tcp_recv, http.rs 411-459).  Over TLS the client may also stop  *)
(* early, at a TLS 1.2 record without data or at the first of a body of    *)
(* unknown length (tls.rs 537, tls12.rs 974, 1015), and what of a TLS 1.2  *)
(* record is longer than the buffer given to read is lost (tls12.rs 687).  *)
OkIsWhole ==
  call.result = "ok" /\ ~tls.dropped =>
    /\ IsPrefix(response, Unit)
    /\ \/ Len(response) = PageLen
       \/ ended = "closed" /\ Len(response) = peer.served
       \/ ended = "empty"
       \/ ended = "complete" /\ page.framing # "length" /\ ~Proto("http")
=============================================================================
