----------------------------- MODULE Resolver -----------------------------
(***************************************************************************)
(* dns.rs: lookups one after another over the kernel's one UDP socket,     *)
(* answers that are lost, late or delivered twice.  A hostname is a        *)
(* sequence of characters with Dot between its labels; a query carries it  *)
(* as encode_domain_name writes it, and an answer is about the encoded     *)
(* name it was asked for.                                                  *)
(***************************************************************************)
EXTENDS Integers, Sequences, SequencesExt, FiniteSets

CONSTANTS
  Hostnames,    \* sequences over Chars \cup {Dot}
  Dot,
  MaxLabel,     \* 63: the longest label
  Pointer,      \* 0xC0: a length from here on is a compression pointer
  TxSpace,      \* 2^16 transaction ids
  TxStart,      \* 0x1234
  MaxLookups,
  SocketLen     \* packets the UDP socket holds

ASSUME ResolverAssumption ==
  /\ {MaxLabel, TxSpace, MaxLookups, SocketLen} \subseteq Nat \ {0}
  /\ MaxLabel < Pointer /\ TxStart \in 0 .. TxSpace - 1
  /\ MaxLookups <= TxSpace

VARIABLES
  txid,       \* DNS_TRANSACTION_ID
  lookup,     \* the running or last lookup
  lookups,    \* how many were started
  dnsLate,    \* its deadline has passed
  answers,    \* answers on their way
  inbox       \* the UDP socket's receive buffer

dnsVars == <<txid, lookup, lookups, dnsLate, answers, inbox>>

(***************************************************************************)
(* Names.                                                                  *)
(***************************************************************************)
LabelEnds(h) == {i \in 1 .. Len(h) + 1 : i = Len(h) + 1 \/ h[i] = Dot}
LabelStart(h, e) == 1 + (IF \E i \in LabelEnds(h) : i < e
                         THEN CHOOSE i \in LabelEnds(h) :
                                i < e /\ \A j \in LabelEnds(h) : j < e => j <= i
                         ELSE 0)

Label(h, e) ==
  LET label == SubSeq(h, LabelStart(h, e), e - 1)
  IN  IF Len(label) \in 1 .. MaxLabel THEN <<Len(label)>> \o label ELSE <<>>

encode_domain_name(h) ==
  FlattenSeq([i \in 1 .. Len(h) + 1 |-> IF i \in LabelEnds(h) THEN Label(h, i) ELSE <<>>]) \o <<0>>

(* skip_name from a position: the position after the name, or NoPosition. *)
NoPosition == 0

skip_name(packet, start) ==
  LET skip[pos \in 1 .. Len(packet) + 1] ==
        IF pos > Len(packet) THEN NoPosition
        ELSE IF packet[pos] = 0 THEN pos + 1
        ELSE IF packet[pos] >= Pointer THEN pos + 2
        ELSE IF pos + packet[pos] > Len(packet) THEN NoPosition
        ELSE skip[pos + 1 + packet[pos]]
  IN  skip[start]

(***************************************************************************)
(* Packets, by what parse_response tells apart: an A record; NXDOMAIN, no  *)
(* answer or only other records; another rcode or not a response; fewer    *)
(* than the 12 bytes that hold an id.                                      *)
(***************************************************************************)
Kinds == {"address", "missing", "failure", "short"}

Answer(id, name, kind) == [id |-> id, name |-> name, kind |-> kind]

Parsed(p) ==
  CASE p.kind \in {"short", "failure"} -> "error"
    [] p.kind = "missing" -> "notFound"
    [] p.kind = "address" -> IF skip_name(p.name, 1) = NoPosition THEN "error" ELSE "resolved"

(* Mutant: the id is not compared. *)
AnyId(p, id) == Parsed(p)

parse_response(p, id) == IF p.kind # "short" /\ p.id # id THEN "wrongId" ELSE Parsed(p)

(***************************************************************************)
(* resolve.                                                                *)
(***************************************************************************)
NoLookup == [state |-> "none", host |-> <<>>, id |-> 0, found |-> <<>>]

ResolverInit ==
  /\ txid = TxStart
  /\ lookup = NoLookup
  /\ lookups = 0
  /\ dnsLate = FALSE
  /\ answers = {}
  /\ inbox = <<>>

Waiting == lookup.state = "waiting"

(* build_query and udp_send; the query may be lost on its way. *)
Query(h) ==
  LET id == (txid + 1) % TxSpace
  IN  /\ ~Waiting /\ lookups < MaxLookups
      /\ txid' = id
      /\ lookup' = [state |-> "waiting", host |-> h, id |-> id, found |-> <<>>]
      /\ lookups' = lookups + 1
      /\ dnsLate' = FALSE
      /\ \/ UNCHANGED answers
         \/ \E kind \in Kinds :
              answers' = answers \cup {Answer(id, encode_domain_name(h), kind)}
      /\ UNCHANGED inbox

(* udp_send fails: the lookup is over before it began. *)
QueryFails(h) ==
  /\ ~Waiting /\ lookups < MaxLookups
  /\ txid' = (txid + 1) % TxSpace
  /\ lookup' = [state |-> "failed", host |-> h, id |-> txid', found |-> <<>>]
  /\ lookups' = lookups + 1
  /\ UNCHANGED <<dnsLate, answers, inbox>>

(* An answer reaches the socket, is lost there, or comes again later. *)
AnswerArrives(p) ==
  /\ p \in answers
  /\ inbox' = IF Len(inbox) < SocketLen THEN Append(inbox, p) ELSE inbox
  /\ answers' \in {answers, answers \ {p}}
  /\ UNCHANGED <<txid, lookup, lookups, dnsLate>>

(* One turn of resolve's loop that finds a packet. *)
Receives ==
  /\ Waiting /\ ~dnsLate /\ inbox # <<>>
  /\ inbox' = Tail(inbox)
  /\ LET p == Head(inbox)
         r == parse_response(p, lookup.id)
     IN  lookup' = CASE r = "resolved" -> [lookup EXCEPT !.state = r, !.found = p.name]
                     [] r = "wrongId" -> lookup
                     [] OTHER -> [lookup EXCEPT !.state = "failed"]
  /\ UNCHANGED <<txid, lookups, dnsLate, answers>>

LookupTimesOut ==
  /\ Waiting /\ dnsLate
  /\ lookup' = [lookup EXCEPT !.state = "failed"]
  /\ UNCHANGED <<txid, lookups, dnsLate, answers, inbox>>

DnsTick ==
  /\ Waiting /\ ~dnsLate
  /\ dnsLate' = TRUE
  /\ UNCHANGED <<txid, lookup, lookups, answers, inbox>>

ResolveStep == Receives \/ LookupTimesOut

ResolverNext ==
  \/ \E h \in Hostnames : Query(h) \/ QueryFails(h)
  \/ \E p \in answers : AnswerArrives(p)
  \/ ResolveStep \/ DnsTick

-----------------------------------------------------------------------------
(* An address that resolve returns was given for the hostname it was       *)
(* asked, not for an earlier one whose answer came late or twice (dns.rs   *)
(* transaction ids).                                                       *)
ResolvedIsAsked ==
  lookup.state = "resolved" => lookup.found = encode_domain_name(lookup.host)
=============================================================================
