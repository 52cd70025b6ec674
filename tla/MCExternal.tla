----------------------------- MODULE MCExternal -----------------------------
(***************************************************************************)
(* Traffic that leaves the virtual network, for TLC: the two halves of the *)
(* relay's proxy, and the kernel's clients, the resolver and HTTP.  One    *)
(* machine at a time moves and the others rest as they started.            *)
(***************************************************************************)
EXTENDS Proxy, HttpClient, Resolver

VARIABLES machine

extVars == <<tcpVars, udpVars, httpVars, dnsVars, machine>>

MCVmIss == <<10, 3>>
At(ip, port) == [ip |-> ip, port |-> port]
MCServers == {At(1, 53), At(1, 80), At(2, 80)}
MCSources == {At(ip, p) : ip \in 1 .. 2, p \in {53, 80}}

Text(scheme, host, port, path) ==
  [scheme |-> scheme, host |-> host, port |-> port, path |-> path]
MCFirstUrls == {Text("http", "a", 443, <<"x", "y">>), Text("https", "a", NoPort, <<>>)}
MCLocations ==
  {[kind |-> "relative", path |-> <<"z">>],
   [kind |-> "host", host |-> "b", port |-> 0, path |-> <<"w">>],
   [kind |-> "url", scheme |-> "https", host |-> "b", port |-> 70000, path |-> <<>>]}

MCHostnames == {<<5, 0, 6>>, <<6, 0>>}

Init ==
  /\ machine \in {"tcp", "udp", "http", "dns"}
  /\ TcpInit /\ UdpInit /\ HttpInit /\ ResolverInit
  /\ machine # "udp" => socket
  /\ machine # "http" => url = parse_url(Text("http", "a", 443, <<"x", "y">>))

(* handle_incoming_udp up to the search. *)
IncomingUdp(src) == DatagramArrives(src) /\ TcpCleanup

TcpMachine ==
  /\ machine = "tcp"
  /\ \/ TcpNext /\ UNCHANGED udpVars
     \/ IncomingUdp(At(1, 80))
     \/ FindSession /\ UNCHANGED tcpVars
  /\ UNCHANGED <<httpVars, dnsVars>>

UdpMachine ==
  /\ machine = "udp"
  /\ \/ UdpNext /\ UNCHANGED tcpVars
     \/ \E src \in Sources : IncomingUdp(src)
  /\ UNCHANGED <<httpVars, dnsVars>>

HttpMachine ==
  /\ machine = "http"
  /\ HttpNext
  /\ UNCHANGED <<tcpVars, udpVars, dnsVars>>

DnsMachine ==
  /\ machine = "dns"
  /\ ResolverNext
  /\ UNCHANGED <<tcpVars, udpVars, httpVars>>

Next == (TcpMachine \/ UdpMachine \/ HttpMachine \/ DnsMachine) /\ UNCHANGED machine

(* Tokio goes on with the handler when a connect has ended, by its timeout *)
(* if nothing else.  In the kernel the caller loops and the clock it reads *)
(* goes on.                                                                *)
Fairness ==
  /\ \A k \in TcpKeys : WF_tcpVars(machine = "tcp" /\ ConnectEnds(k))
  /\ WF_httpVars(machine = "http" /\ ClientSteps)
  /\ WF_httpVars(machine = "http" /\ TimePasses)
  /\ WF_dnsVars(machine = "dns" /\ ResolveStep)
  /\ WF_dnsVars(machine = "dns" /\ DnsTick)

Spec == Init /\ [][Next]_extVars /\ Fairness

-----------------------------------------------------------------------------
(* Every wait for the outside has its end: an http or https call of the    *)
(* kernel returns, its redirects counted (http.rs, tls.rs check_timeout);  *)
(* a lookup ends even while answers to other queries keep coming (dns.rs   *)
(* 267-296); and the relay's handler that awaits a connect comes back to   *)
(* the VM's other frames (proxy.rs handle_tcp_syn).                        *)
WaitsEnd ==
  /\ <>(machine = "http" => call.result # "none")
  /\ Waiting ~> ~Waiting
  /\ \A k \in TcpKeys : (connecting = k) ~> Ready
=============================================================================
