---------------------------- MODULE WebTransport ----------------------------
(***************************************************************************)
(* The network path of a VM to the relay, in a native build and in the     *)
(* browser (net/async_backend.rs and the two modules of                    *)
(* net/webtransport.rs).  The relay and the network may lose a datagram or *)
(* the connection at any time.                                             *)
(*                                                                         *)
(* Native: VirtioNet hands frames to the channel of AsyncNetworkBackend,   *)
(* its I/O thread moves them to the channel of WebTransportBackend, and    *)
(* that one's thread sends them to the relay as datagrams while it keeps,  *)
(* and when lost renews, a connection.                                     *)
(*                                                                         *)
(* Browser: everything runs on the page's one thread, an asynchronous task *)
(* per connection, which stops at every await, heartbeat intervals,        *)
(* handlers of visibility changes, and a timeout that starts the next      *)
(* connection.  A generation counter tells a task that it has been         *)
(* superseded.                                                             *)
(***************************************************************************)
EXTENDS Integers, Sequences, FiniteSets

CONSTANTS
  Addresses,     \* the addresses the relay may assign
  NoAddress,     \* none yet
  InitialDelay, MaxDelay,      \* INITIAL_ and MAX_RECONNECT_DELAY_SECS: 2 and 30
  MaxFrames, MaxInbound, MaxAttempts,  \* bounds
  NoGen, MaxGen   \* no generation; bound on the connections

-----------------------------------------------------------------------------
(* The native build.                                                       *)

VARIABLES
  toIo, toVm,        \* AsyncNetworkBackend's channels
  toNet, fromNet,    \* WebTransportBackend's channels
  ioAt,              \* where the I/O thread is
  dropped,           \* the VM has dropped its backend: the shutdown flag
  guestIp,           \* AsyncNetworkBackend.assigned_ip
  link,              \* where the connection thread is
  delay,             \* reconnect_delay
  registered, netIp, \* WebTransportBackend's registered and assigned_ip
  sentFrames, inbound,   \* frames sent by the guest and by the relay
  attempts               \* connection attempts

uVars == <<toIo, toVm, toNet, fromNet, ioAt, dropped, guestIp, link, delay, registered, netIp,
           sentFrames, inbound, attempts>>

UplinkInit ==
  /\ toIo = <<>> /\ toVm = <<>> /\ toNet = <<>> /\ fromNet = <<>>
  /\ ioAt = "check" /\ dropped = FALSE /\ guestIp = NoAddress
  /\ link = "attempt" /\ delay = InitialDelay
  /\ registered = FALSE /\ netIp = NoAddress
  /\ sentFrames = 0 /\ inbound = 0 /\ attempts = 0

-----------------------------------------------------------------------------
(* The VM's side.                                                          *)

GuestSends ==
  /\ ~dropped
  /\ sentFrames < MaxFrames
  /\ sentFrames' = sentFrames + 1
  /\ toIo' = IF ioAt = "exited" THEN toIo ELSE Append(toIo, sentFrames + 1)
  /\ UNCHANGED <<toVm, toNet, fromNet, ioAt, dropped, guestIp, link, delay, registered, netIp,
                 inbound, attempts>>

GuestReceives ==
  /\ ~dropped
  /\ toVm # <<>>
  /\ toVm' = Tail(toVm)
  /\ UNCHANGED <<toIo, toNet, fromNet, ioAt, dropped, guestIp, link, delay, registered, netIp,
                 sentFrames, inbound, attempts>>

\* drop: the flag is set, and both channels lose their VM end.
DropBackend ==
  /\ ~dropped
  /\ dropped' = TRUE
  /\ UNCHANGED <<toIo, toVm, toNet, fromNet, ioAt, guestIp, link, delay, registered, netIp,
                 sentFrames, inbound, attempts>>

-----------------------------------------------------------------------------
(* io_loop.                                                                *)

IoCheck ==
  /\ ioAt = "check"
  /\ ioAt' = IF dropped THEN "exited" ELSE "drain"
  /\ UNCHANGED <<toIo, toVm, toNet, fromNet, dropped, guestIp, link, delay, registered, netIp,
                 sentFrames, inbound, attempts>>

WhenDrained == IF dropped THEN "exited" ELSE "receive"

\* A frame for a thread that is gone is dropped with a warning.
IoDrain ==
  /\ ioAt = "drain"
  /\ IF toIo = <<>> THEN ioAt' = WhenDrained /\ UNCHANGED <<toIo, toNet>>
     ELSE /\ toIo' = Tail(toIo)
          /\ toNet' = IF link = "gone" THEN toNet ELSE Append(toNet, Head(toIo))
          /\ UNCHANGED ioAt
  /\ UNCHANGED <<toVm, fromNet, dropped, guestIp, link, delay, registered, netIp,
                 sentFrames, inbound, attempts>>

\* One frame at a time; with nobody to receive it the thread exits.
IoReceive ==
  /\ ioAt = "receive"
  /\ IF fromNet = <<>> THEN ioAt' = "ip" /\ UNCHANGED <<toVm, fromNet>>
     ELSE /\ fromNet' = Tail(fromNet)
          /\ toVm' = IF dropped THEN toVm ELSE Append(toVm, Head(fromNet))
          /\ ioAt' = IF dropped THEN "exited" ELSE "ip"
  /\ UNCHANGED <<toIo, toNet, dropped, guestIp, link, delay, registered, netIp,
                 sentFrames, inbound, attempts>>

\* The address is taken over once, and never replaced.
IoAddress ==
  /\ ioAt = "ip"
  /\ ioAt' = "check"
  /\ guestIp' = IF netIp # NoAddress /\ guestIp = NoAddress THEN netIp ELSE guestIp
  /\ UNCHANGED <<toIo, toVm, toNet, fromNet, dropped, link, delay, registered, netIp,
                 sentFrames, inbound, attempts>>

IoNext == IoCheck \/ IoDrain \/ IoReceive \/ IoAddress

-----------------------------------------------------------------------------
(* The connection thread.                                                  *)

Doubled(d) == IF 2 * d <= MaxDelay THEN 2 * d ELSE MaxDelay

\* Every failure sleeps for the delay and doubles it.
Fails(d) == /\ link' = "sleep"
            /\ delay' = Doubled(d)

\* One attempt: no endpoint or no connection, no registration sent, or a link.
Connect ==
  /\ link = "attempt"
  /\ registered' = FALSE
  /\ attempts' = attempts + 1
  /\ \/ Fails(delay)
     \/ Fails(InitialDelay)
     \/ link' = "up" /\ delay' = InitialDelay
  /\ UNCHANGED <<toIo, toVm, toNet, fromNet, ioAt, dropped, guestIp, netIp, sentFrames, inbound>>

Wake ==
  /\ link = "sleep"
  /\ attempts < MaxAttempts
  /\ link' = "attempt"
  /\ UNCHANGED <<toIo, toVm, toNet, fromNet, ioAt, dropped, guestIp, delay, registered, netIp,
                 sentFrames, inbound, attempts>>

\* Mutant: a disconnected channel is taken for an empty one.
StaysUp == "up"

WhenDisconnected == "gone"

\* The send check: each frame is sent, or ends the connection and is lost;
\* with the I/O thread gone and nothing left the thread ends.
SendCheck ==
  /\ link = "up"
  /\ \/ /\ toNet # <<>>
        /\ toNet' = Tail(toNet)
        /\ UNCHANGED <<link, delay>> \/ Fails(delay)
     \/ /\ toNet = <<>>
        /\ ioAt = "exited"
        /\ link' = WhenDisconnected
        /\ UNCHANGED <<toNet, delay>>
  /\ UNCHANGED <<toIo, toVm, fromNet, ioAt, dropped, guestIp, registered, netIp, sentFrames,
                 inbound, attempts>>

\* A heartbeat that cannot be sent, or an error while receiving.
LinkLost ==
  /\ link = "up"
  /\ Fails(delay)
  /\ UNCHANGED <<toIo, toVm, toNet, fromNet, ioAt, dropped, guestIp, registered, netIp,
                 sentFrames, inbound, attempts>>

\* Assigned: the relay's answer to the registration.
HearAssigned ==
  /\ link = "up"
  /\ registered' = TRUE
  /\ netIp' \in Addresses
  /\ UNCHANGED <<toIo, toVm, toNet, fromNet, ioAt, dropped, guestIp, link, delay, sentFrames,
                 inbound, attempts>>

\* A data frame, or a datagram lost on the way.
HearFrame ==
  /\ link = "up"
  /\ inbound < MaxInbound
  /\ inbound' = inbound + 1
  /\ fromNet' \in {fromNet, IF ioAt = "exited" THEN fromNet ELSE Append(fromNet, inbound + 1)}
  /\ UNCHANGED <<toIo, toVm, toNet, ioAt, dropped, guestIp, link, delay, registered, netIp,
                 sentFrames, attempts>>

-----------------------------------------------------------------------------
UplinkNext ==
  \/ GuestSends \/ GuestReceives \/ DropBackend \/ IoNext
  \/ Connect \/ Wake \/ SendCheck \/ LinkLost \/ HearAssigned \/ HearFrame

\* Both threads run; the relay and the network owe nothing.
UplinkFairness == WF_uVars(IoNext) /\ WF_uVars(SendCheck) /\ WF_uVars(Wake)

UplinkSpec == UplinkInit /\ [][UplinkNext]_uVars /\ UplinkFairness

\* Dropping the backend ends the I/O thread, and the connection thread unless
\* it is between connections.
DropEndsThreads == dropped ~> (ioAt = "exited" /\ link # "up")

-----------------------------------------------------------------------------
(* The browser.                                                            *)

VARIABLES
  generation,   \* connection_generation
  webState,     \* connection_state and registered
  hbInterval,   \* heartbeat_interval_id: the interval's generation, or NoGen
  intervals,    \* the generations whose interval the browser is running
  handlers,     \* the generations whose visibility handler is installed
  writer,       \* the generation of the stored transport and writer, or NoGen
  tasks,        \* the connection tasks: generation and the await they are at
  timeouts,     \* reconnections scheduled
  beats         \* ghost: the generations that have sent a heartbeat since the last step

webVars == <<generation, webState, hbInterval, intervals, handlers, writer, tasks, timeouts, beats>>

Gens == 1..MaxGen

ASSUME NoGenAssumption == NoGen \notin Gens /\ MaxGen \in Nat

WebInit ==
  /\ generation = 0
  /\ webState = [conn |-> "Disconnected", registered |-> FALSE]
  /\ hbInterval = NoGen /\ intervals = {} /\ handlers = {} /\ writer = NoGen
  /\ tasks = {} /\ timeouts = 1   \* init calls start_connection
  /\ beats = {}

\* start_connection, called by init or by the timeout.
ClearInterval == intervals \ {hbInterval}

StartConnection ==
  /\ timeouts > 0
  /\ generation < MaxGen
  /\ timeouts' = timeouts - 1
  /\ generation' = generation + 1
  /\ webState' = [conn |-> "Connecting", registered |-> FALSE]
  /\ intervals' = ClearInterval /\ hbInterval' = NoGen
  /\ tasks' = tasks \cup {[gen |-> generation + 1, at |-> "spawned"]}
  /\ beats' = {}
  /\ UNCHANGED <<handlers, writer>>

Superseded(t) == t.gen # generation

Moves(t, at) == tasks' = (tasks \ {t}) \cup {[t EXCEPT !.at = at]}

\* schedule_reconnect from a task that ends.
Reconnects(t) == /\ tasks' = tasks \ {t}
                 /\ timeouts' = timeouts + 1

Abandons(t) == tasks' = tasks \ {t} /\ UNCHANGED <<webState, timeouts>>

\* The task starts (its certificate hash decodes): superseded, no transport or no writer, or it waits for ready.
Spawned(t) ==
  /\ t.at = "spawned"
  /\ IF Superseded(t) THEN Abandons(t)
     ELSE \/ webState' = [webState EXCEPT !.conn = "Disconnected"] /\ Reconnects(t)
          \/ Moves(t, "ready") /\ UNCHANGED <<webState, timeouts>>
  /\ beats' = {}
  /\ UNCHANGED <<generation, hbInterval, intervals, handlers, writer>>

\* ready: the handshake ends, and the registration is written; or it fails.
Ready(t) ==
  /\ t.at = "ready"
  /\ \/ IF Superseded(t) THEN Abandons(t)
        ELSE Moves(t, "register") /\ UNCHANGED <<webState, timeouts>>
     \/ webState' = [webState EXCEPT !.conn = "Disconnected"] /\ Reconnects(t)
  /\ beats' = {}
  /\ UNCHANGED <<generation, hbInterval, intervals, handlers, writer>>

\* The registration is written: everything is stored and the reader starts.
Registered(t) ==
  /\ t.at = "register"
  /\ \/ /\ webState' = [webState EXCEPT !.conn = "Disconnected"]
        /\ Reconnects(t)
        /\ UNCHANGED <<hbInterval, intervals, handlers, writer>>
     \/ /\ writer' = t.gen
        /\ hbInterval' = t.gen /\ intervals' = intervals \cup {t.gen}
        /\ handlers' = handlers \cup {t.gen}
        /\ webState' = [webState EXCEPT !.conn = "Connected"]
        /\ Moves(t, "read")
        /\ UNCHANGED timeouts
  /\ beats' = {}
  /\ UNCHANGED generation

\* A message: Assigned, or a frame for the queue.
ReadMessage(t) ==
  /\ t.at = "read"
  /\ ~Superseded(t)
  /\ webState' = [webState EXCEPT !.registered = TRUE]
  /\ beats' = {}
  /\ UNCHANGED <<generation, hbInterval, intervals, handlers, writer, tasks, timeouts>>

\* The stream ends, fails, or the generation has changed.
\* Mutant: a connection that ends is not renewed.
NoReconnect(t) == tasks' = tasks \ {t} /\ UNCHANGED timeouts

AfterReading(t) == IF Superseded(t) THEN tasks' = tasks \ {t} /\ UNCHANGED timeouts
                   ELSE Reconnects(t)

ReadEnds(t) ==
  /\ t.at = "read"
  /\ IF Superseded(t) THEN UNCHANGED <<webState, hbInterval, intervals>>
     ELSE /\ webState' = [conn |-> "Disconnected", registered |-> FALSE]
          /\ intervals' = ClearInterval /\ hbInterval' = NoGen
  /\ writer' = NoGen
  /\ AfterReading(t)
  /\ beats' = {}
  /\ UNCHANGED <<generation, handlers>>

\* The interval or a visibility change: both look at the generation first.
Beat(g) ==
  /\ g \in intervals \cup handlers
  /\ beats' = IF g = generation THEN {g} ELSE {}
  /\ UNCHANGED <<generation, webState, hbInterval, intervals, handlers, writer, tasks, timeouts>>

WebNext ==
  \/ StartConnection
  \/ \E t \in tasks : \/ Spawned(t) \/ Ready(t) \/ Registered(t)
                      \/ ReadMessage(t) \/ ReadEnds(t)
  \/ \E g \in Gens : Beat(g)

WebSpec == WebInit /\ [][WebNext]_webVars

-----------------------------------------------------------------------------
\* There is one connection or one attempt to make it, never two: every path
\* through a task ends in exactly one timeout or in a reader, send writes to
\* the connection that is being read, and only that one has a heartbeat
\* (start_connection, schedule_reconnect).
OneConnection ==
  /\ Cardinality(tasks) + timeouts = 1
  /\ writer # NoGen => [gen |-> writer, at |-> "read"] \in tasks
  /\ intervals \subseteq {writer}
  /\ beats \subseteq {generation}
=============================================================================
