------------------------------- MODULE MCHosts -------------------------------
(***************************************************************************)
(* The machines around the harts for TLC, one in each behaviour: the timer *)
(* and the bus, the console ring, the native and the WASM host, and their  *)
(* networks.  The others rest in an initial state.                         *)
(***************************************************************************)
EXTENDS Clint, Bus, SharedRing, NativeVm, WasmSmp, WebTransport

VARIABLE machine

vars == <<machine, cVars, bVars, ringVars, nVars, wVars, uVars, webVars>>

-----------------------------------------------------------------------------
\* On the shared board mtimecmp and msip are words of memory.
MCRegisters ==
  [b \in Boards |-> [h \in ClintHarts |->
     IF b = "native" THEN {<<"mtimecmp", 0>>, <<"msip", 1>>, <<"mtime", 0>>}
     ELSE {<<"mtimecmp", h>>, <<"msip", 0>>}]]

\* The shared mtime does not carry into its high word: TimerIsDue is about the
\* reads of one word, and a carry between two words is torn (see the README).
MCTicks == [native |-> 2, shared |-> 1]

\* The addresses near every edge of the memory map.
MCProbes ==
  LET edges == UNION {{r.base, r.base + r.size} : r \in Range(Map)}
                 \cup {VirtioBase + n * VirtioStride : n \in 0..VirtioSlots}
                 \cup {DramBase, DramBase + DramSize}
  IN  {0} \cup UNION {(e - 9)..(e + 9) : e \in edges}

-----------------------------------------------------------------------------
Machines == {"clint", "bus", "ring", "native", "wasm", "uplink", "web"}

Init ==
  /\ machine \in Machines
  /\ ClintInit /\ BusInit /\ RingInit /\ NativeInit
  /\ WasmInit /\ UplinkInit /\ WebInit
  /\ machine # "bus" => probe = 0
  /\ machine # "clint" => board = "native"
  /\ machine # "ring" => cells = [s \in Slots |-> 0]

Next ==
  /\ UNCHANGED machine
  /\ \/ /\ machine = "clint" /\ ClintNext
        /\ UNCHANGED <<bVars, ringVars, nVars, wVars, uVars, webVars>>
     \/ /\ machine = "bus" /\ GuestReports
        /\ UNCHANGED <<cVars, ringVars, nVars, wVars, uVars, webVars>>
     \/ /\ machine = "ring" /\ RingNext
        /\ UNCHANGED <<cVars, bVars, nVars, wVars, uVars, webVars>>
     \/ /\ machine = "native" /\ NativeNext
        /\ UNCHANGED <<cVars, bVars, ringVars, wVars, uVars, webVars>>
     \/ /\ machine = "wasm" /\ WasmNext
        /\ UNCHANGED <<cVars, bVars, ringVars, nVars, uVars, webVars>>
     \/ /\ machine = "uplink" /\ UplinkNext
        /\ UNCHANGED <<cVars, bVars, ringVars, nVars, wVars, webVars>>
     \/ /\ machine = "web" /\ WebNext
        /\ UNCHANGED <<cVars, bVars, ringVars, nVars, wVars, uVars>>

\* The fairness of each machine, of the one that runs.
Fairness ==
  /\ WF_nVars(machine = "native" /\ MainNext)
  /\ \A t \in Threads : WF_nVars(machine = "native" /\ ThreadNext(t))
  /\ WF_wVars(machine = "wasm" /\ PageNext)
  /\ \A w \in Workers : WF_wVars(machine = "wasm" /\ WorkerNext(w))
  /\ WF_uVars(machine = "uplink" /\ IoNext)
  /\ WF_uVars(machine = "uplink" /\ SendCheck)
  /\ WF_uVars(machine = "uplink" /\ Wake)

Spec == Init /\ [][Next]_vars /\ Fairness

=============================================================================
