-------------------------------- MODULE Bus ---------------------------------
(***************************************************************************)
(* The system bus (bus.rs): which device an access of 1, 2, 4 or 8 bytes   *)
(* reaches, at which offset, and what it faults with; the bounds of the    *)
(* DRAM (dram.rs); and the registers of the SysInfo device                 *)
(* (devices/sysinfo.rs), through which a guest reports to its host.        *)
(***************************************************************************)
EXTENDS Integers, Sequences, SequencesExt

CONSTANTS
  DramBase,       \* 2^31 in the code
  DramSize,
  VirtioCount,    \* virtio_devices.len()
  Probes,         \* the addresses that are checked, 0 among them
  SysWords        \* 32-bit values that the guest stores, 0 among them

VARIABLES probe,     \* the address that is accessed
          sysinfo,   \* the six registers, [lo, hi] each
          words      \* ghost: the same as twelve words of memory

bVars == <<probe, sysinfo, words>>

-----------------------------------------------------------------------------
(* The memory map.                                                         *)

Region(name, base, size) == [name |-> name, base |-> base, size |-> size]

\* The order of the tests in the slow paths.
Map == <<Region("finisher", 1048576, 4096),      \* 0x0010_0000
         Region("sysinfo", 1114112, 4096),       \* 0x0011_0000
         Region("clint", 33554432, 65536),       \* 0x0200_0000
         Region("plic", 201326592, 67108864),    \* 0x0C00_0000
         Region("uart", 268435456, 256)>>        \* 0x1000_0000

VirtioBase == 268439552                          \* 0x1000_1000
VirtioStride == 4096
VirtioSlots == 8

\* Mutant: the end of a region is taken as part of it.
InsideOrAfter(r, addr) == addr >= r.base /\ addr <= r.base + r.size

Inside(r, addr) == addr >= r.base /\ addr < r.base + r.size

Fault(kind) == [to |-> "fault", at |-> 0, kind |-> kind]
Device(name, offset) == [to |-> name, at |-> offset, kind |-> "access"]

\* get_virtio_device: a device, however far the slots go.
VirtioDevice(addr) ==
  LET slot == (addr - VirtioBase) \div VirtioStride
  IN  addr >= VirtioBase /\ slot < VirtioCount

\* is_virtio_region: a slot, with or without a device.
VirtioRegion(addr) ==
  addr >= VirtioBase /\ addr < VirtioBase + VirtioStride * VirtioSlots

\* The slow path.  A VirtIO device ignores stores that are not of 4 bytes.
\* An empty slot reads zero and ignores stores of 4 and 8 bytes; shorter
\* stores to it fault.
Slow(addr, width, store) ==
  LET hits == SelectSeq(Map, LAMBDA r : Inside(r, addr))
      r == Head(hits)
  IN  IF hits # <<>>
      THEN IF r.name = "finisher" /\ store THEN Fault("RequestedTrap")
           ELSE Device(r.name, addr - r.base)
      ELSE IF VirtioDevice(addr)
      THEN Device(IF store /\ width # 4 THEN "nothing" ELSE "virtio", addr - VirtioBase)
      ELSE IF VirtioRegion(addr) /\ (store => width \in {4, 8})
      THEN Device("nothing", addr - VirtioBase)
      ELSE Fault("AccessFault")

\* Dram::load_*, store_*: aligned and inside.
DramAccess(offset, width) ==
  IF offset % width = 0 /\ offset + width <= DramSize THEN Device("dram", offset)
  ELSE Fault("AccessFault")

BusAccess(addr, width, store) ==
  IF addr % width # 0 THEN Fault("Misaligned")
  ELSE IF addr >= DramBase /\ addr - DramBase < DramSize
  THEN DramAccess(addr - DramBase, width)
  ELSE Slow(addr, width, store)

\* The bytes of a VirtIO register that a load gets: a narrow one extracts
\* them from the 32-bit register, a wide one reads two registers.
VirtioBytes(offset, width) ==
  LET from(reg, first, n) == [i \in 1..n |-> <<reg, first + i - 1>>]
  IN  IF width = 8 THEN from(offset, 0, 4) \o from(offset + 4, 0, 4)
      ELSE from(offset - (offset % 4), offset % 4, width)

-----------------------------------------------------------------------------
(* SysInfo.                                                                *)

CpuCount == 32

Wide == {0, 8, 16, 24, 40}       \* the offsets of the 64-bit registers

SysInfoLoad(regs, offset, size) ==
  CASE offset \in Wide /\ size = 8 -> regs[offset]
    [] offset \in Wide /\ size = 4 -> [lo |-> regs[offset].lo, hi |-> 0]
    [] offset - 4 \in Wide /\ size = 4 -> [lo |-> regs[offset - 4].hi, hi |-> 0]
    [] offset = CpuCount /\ size \in {4, 8} -> [lo |-> regs[CpuCount].lo, hi |-> 0]
    [] OTHER -> [lo |-> 0, hi |-> 0]

SysInfoStore(regs, offset, size, v) ==
  CASE offset \in Wide /\ size = 8 -> [regs EXCEPT ![offset] = v]
    [] offset \in Wide /\ size = 4 -> [regs EXCEPT ![offset].lo = v.lo]
    [] offset - 4 \in Wide /\ size = 4 -> [regs EXCEPT ![offset - 4].hi = v.lo]
    [] offset = CpuCount /\ size \in {4, 8} -> [regs EXCEPT ![CpuCount].lo = v.lo]
    [] OTHER -> regs

BusInit ==
  /\ probe \in Probes
  /\ sysinfo = [r \in Wide \cup {CpuCount} |->
                  [lo |-> IF r = CpuCount THEN 1 ELSE 0, hi |-> 0]]
  /\ words = [w \in 0..11 |-> IF 4 * w = CpuCount THEN 1 ELSE 0]

\* A guest stores to the device, at any offset a bus access can have (with
\* one probe: no other access has to do with it).
GuestReports ==
  /\ probe = 0 /\ UNCHANGED probe
  /\ \E size \in {1, 2, 4, 8}, offset \in {0, 4, 32, 36, 40, 44}, lo \in SysWords, hi \in SysWords :
      /\ offset % size = 0 /\ (size < 8 => hi = 0)
      /\ sysinfo' = SysInfoStore(sysinfo, offset, size, [lo |-> lo, hi |-> hi])
      /\ words' = IF size < 4 THEN words
                  ELSE [w \in 0..11 |-> CASE w = offset \div 4 -> lo
                                          [] size = 8 /\ w = offset \div 4 + 1 -> hi
                                          [] OTHER -> words[w]]

-----------------------------------------------------------------------------
(* Properties.                                                             *)

Widths == {1, 2, 4, 8}

Loads(addr, width) == BusAccess(addr, width, FALSE)

\* An access that has an effect stays in one device, at consecutive offsets.
OneDevice ==
  \A width \in Widths, store \in BOOLEAN :
    LET a == BusAccess(probe, width, store)
    IN  a.to \notin {"fault", "nothing"} =>
          \A i \in 0..(width - 1) :
            Loads(probe + i, 1) = [a EXCEPT !.at = @ + i]

\* A wide load of a VirtIO register is its narrow loads put together.
VirtioLoadsCompose ==
  \A width \in {2, 4, 8} :
    VirtioDevice(probe) /\ probe % width = 0 =>
      VirtioBytes(probe - VirtioBase, width) =
        FlattenSeq([i \in 1..width |-> VirtioBytes(probe - VirtioBase + i - 1, 1)])

\* A load of a word of SysInfo gives the last word stored there, alone or as
\* half of a doubleword.  The upper half of CPU_COUNT reads zero.
SysInfoIsMemory ==
  LET word(w) == IF 4 * w = CpuCount + 4 THEN 0 ELSE words[w]
  IN  \A w \in 0..11 :
        /\ SysInfoLoad(sysinfo, 4 * w, 4).lo = word(w)
        /\ w % 2 = 0 => SysInfoLoad(sysinfo, 4 * w, 8) = [lo |-> word(w), hi |-> word(w + 1)]

\* An access of n bytes is the same as its parts: no access starts in a
\* device and ends in another or past the end of the DRAM, and the parts of
\* a register of a VirtIO device or of SysInfo compose, whatever widths they
\* were stored with (read8 to write64 of bus.rs, SysInfo::load and store).
AccessComposes == OneDevice /\ VirtioLoadsCompose /\ SysInfoIsMemory

=============================================================================
