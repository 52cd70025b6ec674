-------------------------------- MODULE Mmu ---------------------------------
(***************************************************************************)
(* Address translation (mmu.rs, and its callers in cpu/): every hart has a *)
(* direct-mapped TLB in front of a walk of the page tables in DRAM.  The   *)
(* walk is one load per level and, for the accessed and dirty bits, a      *)
(* store of the whole entry that was loaded, so that other harts and the   *)
(* guest's own stores come in between.                                     *)
(*                                                                         *)
(* Pages have no offset: a virtual address is a page number with one bit   *)
(* more than the tables translate, which stands for the upper bits that    *)
(* the canonical form fixes.  A table has Fan entries instead of 512.      *)
(***************************************************************************)
EXTENDS Integers, FiniteSets

CONSTANTS
  MmuHarts,
  Levels,       \* 3 for Sv39, 4 for Sv48
  Fan,          \* entries of a table: 512
  TlbSize,      \* 64
  TablePages,   \* the page numbers that are in DRAM
  Satps,        \* per hart, values written to satp: [sv, asid, root]
  Contexts,     \* [mode, sum, mxr] of an access
  Requests,     \* per hart, accesses that miss the TLB: [va, access, ctx]
  Edits,        \* stores of the guest to a table: <<address, entry>>
  MaxEdits,     \* bound on these stores
  Absent        \* no entry, no walk, no outcome

VARIABLES
  ptes,         \* the page tables: address -> entry
  satp,         \* per hart
  tlb,          \* per hart: slot -> entry or Absent
  walk,         \* per hart: the walk under way
  edits,        \* stores of the guest so far
  outcome,      \* ghost: the hart, the access and the result of the walk that ended
  seen          \* ghost: per hart, what each address held since its last flush

mVars == <<ptes, satp, tlb, walk, edits, outcome, seen>>

-----------------------------------------------------------------------------
(* Addresses and entries.                                                  *)

Accesses == {"Instruction", "Load", "Store"}

\* Upper and sign bits agree.
Canonical(va) ==
  LET sign == (va % Fan^Levels) >= Fan^Levels \div 2
  IN  (va >= Fan^Levels) = sign

Index(vpn, i) == (vpn \div Fan^i) % Fan

PteAddr(page, vpn, i) == <<page, Index(vpn, i)>>

Malformed(pte) == "V" \notin pte.bits \/ ("W" \in pte.bits /\ "R" \notin pte.bits)
IsPointer(pte) == pte.bits \cap {"R", "X"} = {}
Perm(pte)      == pte.bits \cap {"R", "W", "X", "U", "G", "A", "D"}

PageFault(access)   == <<"PageFault", access>>
BusRefuses(access)  == <<"AccessFault", access>>

-----------------------------------------------------------------------------
(* The TLB.                                                                *)

EmptyTlb == [s \in 0 .. TlbSize - 1 |-> Absent]

Slot(vpn) == vpn % TlbSize

TlbLookup(h, vpn) ==
  LET e == tlb[h][Slot(vpn)]
  IN  IF /\ e # Absent
         /\ e.vpn = vpn
         /\ "G" \in e.perm \/ e.asid = satp[h].asid
      THEN e ELSE Absent

TlbInsert(h, e) == tlb' = [tlb EXCEPT ![h][Slot(e.vpn)] = e]

CheckPermission(c, perm, access) ==
  /\ c.mode = "S" /\ "U" \in perm => access # "Instruction" /\ c.sum
  /\ c.mode = "U" => "U" \in perm
  /\ CASE access = "Instruction" -> "X" \in perm
       [] access = "Store" -> "W" \in perm
       [] access = "Load"  -> "R" \in perm \/ (c.mxr /\ "X" \in perm)

-----------------------------------------------------------------------------
(* translate.  A hit changes nothing, so it is an answer and not an        *)
(* action; a miss starts a walk.                                           *)

Ends(h, req, result) == outcome' = [hart |-> h, req |-> req, result |-> result]

NoOutcome == outcome' = Absent

\* The answer without a walk: machine mode and Bare, a non-canonical address, a
\* hit in the TLB.
Direct(h, req) ==
  LET vpn == req.va % Fan^Levels
      e   == TlbLookup(h, vpn)
  IN  CASE req.ctx.mode = "M" \/ ~satp[h].sv -> <<"Ok", req.va>>
        [] req.ctx.mode # "M" /\ satp[h].sv /\ ~Canonical(req.va) ->
             PageFault(req.access)
        [] req.ctx.mode # "M" /\ satp[h].sv /\ Canonical(req.va) /\ e # Absent ->
             IF CheckPermission(req.ctx, e.perm, req.access)
             THEN <<"Ok", e.ppn>> ELSE PageFault(req.access)
        [] OTHER -> Absent

StartWalk(h) ==
  /\ walk[h] = Absent
  /\ \E req \in Requests[h] :
       /\ Direct(h, req) = Absent
       /\ walk' = [walk EXCEPT ![h] = [req |-> req, level |-> Levels - 1,
                                      page |-> satp[h].root, leaf |-> Absent]]
  /\ NoOutcome
  /\ UNCHANGED <<ptes, satp, tlb, edits, seen>>

Aligned(ppn, i) == ppn % Fan^i = 0

\* Mutant: a superpage maps every address to its first page.
FirstPage(ppn, vpn, i) == ppn - (ppn % Fan^i)

\* The low part of a superpage's page number comes from the address.
ResultPpn(ppn, vpn, i) == ppn - (ppn % Fan^i) + (vpn % Fan^i)

GiveUp(h, result) ==
  /\ Ends(h, walk[h].req, result)
  /\ walk' = [walk EXCEPT ![h] = Absent]
  /\ UNCHANGED tlb

\* What the walk does with a leaf: the bits to set, then the entry to insert.
Marks(pte, access) ==
  {"A"} \cup (IF access = "Store" THEN {"D"} ELSE {})

Complete(h, pte, i) ==
  LET req == walk[h].req
      vpn == req.va % Fan^Levels
      ppn == ResultPpn(pte.ppn, vpn, i)
  IN  /\ TlbInsert(h, [vpn |-> vpn, ppn |-> ppn, asid |-> satp[h].asid,
                       perm |-> Perm(pte) \cup Marks(pte, req.access), level |-> i])
      /\ Ends(h, req, <<"Ok", ppn>>)
      /\ walk' = [walk EXCEPT ![h] = Absent]

\* One iteration of the loop, up to the store of the marked entry if there is
\* one to make.
WalkLevel(h) ==
  /\ walk[h] # Absent
  /\ walk[h].leaf = Absent
  /\ LET w    == walk[h]
         addr == PteAddr(w.page, w.req.va % Fan^Levels, w.level)
         pte  == ptes[addr]
         bad  == PageFault(w.req.access)
     IN  IF w.page \notin TablePages THEN GiveUp(h, BusRefuses(w.req.access))
         ELSE IF Malformed(pte) THEN GiveUp(h, bad)
         ELSE IF IsPointer(pte)
         THEN IF w.level = 0 THEN GiveUp(h, bad)
              ELSE /\ walk' = [walk EXCEPT ![h].level = @ - 1, ![h].page = pte.ppn]
                   /\ NoOutcome
                   /\ UNCHANGED tlb
         ELSE IF ~CheckPermission(w.req.ctx, Perm(pte), w.req.access)
                 \/ ~Aligned(pte.ppn, w.level)
         THEN GiveUp(h, bad)
         ELSE IF Marks(pte, w.req.access) \subseteq pte.bits
         THEN Complete(h, pte, w.level)
         ELSE /\ walk' = [walk EXCEPT ![h].leaf = pte]
              /\ NoOutcome
              /\ UNCHANGED tlb
  /\ UNCHANGED <<ptes, satp, edits, seen>>

Unmarked(pte) == [pte EXCEPT !.bits = @ \ {"A", "D"}]

\* Every hart that has not flushed since sees a store to a table.
SeenToo(addr, pte) ==
  [h \in MmuHarts |-> [seen[h] EXCEPT ![addr] = @ \cup {Unmarked(pte)}]]

\* The entry as it was loaded, with the bits added, overwrites what is there.
MarkInMemory(addr, pte, access) ==
  LET new == [pte EXCEPT !.bits = @ \cup Marks(pte, access)]
  IN  /\ ptes' = [ptes EXCEPT ![addr] = new]
      /\ seen' = SeenToo(addr, new)

UpdateAccessedDirty(h) ==
  /\ walk[h] # Absent
  /\ walk[h].leaf # Absent
  /\ LET w == walk[h]
     IN  /\ MarkInMemory(PteAddr(w.page, w.req.va % Fan^Levels, w.level),
                         w.leaf, w.req.access)
         /\ Complete(h, w.leaf, w.level)
  /\ UNCHANGED <<satp, edits>>

-----------------------------------------------------------------------------
(* The guest: stores to its tables, SFENCE.VMA and writes to satp.         *)

EditTable ==
  /\ edits < MaxEdits
  /\ edits' = edits + 1
  /\ \E e \in Edits : /\ ptes' = [ptes EXCEPT ![e[1]] = e[2]]
                      /\ seen' = SeenToo(e[1], e[2])
  /\ NoOutcome
  /\ UNCHANGED <<satp, tlb, walk>>

FreshView == [a \in DOMAIN ptes |-> {Unmarked(ptes[a])}]

FlushTlb(h) ==
  /\ tlb' = [tlb EXCEPT ![h] = EmptyTlb]
  /\ seen' = [seen EXCEPT ![h] = FreshView]

SfenceVma(h) ==
  /\ walk[h] = Absent
  /\ FlushTlb(h)
  /\ NoOutcome
  /\ UNCHANGED <<ptes, satp, walk, edits>>

WriteSatp(h) ==
  /\ walk[h] = Absent
  /\ \E s \in Satps[h] : satp' = [satp EXCEPT ![h] = s]
  /\ FlushTlb(h)
  /\ NoOutcome
  /\ UNCHANGED <<ptes, walk, edits>>

MmuNext ==
  \/ EditTable
  \/ \E h \in MmuHarts : \/ StartWalk(h) \/ WalkLevel(h) \/ UpdateAccessedDirty(h)
                         \/ SfenceVma(h) \/ WriteSatp(h)

-----------------------------------------------------------------------------
(* The reference: what a walk without a TLB answers, when each table entry *)
(* is one of those in view.                                                *)

\* The pages that a mode may use at all, by the entry's U bit.
MayUse(c, bits, access) ==
  IF "U" \in bits THEN c.mode = "U" \/ (c.sum /\ access # "Instruction")
  ELSE c.mode = "S"

Wants(c, access) ==
  CASE access = "Instruction" -> {"X"}
    [] access = "Store" -> {"W"}
    [] access = "Load" -> IF c.mxr THEN {"R", "X"} ELSE {"R"}

RECURSIVE References(_, _, _, _)
References(view, page, i, req) ==
  IF page \notin TablePages THEN {BusRefuses(req.access)}
  ELSE UNION {
    LET leaf == pte.bits \cap {"R", "X"} # {}
    IN  IF /\ leaf /\ ~Malformed(pte)
           /\ MayUse(req.ctx, pte.bits, req.access)
           /\ Wants(req.ctx, req.access) \cap pte.bits # {}
           /\ pte.ppn % Fan^i = 0
        THEN {<<"Ok", pte.ppn + (req.va % Fan^i)>>}
        ELSE IF ~leaf /\ ~Malformed(pte) /\ i > 0
        THEN References(view, pte.ppn, i - 1, req)
        ELSE {PageFault(req.access)} :
    pte \in view[PteAddr(page, req.va % Fan^Levels, i)]}

\* The requests of hart h that its TLB answers.
Cached(h) ==
  IF satp[h].sv
  THEN {va \in 0 .. 2 * Fan^Levels - 1 :
          Canonical(va) /\ TlbLookup(h, va % Fan^Levels) # Absent}
  ELSE {}

Hits(h) == [va : Cached(h), access : Accesses, ctx : {c \in Contexts : c.mode # "M"}]

ReferencesFor(h, req) == References(seen[h], satp[h].root, Levels - 1, req)

-----------------------------------------------------------------------------
(* Properties.                                                             *)

\* What translate answers, the page or the fault, is what the tables say with
\* entries that they held since the hart's last SFENCE.VMA or write to satp.
\* A hit in the TLB never shows an entry of another page, address space or
\* privilege, or of before the flush; and so for a walk, while other harts
\* mark entries and the guest stores to the tables between its loads.
TranslationIsCurrent ==
  /\ \A h \in MmuHarts : \A req \in Hits(h) : Direct(h, req) \in ReferencesFor(h, req)
  /\ outcome # Absent =>
       outcome.result \in ReferencesFor(outcome.hart, outcome.req)

=============================================================================
