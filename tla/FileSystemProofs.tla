-------------------------- MODULE FileSystemProofs --------------------------
(***************************************************************************)
(* For every cache size, directory, set of names and sequence of requests: *)
(* the cache is transparent to the file system and stays within its        *)
(* maximum.  The invariant says that a clean entry is a copy of its        *)
(* sector, so that evict_lru may drop it, and that the cached sectors are  *)
(* finitely many with natural stamps, so that evict_lru finds a victim.    *)
(***************************************************************************)
EXTENDS FileSystem, FiniteSetTheorems, WellFoundedInduction, TLAPS

CacheInv ==
    /\ DOMAIN disk = Sectors
    /\ clock \in Nat
    /\ IsFiniteSet(DOMAIN blocks)
    /\ Cardinality(DOMAIN blocks) <= CacheMax
    /\ \A s \in DOMAIN blocks : blocks[s].last_access \in Nat
    /\ \A s \in DOMAIN blocks \cap Sectors : ~IsDirty(s) => blocks[s].data = disk[s]

(* A cache with an entry has a least recently used one. *)
LEMMA VictimIsCached ==
  ASSUME CacheInv, DOMAIN blocks # {}
  PROVE  Victim \in DOMAIN blocks
<1> DEFINE T == {blocks[s].last_access : s \in DOMAIN blocks}
<1>1. T \subseteq Nat /\ T # {}
  BY DEF CacheInv
<1>2. PICK x \in T : \A y \in T : ~(<<y, x>> \in OpToRel(<, Nat))
  BY <1>1, NatLessThanWellFounded, WFMin
<1>3. \A y \in T : x <= y
  <2>1. \A y \in Nat, z \in Nat : y < z => <<y, z>> \in OpToRel(<, Nat)
    BY DEF OpToRel
  <2>2. ASSUME NEW y \in T PROVE ~(y < x)
    BY <1>1, <1>2, <2>1
  <2> QED
    BY <1>1, <2>2
<1>4. PICK s \in DOMAIN blocks : blocks[s].last_access = x
  BY <1>2
<1>5. \A t \in DOMAIN blocks : blocks[s].last_access <= blocks[t].last_access
  BY <1>3, <1>4
<1> QED
  BY <1>5 DEF Victim

(* When a full cache takes in a sector there is a victim. *)
LEMMA EvictsAVictim ==
  ASSUME CacheInv, NEW s, Evicts(s)
  PROVE  Victim \in DOMAIN blocks
<1>1. DOMAIN blocks # {}
  BY CacheAssumption, FS_EmptySet DEF Evicts
<1> QED
  BY <1>1, VictimIsCached

(* Installing an entry changes what is seen of its sector and of no other. *)
LEMMA InstallIsTransparent ==
  ASSUME CacheInv, NEW s, NEW content, NEW dirt \in BOOLEAN, Install(s, content, dirt)
  PROVE  View' = [View EXCEPT ![s] = content]
<1>1. ASSUME NEW t \in Sectors
      PROVE  View'[t] = [View EXCEPT ![s] = content][t]
  <2>1. CASE t = s
    BY <2>1 DEF Install, View
  <2>2. CASE t # s /\ t \in KeptSectors(s)
    BY <2>2 DEF Install, View, KeptSectors
  <2>3. CASE t # s /\ t \notin DOMAIN blocks
    <3>1. t \notin DOMAIN blocks' /\ View[t] = disk[t] /\ View'[t] = disk'[t]
      BY <2>3 DEF Install, View, KeptSectors
    <3>2. disk'[t] = disk[t]
      BY <2>3, EvictsAVictim DEF Install, WriteBack, CacheInv
    <3> QED
      BY <2>3, <3>1, <3>2 DEF View
  <2>4. CASE t # s /\ t \in DOMAIN blocks /\ t \notin KeptSectors(s)
    <3>1. Evicts(s) /\ t = Victim
      BY <2>4 DEF KeptSectors
    <3>2. View'[t] = disk'[t] /\ View[t] = blocks[t].data
      BY <2>4 DEF Install, View
    <3>3. disk'[t] = blocks[t].data
      BY <2>4, <3>1 DEF Install, WriteBack, CacheInv, IsDirty
    <3> QED
      BY <2>4, <3>2, <3>3 DEF View
  <2> QED
    BY <2>1, <2>2, <2>3, <2>4
<1> QED
  BY <1>1 DEF View

(* Installing an entry keeps the invariant of the cache; a clean entry has to be a copy. *)
LEMMA InstallCacheInv ==
  ASSUME CacheInv, NEW s, NEW content, NEW dirt \in BOOLEAN, Install(s, content, dirt),
         ~dirt /\ s \in Sectors => content = View[s] /\ ~IsDirty(s)
  PROVE  CacheInv'
<1>1. DOMAIN disk' = Sectors /\ clock' \in Nat
  BY DEF CacheInv, Install, WriteBack
<1>2. DOMAIN blocks' = KeptSectors(s) \cup {s}
  BY DEF Install
<1>3. IsFiniteSet(KeptSectors(s)) /\ IsFiniteSet(DOMAIN blocks')
  <2>1. KeptSectors(s) \subseteq DOMAIN blocks /\ IsFiniteSet(DOMAIN blocks)
    BY DEF CacheInv, KeptSectors
  <2>2. IsFiniteSet(KeptSectors(s))
    BY <2>1, FS_Subset
  <2> QED BY <1>2, <2>2, FS_AddElement
<1>4. Cardinality(DOMAIN blocks') <= CacheMax
  <2>1. CASE s \in DOMAIN blocks
    <3>1. DOMAIN blocks' = DOMAIN blocks
      BY <1>2, <2>1 DEF KeptSectors, Evicts
    <3> QED
      BY <3>1 DEF CacheInv
  <2>2. CASE s \notin DOMAIN blocks /\ Evicts(s)
    <3>1. Cardinality(DOMAIN blocks) \in Nat /\ Victim \in DOMAIN blocks
      BY <2>2, EvictsAVictim, FS_CardinalityType DEF CacheInv
    <3>2. Cardinality(KeptSectors(s)) = Cardinality(DOMAIN blocks) - 1
      BY <2>2, <3>1, FS_RemoveElement DEF CacheInv, KeptSectors
    <3>3. s \notin KeptSectors(s)
      BY <2>2 DEF KeptSectors
    <3>4. Cardinality(DOMAIN blocks') = Cardinality(KeptSectors(s)) + 1
      BY <1>2, <1>3, <3>3, FS_AddElement
    <3> QED
      BY <3>1, <3>2, <3>4 DEF CacheInv
  <2>3. CASE s \notin DOMAIN blocks /\ ~Evicts(s)
    <3>1. Cardinality(DOMAIN blocks) \in Nat /\ ~(Cardinality(DOMAIN blocks) >= CacheMax)
      BY <2>3, FS_CardinalityType DEF CacheInv, Evicts
    <3>2. Cardinality(DOMAIN blocks') = Cardinality(DOMAIN blocks) + 1
      BY <1>2, <2>3, FS_AddElement DEF CacheInv, KeptSectors
    <3> QED
      BY <3>1, <3>2, CacheAssumption
  <2> QED
    BY <2>1, <2>2, <2>3
<1>5. \A t \in DOMAIN blocks' : blocks'[t].last_access \in Nat
  BY DEF CacheInv, Install, KeptSectors, Touch
<1>6. ASSUME NEW t \in DOMAIN blocks' \cap Sectors, ~IsDirty(t)'
      PROVE  blocks'[t].data = disk'[t]
  <2>1. CASE t = s
    <3>1. ~dirt /\ content = View[s] /\ ~IsDirty(s)
      BY <1>2, <1>6, <2>1 DEF Install, IsDirty
    <3>2. View[s] = disk[s]
      BY <2>1, <3>1 DEF View, CacheInv
    <3>3. disk'[s] = disk[s]
      BY <2>1, EvictsAVictim DEF Install, WriteBack, CacheInv, Evicts
    <3> QED
      BY <2>1, <3>1, <3>2, <3>3 DEF Install
  <2>2. CASE t # s
    <3>1. t \in KeptSectors(s) /\ blocks'[t] = blocks[t]
      BY <1>2, <2>2 DEF Install
    <3>2. t \in DOMAIN blocks /\ (Evicts(s) => t # Victim)
      BY <3>1 DEF KeptSectors
    <3>3. disk'[t] = disk[t]
      BY <3>2 DEF Install, WriteBack, CacheInv
    <3> QED
      BY <1>6, <3>1, <3>2, <3>3 DEF CacheInv, IsDirty
  <2> QED
    BY <2>1, <2>2
<1> QED
  BY <1>1, <1>3, <1>4, <1>5, <1>6 DEF CacheInv

(* Writing the dirty entries back changes nothing that is seen. *)
LEMMA SyncIsTransparent ==
  ASSUME CacheInv, CacheSync
  PROVE  View' = View /\ CacheInv'
<1>1. DOMAIN blocks' = DOMAIN blocks /\ DOMAIN disk' = Sectors
  BY DEF CacheSync, Cleaned, CacheInv
<1>2. ASSUME NEW t \in Sectors
      PROVE  View'[t] = View[t]
  BY <1>1 DEF CacheSync, Cleaned, CacheInv, View, IsDirty
<1>3. \A t \in DOMAIN blocks' : blocks'[t].last_access \in Nat
  BY <1>1 DEF CacheSync, Cleaned, CacheInv
<1>4. ASSUME NEW t \in DOMAIN blocks' \cap Sectors
      PROVE  blocks'[t].data = disk'[t]
  BY <1>1 DEF CacheSync, Cleaned, CacheInv, IsDirty
<1>5. View' = View
  BY <1>2 DEF View
<1> QED
  BY <1>1, <1>3, <1>4, <1>5 DEF CacheSync, Cleaned, CacheInv

(* Looking at a sector through the cache changes nothing that is seen. *)
LEMMA ReadIsTransparent ==
  ASSUME CacheInv, NEW s, CacheReadMut(s)
  PROVE  View' = View /\ CacheInv'
<1>1. IsDirty(s) \in BOOLEAN
  BY Zenon DEF IsDirty
<1>2. View' = [View EXCEPT ![s] = View[s]]
  BY <1>1, InstallIsTransparent DEF CacheReadMut
<1>3. View' = View
  BY <1>2 DEF View
<1>4. CacheInv'
  BY <1>1, InstallCacheInv DEF CacheReadMut
<1> QED
  BY <1>3, <1>4

(* A write through the cache changes what is seen of its sector. *)
LEMMA WriteIsTransparent ==
  ASSUME CacheInv, NEW s, NEW content, CacheModify(s, content) \/ CacheWrite(s, content)
  PROVE  View' = [View EXCEPT ![s] = content] /\ CacheInv'
<1>1. Install(s, content, TRUE)
  BY DEF CacheModify, CacheWrite
<1> QED
  BY <1>1, InstallIsTransparent, InstallCacheInv

(* A step that leaves the cache and the device alone changes nothing that is seen. *)
LEMMA UnchangedIsTransparent ==
  ASSUME CacheInv, UNCHANGED cacheVars
  PROVE  View' = View /\ CacheInv'
BY DEF cacheVars, View, CacheInv, IsDirty

(* What one step may do to the view: the body of CacheIsTransparent. *)
StepIsTransparent ==
    IF op.pc \in {"link", "store", "entry", "clear"}
    THEN View' = [View EXCEPT ![Wanted.sector] = Wanted.content]
    ELSE View' = View

(* A fresh cache is empty. *)
LEMMA InitCacheInv == FsInit => CacheInv
<1> SUFFICES ASSUME FsInit PROVE CacheInv
  OBVIOUS
<1>1. PICK n \in Names, pos \in Positions : CacheInit(Image(n, pos))
  BY DEF FsInit
<1>2. DOMAIN blocks = {} /\ DOMAIN disk = Sectors /\ clock = 0
  BY <1>1 DEF CacheInit, Image
<1> QED
  BY <1>2, FS_EmptySet, CacheAssumption DEF CacheInv

(* Every step keeps the invariant of the cache, and changes of the view    *)
(* only what the request in progress writes.                               *)
LEMMA NextCacheInv ==
  ASSUME CacheInv, FsNext
  PROVE  CacheInv' /\ StepIsTransparent
<1>1. ASSUME NEW n, NEW k, NEW sync, StartWrite(n, k, sync)
      PROVE  CacheInv' /\ StepIsTransparent
  <2>1. op.pc = "idle" /\ UNCHANGED cacheVars
    BY <1>1 DEF StartWrite, Idle
  <2> QED
    BY <2>1, UnchangedIsTransparent DEF StepIsTransparent
<1>2. CASE AllocBlock \/ DiskFull
  <2>1. op.pc = "block" /\ UNCHANGED cacheVars
    BY <1>2 DEF AllocBlock, DiskFull
  <2> QED
    BY <2>1, UnchangedIsTransparent DEF StepIsTransparent
<1>3. CASE LinkBlock
  <2>1. op.pc = "link" /\ CacheModify(op.prev, [View[op.prev] EXCEPT !.next = op.current])
    BY <1>3 DEF LinkBlock
  <2>2. Wanted = [sector |-> op.prev, content |-> [View[op.prev] EXCEPT !.next = op.current]]
    BY <2>1 DEF Wanted
  <2> QED
    BY <2>1, <2>2, WriteIsTransparent DEF StepIsTransparent
<1>4. CASE StoreBlock
  <2> DEFINE c == [next |-> 0, call |-> Len(calls), part |-> op.part]
  <2>1. op.pc = "store" /\ CacheWrite(op.current, c)
    BY <1>4 DEF StoreBlock
  <2>2. Wanted = [sector |-> op.current, content |-> c]
    BY <2>1 DEF Wanted
  <2> QED
    BY <2>1, <2>2, WriteIsTransparent DEF StepIsTransparent
<1>5. CASE WriteEntry
  <2> DEFINE c == [View[op.pos[1]] EXCEPT ![op.pos[2]] = NewEntry]
  <2>1. op.pc = "entry" /\ CacheModify(op.pos[1], c)
    BY <1>5 DEF WriteEntry
  <2>2. Wanted = [sector |-> op.pos[1], content |-> c]
    BY <2>1 DEF Wanted
  <2> QED
    BY <2>1, <2>2, WriteIsTransparent DEF StepIsTransparent
<1>6. CASE ClearEntry
  <2> DEFINE c == [View[op.pos[1]] EXCEPT ![op.pos[2]] = Free]
  <2>1. op.pc = "clear" /\ CacheModify(op.pos[1], c)
    BY <1>6 DEF ClearEntry
  <2>2. Wanted = [sector |-> op.pos[1], content |-> c]
    BY <2>1 DEF Wanted
  <2> QED
    BY <2>1, <2>2, WriteIsTransparent DEF StepIsTransparent
<1>7. CASE Sync \/ FlushRemoved
  <2>1. op.pc \in {"sync", "flush"} /\ CacheSync
    BY <1>7 DEF Sync, FlushRemoved
  <2> QED
    BY <2>1, SyncIsTransparent DEF StepIsTransparent
<1>8. CASE Scan
  <2>1. op.pc = "scan" /\ CacheReadMut(op.at)
    BY <1>8 DEF Scan
  <2> QED
    BY <2>1, ReadIsTransparent DEF StepIsTransparent
<1>9. ASSUME NEW n, StartList \/ StartRemove(n)
      PROVE  CacheInv' /\ StepIsTransparent
  <2>1. op.pc = "idle" /\ UNCHANGED cacheVars
    BY <1>9 DEF StartList, StartRemove, Idle
  <2> QED
    BY <2>1, UnchangedIsTransparent DEF StepIsTransparent
<1> QED
  BY <1>1, <1>2, <1>3, <1>4, <1>5, <1>6, <1>7, <1>8, <1>9
     DEF FsNext, WriteFile, WriteAndSync, FsWrite, Mkdir

(***************************************************************************)
(* The invariant of the cache holds in every state: in particular the      *)
(* cache never holds more than CACHE_MAX_BLOCKS entries, and an entry that *)
(* is not dirty is a copy of its sector.                                   *)
(***************************************************************************)
THEOREM FileSystemCacheInv == FsSpec => []CacheInv
<1>1. FsInit => CacheInv
  BY InitCacheInv
<1>2. CacheInv /\ [FsNext]_fsVars => CacheInv'
  BY NextCacheInv, UnchangedIsTransparent DEF fsVars
<1> QED
  BY <1>1, <1>2, PTL DEF FsSpec

(***************************************************************************)
(* The cache is transparent: no eviction, look-up or sync changes a sector *)
(* as the file system sees it, and every write of write_file, link_block_  *)
(* cached and remove changes its own sector to what the code put there.    *)
(***************************************************************************)
THEOREM FileSystemTransparent == FsSpec => CacheIsTransparent
<1>1. CacheInv /\ [FsNext]_fsVars => [StepIsTransparent]_fsVars
  BY NextCacheInv
<1>2. [StepIsTransparent]_fsVars =>
        [IF op.pc \in {"link", "store", "entry", "clear"}
         THEN View' = [View EXCEPT ![Wanted.sector] = Wanted.content]
         ELSE View' = View]_fsVars
  BY DEF StepIsTransparent
<1> QED
  BY <1>1, <1>2, FileSystemCacheInv, PTL DEF FsSpec, CacheIsTransparent
=============================================================================
