---------------------------- MODULE FileSystem -----------------------------
(***************************************************************************)
(* The kernel's file system SFS (kernel/src/fs.rs, FileSystem) and the     *)
(* requests its callers make of it: the shell's redirection and the log    *)
(* daemon write and sync, the WASM call fs_write and mkdir only write, rm  *)
(* removes, ls lists.                                                      *)
(*                                                                         *)
(* The directory and every file read go to the device, while writes and    *)
(* listings go through the cache.  A request holds FS_STATE and BLK_DEV    *)
(* from start to end, so that requests of different harts never overlap;   *)
(* op is the request in progress, and one step is one use of the cache.    *)
(* The block device of the VM answers every request with status 0, and so  *)
(* no operation fails.                                                     *)
(* Sizes count blocks of 508 bytes; the payload of a block is the number   *)
(* of the write_file call and the position of the block in its data.       *)
(***************************************************************************)
EXTENDS Naturals, FiniteSets, Sequences, FiniteSetsExt

CONSTANTS
    Sectors,       \* the sectors that go through the cache
    CacheMax,      \* CACHE_MAX_BLOCKS
    DirCount,      \* SEC_DIR_COUNT: directory sectors are 1 .. DirCount
    Slots,         \* entries of one directory sector
    BlockCount,    \* bits of the cached bitmap sector that are data blocks
    Names,         \* file names callers use
    DirNames,      \* the ones that end in "/"
    Cut,           \* Cut[n]: the first 24 bytes of n
    MaxSize,       \* bound: blocks of one write
    MaxWrites,     \* bound: write_file calls
    MaxRemoves,    \* bound: remove calls
    MaxLists       \* bound: list_dir calls of ls

DirSectors == 1 .. DirCount
Blocks == DirCount + 1 .. DirCount + BlockCount

ASSUME CacheAssumption == CacheMax \in Nat /\ CacheMax > 0

ASSUME FileSystemAssumption ==
    /\ DirCount \in Nat /\ BlockCount \in Nat /\ MaxSize \in Nat /\ MaxWrites \in Nat
    /\ Slots \in Nat \ {0}
    /\ Sectors = DirSectors \cup Blocks
    /\ DirNames \subseteq Names
    /\ Cut \in [Names -> Names]
    /\ "" \notin Names

VARIABLES
    disk,          \* the content of every sector on the device
    blocks,        \* BufferCache.blocks: the cached sectors, a partial function
    clock,         \* CACHE_ACCESS_COUNTER
    bitmap_cache,  \* the allocated blocks
    bitmap_dirty,
    disk_bitmap,   \* the bitmap sector on the device
    op,            \* the request in progress
    calls,         \* ghost: calls[p], the arguments of write_file call p
    removes,       \* number of remove calls
    lists,         \* number of list_dir calls of ls
    synced         \* ghost: synced[n], the last write of n if it was synced, or 0

cacheVars == <<disk, blocks, clock>>
mapVars == <<bitmap_cache, bitmap_dirty, disk_bitmap>>
ghosts == <<calls, removes, lists, synced>>
fsVars == <<cacheVars, mapVars, op, ghosts>>

-----------------------------------------------------------------------------
(* The write-back block cache, BufferCache. *)

(***************************************************************************)
(* What the file system sees of a sector: the cached copy if there is one. *)
(***************************************************************************)
View == [s \in Sectors |-> IF s \in DOMAIN blocks THEN blocks[s].data ELSE disk[s]]

IsDirty(s) == s \in DOMAIN blocks /\ blocks[s].dirty

Victim ==
    CHOOSE s \in DOMAIN blocks :
        \A t \in DOMAIN blocks : blocks[s].last_access <= blocks[t].last_access

(***************************************************************************)
(* evict_lru runs when a sector that is not cached comes in and the cache  *)
(* is full.  A dirty victim is written back first.                         *)
(***************************************************************************)
Evicts(s) == s \notin DOMAIN blocks /\ Cardinality(DOMAIN blocks) >= CacheMax

KeptSectors(s) == IF Evicts(s) THEN DOMAIN blocks \ {Victim} ELSE DOMAIN blocks

(* Mutant: a dirty victim is dropped. *)
DropVictim(s) == disk

WriteBack(s) ==
    IF Evicts(s) /\ blocks[Victim].dirty
    THEN [disk EXCEPT ![Victim] = blocks[Victim].data]
    ELSE disk

(* Mutant: a hit does not touch the entry. *)
StampOnInsert(s) == IF s \in DOMAIN blocks THEN blocks[s].last_access ELSE clock + 1

(***************************************************************************)
(* touch() and CacheEntry::new stamp the entry with the next value of the  *)
(* counter.  A miss in read_mut does both; only the order of the stamps    *)
(* is ever used, and so one tick stands for the two.                       *)
(***************************************************************************)
Touch(s) == clock + 1

Install(s, content, dirt) ==
    /\ blocks' = [t \in KeptSectors(s) \cup {s} |->
                    IF t = s
                    THEN [data |-> content, dirty |-> dirt, last_access |-> Touch(s)]
                    ELSE blocks[t]]
    /\ disk' = WriteBack(s)
    /\ clock' = clock + 1

(***************************************************************************)
(* read_mut of a caller that only looks; read_mut, a change to the buffer  *)
(* and mark_dirty; write.  The last two leave the same entry behind.       *)
(***************************************************************************)
CacheReadMut(s) == Install(s, View[s], IsDirty(s))

CacheModify(s, content) == Install(s, content, TRUE)

CacheWrite(s, content) == Install(s, content, TRUE)

Cleaned(e) == [data |-> e.data, dirty |-> FALSE, last_access |-> e.last_access]

(* BufferCache::sync *)
CacheSync ==
    /\ disk' = [s \in DOMAIN disk |-> IF IsDirty(s) THEN blocks[s].data ELSE disk[s]]
    /\ blocks' = [s \in DOMAIN blocks |-> Cleaned(blocks[s])]
    /\ UNCHANGED clock

CacheInit(image) ==
    /\ disk = image
    /\ blocks = [s \in {} |-> image[s]]
    /\ clock = 0

-----------------------------------------------------------------------------
(***************************************************************************)
(* Directory look-up, always in the image on the device.                   *)
(***************************************************************************)
Free == [name |-> "", size |-> 0, head |-> 0]
Zero == [next |-> 0, call |-> 0, part |-> 0]

Positions == DirSectors \X (1 .. Slots)

Entry(image, pos) == image[pos[1]][pos[2]]

First(S) == CHOOSE p \in S : \A q \in S : p[1] < q[1] \/ (p[1] = q[1] /\ p[2] <= q[2])

FindEntryPos(n) == {p \in Positions : Entry(disk, p).name = n}

FindFreeDirEntry == {p \in Positions : Entry(disk, p) = Free}

(***************************************************************************)
(* read_file: the blocks of an entry, followed from its head until the     *)
(* size is reached or a block has no successor.                            *)
(***************************************************************************)
ReadBlocks(image, e) ==
    LET at[i \in 1 .. e.size] ==
            IF i = 1 THEN e.head
            ELSE IF at[i-1] = 0 THEN 0 ELSE image[at[i-1]].next
    IN  [i \in 1 .. e.size |->
            IF at[i] = 0 THEN <<>> ELSE <<image[at[i]].call, image[at[i]].part>>]

IsCall(image, e, p) == ReadBlocks(image, e) = [i \in 1 .. calls[p].size |-> <<p, i>>]

-----------------------------------------------------------------------------
Idle == [pc |-> "idle"]

Return == op' = Idle

(***************************************************************************)
(* write_file.  The position is that of the name on the device, or else    *)
(* the first entry that is free there; without one the call returns "Root  *)
(* dir full" and changes nothing.                                          *)
(***************************************************************************)
StartWrite(n, k, sync) ==
    LET known == FindEntryPos(n)
        found == IF known # {} THEN known ELSE FindFreeDirEntry
    IN  /\ op = Idle
        /\ Len(calls) < MaxWrites
        /\ found # {}
        /\ op' = [pc |-> IF k = 0 THEN "entry" ELSE "block",
                  name |-> n, pos |-> First(found), size |-> k, sync |-> sync,
                  part |-> 1, head |-> 0, prev |-> 0, current |-> 0]
        /\ calls' = Append(calls, [name |-> n, size |-> k])
        /\ synced' = [synced EXCEPT ![n] = 0]
        /\ UNCHANGED <<cacheVars, mapVars, removes, lists>>

(***************************************************************************)
(* handle_line and append_to_log sync after a write that went well; the    *)
(* WASM call fs_write does not, and neither does mkdir.                    *)
(***************************************************************************)
WriteAndSync == \E n \in Names, k \in 0 .. MaxSize : StartWrite(n, k, TRUE)

FsWrite == \E n \in Names, k \in 0 .. MaxSize : StartWrite(n, k, FALSE)

Mkdir == \E n \in DirNames : FindEntryPos(n) = {} /\ StartWrite(n, 1, FALSE)

MarkAllocated(b) == bitmap_cache' = bitmap_cache \cup {b}

(***************************************************************************)
(* One round of the loop: alloc_block, link_block_cached for the block     *)
(* before, and the write of the block itself.  When no block is left the   *)
(* call returns "Disk full"; what it allocated stays allocated.            *)
(***************************************************************************)
AllocBlock ==
    /\ op.pc = "block"
    /\ Blocks \ bitmap_cache # {}
    /\ LET b == Min(Blocks \ bitmap_cache) IN
        /\ MarkAllocated(b)
        /\ op' = [op EXCEPT !.pc = IF op.prev # 0 THEN "link" ELSE "store",
                            !.current = b,
                            !.head = IF @ = 0 THEN b ELSE @]
    /\ bitmap_dirty' = TRUE
    /\ UNCHANGED <<cacheVars, disk_bitmap, ghosts>>

DiskFull ==
    /\ op.pc = "block"
    /\ Blocks \ bitmap_cache = {}
    /\ Return
    /\ UNCHANGED <<cacheVars, mapVars, ghosts>>

LinkBlock ==
    /\ op.pc = "link"
    /\ CacheModify(op.prev, [View[op.prev] EXCEPT !.next = op.current])
    /\ op' = [op EXCEPT !.pc = "store"]
    /\ UNCHANGED <<mapVars, ghosts>>

StoreBlock ==
    /\ op.pc = "store"
    /\ CacheWrite(op.current, [next |-> 0, call |-> Len(calls), part |-> op.part])
    /\ op' = [op EXCEPT !.pc = IF op.part = op.size THEN "entry" ELSE "block",
                        !.prev = op.current, !.part = @ + 1]
    /\ UNCHANGED <<mapVars, ghosts>>

NewEntry == [name |-> Cut[op.name], size |-> op.size, head |-> op.head]

WriteEntry ==
    /\ op.pc = "entry"
    /\ CacheModify(op.pos[1], [View[op.pos[1]] EXCEPT ![op.pos[2]] = NewEntry])
    /\ IF op.sync THEN op' = [op EXCEPT !.pc = "sync"] ELSE Return
    /\ UNCHANGED <<mapVars, calls, removes, lists, synced>>

(* Mutant: sync forgets the block cache. *)
SyncBitmapOnly ==
    /\ op.pc = "sync"
    /\ disk_bitmap' = IF bitmap_dirty THEN bitmap_cache ELSE disk_bitmap
    /\ bitmap_dirty' = FALSE
    /\ synced' = [synced EXCEPT ![op.name] = Len(calls)]
    /\ Return
    /\ UNCHANGED <<cacheVars, bitmap_cache, calls, removes, lists>>

(***************************************************************************)
(* FileSystem::sync: the bitmap, then every dirty block.                   *)
(***************************************************************************)
Sync ==
    /\ op.pc = "sync"
    /\ disk_bitmap' = IF bitmap_dirty THEN bitmap_cache ELSE disk_bitmap
    /\ bitmap_dirty' = FALSE
    /\ CacheSync
    /\ synced' = [synced EXCEPT ![op.name] = Len(calls)]
    /\ Return
    /\ UNCHANGED <<bitmap_cache, calls, removes, lists>>

-----------------------------------------------------------------------------
(***************************************************************************)
(* list_dir: the directory sectors in order, through the cache, until two  *)
(* in a row are empty.  It lists the whole directory whatever the path.    *)
(***************************************************************************)
SectorEmpty(s) == \A j \in 1 .. Slots : View[s][j] = Free

StartList ==
    /\ op = Idle
    /\ lists < MaxLists
    /\ lists' = lists + 1
    /\ op' = [pc |-> "scan", at |-> 1, empties |-> 0, listed |-> FALSE, pos |-> <<>>]
    /\ UNCHANGED <<cacheVars, mapVars, calls, removes, synced>>

Scan ==
    LET empties == IF SectorEmpty(op.at) THEN op.empties + 1 ELSE 0
        listed  == op.listed \/ ~SectorEmpty(op.at)
    IN  /\ op.pc = "scan"
        /\ CacheReadMut(op.at)
        /\ IF empties < 2 /\ op.at < DirCount
           THEN op' = [op EXCEPT !.at = @ + 1, !.empties = empties, !.listed = listed]
           ELSE op' = IF op.pos # <<>> /\ ~listed
                      THEN [pc |-> "clear", pos |-> op.pos]
                      ELSE Idle
        /\ UNCHANGED <<mapVars, ghosts>>

(***************************************************************************)
(* remove: the entry is looked up on the device; a name that ends in "/"   *)
(* is refused as "Directory not empty" if the listing has any file.  The   *)
(* entry is cleared in the cache and the cache is synced, without the      *)
(* bitmap.                                                                 *)
(***************************************************************************)
StartRemove(n) ==
    /\ op = Idle
    /\ removes < MaxRemoves
    /\ FindEntryPos(n) # {}
    /\ removes' = removes + 1
    /\ op' = LET pos == First(FindEntryPos(n)) IN
             IF n \in DirNames
             THEN [pc |-> "scan", at |-> 1, empties |-> 0, listed |-> FALSE, pos |-> pos]
             ELSE [pc |-> "clear", pos |-> pos]
    /\ UNCHANGED <<cacheVars, mapVars, calls, lists, synced>>

ClearEntry ==
    /\ op.pc = "clear"
    /\ CacheModify(op.pos[1], [View[op.pos[1]] EXCEPT ![op.pos[2]] = Free])
    /\ LET n == Entry(disk, op.pos).name IN
        /\ synced' = [synced EXCEPT ![n] = 0]
    /\ op' = [pc |-> "flush"]
    /\ UNCHANGED <<mapVars, calls, removes, lists>>

FlushRemoved ==
    /\ op.pc = "flush"
    /\ CacheSync
    /\ Return
    /\ UNCHANGED <<mapVars, ghosts>>

-----------------------------------------------------------------------------
(***************************************************************************)
(* FileSystem::init on an image that mkfs wrote and the kernel used: one   *)
(* file of one block, in any entry of the directory.                       *)
(***************************************************************************)
Image(n, pos) ==
    [s \in Sectors |->
        IF s \in DirSectors
        THEN [j \in 1 .. Slots |->
                IF <<s, j>> = pos THEN [name |-> n, size |-> 1, head |-> DirCount + 1]
                                  ELSE Free]
        ELSE IF s = DirCount + 1 THEN [next |-> 0, call |-> 1, part |-> 1] ELSE Zero]

FsInit ==
    \E n \in {m \in Names : Cut[m] = m}, pos \in Positions :
        /\ CacheInit(Image(n, pos))
        /\ bitmap_cache = {DirCount + 1}
        /\ bitmap_dirty = FALSE
        /\ disk_bitmap = {DirCount + 1}
        /\ op = Idle
        /\ calls = <<[name |-> n, size |-> 1]>>
        /\ removes = 0
        /\ lists = 0
        /\ synced = [m \in Names |-> IF m = n THEN 1 ELSE 0]

WriteFile == WriteAndSync \/ FsWrite \/ Mkdir \/ AllocBlock \/ DiskFull \/ LinkBlock \/ StoreBlock \/ WriteEntry

FsNext ==
    \/ WriteFile
    \/ Sync
    \/ StartList
    \/ Scan
    \/ \E n \in Names : StartRemove(n)
    \/ ClearEntry
    \/ FlushRemoved

FsSpec == FsInit /\ [][FsNext]_fsVars

-----------------------------------------------------------------------------
DirContent == [1 .. Slots -> [name : Names \cup {""}, size : 0 .. MaxSize + 1, head : Blocks \cup {0}]]
BlockContent == [next : Blocks \cup {0}, call : 0 .. MaxWrites, part : 0 .. MaxSize + 1]

Holds(s, content) == IF s \in DirSectors THEN content \in DirContent ELSE content \in BlockContent

(***************************************************************************)
(* An entry always leads to all of the data of one write_file call for its *)
(* name.  On the device, where read_file looks, entry and data arrive in   *)
(* separate evictions, and the order of evict_lru keeps them together: the *)
(* entry is the last sector write_file touches.  Through the cache, where  *)
(* ls looks, no block is given to two files, and a call that ends in "Disk *)
(* full" leaves the file as it was.                                        *)
(***************************************************************************)
ReadIsNeverTorn ==
    \A sectors \in {disk, View}, pos \in Positions :
        LET e == Entry(sectors, pos) IN
        e # Free => \E p \in DOMAIN calls : Cut[calls[p].name] = e.name /\ IsCall(sectors, e, p)

(***************************************************************************)
(* After write_file and sync, read_file returns that data until the next   *)
(* write or removal of the name, whatever others write without a sync.     *)
(* Names another name is cut to are left out: write_file adds an entry of  *)
(* that name then, see the README.                                         *)
(***************************************************************************)
SyncedIsRead ==
    \A n \in Names :
        synced[n] # 0 /\ (\A m \in Names : Cut[m] = n <=> m = n)
            => /\ FindEntryPos(n) # {}
               /\ IsCall(disk, Entry(disk, First(FindEntryPos(n))), synced[n])

(***************************************************************************)
(* The write the request in progress is about to make.                     *)
(***************************************************************************)
Wanted ==
    CASE op.pc = "link"  -> [sector |-> op.prev, content |-> [View[op.prev] EXCEPT !.next = op.current]]
      [] op.pc = "store" -> [sector |-> op.current, content |-> [next |-> 0, call |-> Len(calls), part |-> op.part]]
      [] op.pc = "entry" -> [sector |-> op.pos[1], content |-> [View[op.pos[1]] EXCEPT ![op.pos[2]] = NewEntry]]
      [] op.pc = "clear" -> [sector |-> op.pos[1], content |-> [View[op.pos[1]] EXCEPT ![op.pos[2]] = Free]]

(***************************************************************************)
(* The cache is transparent: evictions, look-ups and syncs change no       *)
(* sector as the file system sees it, and a write changes its own only.    *)
(***************************************************************************)
CacheIsTransparent ==
    [][IF op.pc \in {"link", "store", "entry", "clear"}
       THEN View' = [View EXCEPT ![Wanted.sector] = Wanted.content]
       ELSE View' = View]_fsVars
=============================================================================
