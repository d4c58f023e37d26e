--------------------------------- MODULE PMM ---------------------------------
(***************************************************************************)
(* The physical memory manager, onx::mm::PMM (mm/pmm.cpp): a table of at   *)
(* most MAX_REGIONS regions of physical memory, each free or used.         *)
(*                                                                         *)
(*   phase "collect"  init copies the usable entries of the memory map,    *)
(*                    aligned inwards to pages, into the table;            *)
(*         "sort"     bubble sort by base address;                         *)
(*         "merge"    coalesce regions that touch;                         *)
(*         "ready"    alloc_pages and free_pages run, each one step;       *)
(*         "overrun"  the sort ran off the table (undefined behaviour).    *)
(*                                                                         *)
(* The loops of init are stepped one iteration at a time: the processor    *)
(* runs nothing else before init returns, and the loop counters i and j    *)
(* are those of the code.  The table is the part of regions[] below        *)
(* region_count, indexed from 0 as in the code.                            *)
(*                                                                         *)
(* held and dirty are not variables of the code: held is what the callers  *)
(* of alloc_pages own, and dirty the bytes of memory that hold data.       *)
(***************************************************************************)
EXTENDS Integers, Sequences, FiniteSetsExt

CONSTANTS
    PAGE_SIZE,      \* bytes in a page (4096)
    MAX_REGIONS,    \* slots of the region table (64)
    MemMaps,        \* the memory maps the boot loader may hand over
    NoResponse,     \* the boot loader did not answer the memmap request
    Counts,         \* page counts callers pass to alloc_pages
    StrayBases      \* base addresses a mistaken free_pages may name

Entry  == [base : Nat, length : Nat, type : {"usable", "reserved"}]
Region == [base : Nat, len : Nat, is_free : BOOLEAN]

(* Two map entries that overlap, at least one of them usable memory.       *)
Overlap(e, f) == /\ "usable" \in {e.type, f.type}
                 /\ e.base < f.base + f.length
                 /\ f.base < e.base + e.length

(***************************************************************************)
(* What the Limine protocol guarantees of a memory map: usable entries     *)
(* overlap no other entry, and the first page of memory is never usable.   *)
(***************************************************************************)
ValidMap(map) ==
    /\ map \in Seq(Entry)
    /\ \A m, n \in DOMAIN map : m # n => ~Overlap(map[m], map[n])
    /\ \A m \in DOMAIN map : map[m].type = "usable" => map[m].base >= PAGE_SIZE

ASSUME PageAssumption == PAGE_SIZE \in Nat \ {0} /\ MAX_REGIONS \in Nat \ {0}
ASSUME MapAssumption  == /\ \A map \in MemMaps : ValidMap(map)
                         /\ NoResponse \notin MemMaps
(* Page counts are positive, and small enough for count * PAGE_SIZE not to *)
(* wrap in a size_t.                                                       *)
ASSUME CallAssumption == Counts \subseteq Nat \ {0} /\ StrayBases \subseteq Nat

VARIABLES
    memmap,         \* mmap->response, one of MemMaps or NoResponse; constant
    phase,          \* where PMM::init stands
    i, j,           \* the loop counters of PMM::init
    regions,        \* regions[0 .. region_count - 1]
    region_count,
    held,           \* allocations owned by callers: [base, count] records
    dirty           \* bytes of physical memory that hold data

loop  == <<phase, i, j>>
table == <<regions, region_count>>
vars  == <<memmap, phase, i, j, regions, region_count, held, dirty>>

(***************************************************************************)
(* Arithmetic on addresses and operations on the table.                    *)
(***************************************************************************)
RoundDown(a) == a - (a % PAGE_SIZE)
RoundUp(a)   == RoundDown(a + PAGE_SIZE - 1)
Size(count)  == count * PAGE_SIZE

(* A mutant of AlignedBase: rounded outwards.                              *)
AlignedBaseOutwards(e) == RoundDown(e.base)

(* The page-aligned region inside a usable entry: empty when end <= base.  *)
AlignedBase(e) == RoundUp(e.base)
AlignedEnd(e)  == RoundDown(e.base + e.length)

Slots == 0 .. region_count - 1
End(r)   == r.base + r.len
Bytes(r) == r.base .. End(r) - 1
Extent(a) == a.base .. a.base + Size(a.count) - 1

Touch(r, s) == End(r) = s.base

(* A table of n slots whose regions are in order and share no byte.        *)
Ordered(tab, n) ==
    \A m, p \in 0 .. n - 1 : m < p => End(tab[m]) <= tab[p].base

(* A table of n slots has a used region with this base and length.         *)
UsedAt(tab, n, base, len) ==
    \E m \in 0 .. n - 1 : ~tab[m].is_free /\ tab[m].base = base /\ tab[m].len = len

(* A mutant of Absorb: the length of slot k + 1 is not added.              *)
AbsorbLoses(tab, n, k) == [m \in 0 .. n - 2 |-> IF m <= k THEN tab[m] ELSE tab[m + 1]]

(* Slot k takes over slot k + 1 of a table of n slots, and the slots above *)
(* shift down by one.                                                      *)
Absorb(tab, n, k) ==
    [m \in 0 .. n - 2 |->
        IF m < k THEN tab[m]
        ELSE IF m = k THEN [base |-> tab[k].base, len |-> tab[k].len + tab[k + 1].len,
                            is_free |-> tab[k].is_free]
        ELSE tab[m + 1]]

(* A mutant of Split: the rest keeps the length of the whole.              *)
SplitLong(tab, n, k, sz) ==
    [m \in 0 .. n |->
        IF m < k THEN tab[m]
        ELSE IF m = k THEN [base |-> tab[k].base, len |-> sz, is_free |-> FALSE]
        ELSE IF m = k + 1 THEN [base |-> tab[k].base + sz, len |-> tab[k].len,
                                is_free |-> TRUE]
        ELSE tab[m - 1]]

(* Slot k keeps its first sz bytes, used; the rest becomes a free region   *)
(* in slot k + 1, and the slots above shift up by one.                     *)
Split(tab, n, k, sz) ==
    [m \in 0 .. n |->
        IF m < k THEN tab[m]
        ELSE IF m = k THEN [base |-> tab[k].base, len |-> sz, is_free |-> FALSE]
        ELSE IF m = k + 1 THEN [base |-> tab[k].base + sz, len |-> tab[k].len - sz,
                                is_free |-> TRUE]
        ELSE tab[m - 1]]

-----------------------------------------------------------------------------
(***************************************************************************)
(* PMM::init                                                               *)
(***************************************************************************)
(* The bytes a memory map mentions: the firmware and the boot loader have  *)
(* written to all of them.                                                 *)
EntryBytes(e) == e.base .. e.base + e.length - 1
Mapped(map) == UNION {EntryBytes(map[m]) : m \in DOMAIN map}

Init ==
    /\ memmap \in MemMaps \cup {NoResponse}
    /\ phase = "collect" /\ i = 0 /\ j = 0
    /\ regions = [m \in {} |-> 0] /\ region_count = 0
    /\ held = {}
    /\ dirty = IF memmap = NoResponse THEN {} ELSE Mapped(memmap)

(* "PMM init failed": the table stays empty.                               *)
InitNoResponse ==
    /\ phase = "collect" /\ memmap = NoResponse
    /\ phase' = "ready"
    /\ UNCHANGED <<memmap, i, j, table, held, dirty>>

MoreEntries == memmap # NoResponse /\ i < Len(memmap) /\ region_count < MAX_REGIONS

(* One entry of the map: a usable one becomes a region when at least one   *)
(* whole page of it is left.                                               *)
CollectEntry ==
    /\ phase = "collect" /\ MoreEntries
    /\ LET e == memmap[i + 1]
           b == AlignedBase(e)
       IN  IF e.type = "usable" /\ AlignedEnd(e) > b
           THEN /\ regions' = [m \in 0 .. region_count |->
                                  IF m < region_count THEN regions[m]
                                  ELSE [base |-> b, len |-> AlignedEnd(e) - b,
                                        is_free |-> TRUE]]
                /\ region_count' = region_count + 1
           ELSE UNCHANGED table
    /\ i' = i + 1
    /\ UNCHANGED <<memmap, phase, j, held, dirty>>

CollectDone ==
    /\ phase = "collect" /\ memmap # NoResponse /\ ~MoreEntries
    /\ phase' = "sort" /\ i' = 0
    /\ UNCHANGED <<memmap, j, table, held, dirty>>

(* With an empty table region_count - 1 wraps, and the loops read and swap *)
(* past the end of regions[]: whatever follows is undefined behaviour.     *)
SortUnderflow ==
    /\ phase = "sort" /\ region_count = 0
    /\ phase' = "overrun"
    /\ UNCHANGED <<memmap, i, j, table, held, dirty>>

(* Inner loop: compare neighbours, swap them when out of order.            *)
SortCompare ==
    /\ phase = "sort" /\ i < region_count - 1 /\ j < region_count - i - 1
    /\ regions' = IF regions[j].base > regions[j + 1].base
                  THEN [regions EXCEPT ![j] = regions[j + 1], ![j + 1] = regions[j]]
                  ELSE regions
    /\ j' = j + 1
    /\ UNCHANGED <<memmap, phase, i, region_count, held, dirty>>

(* A mutant of SortNextPass: i is not advanced.                            *)
SortSamePass ==
    /\ phase = "sort" /\ i < region_count - 1 /\ j >= region_count - i - 1
    /\ j' = 0
    /\ UNCHANGED <<memmap, phase, i, table, held, dirty>>

(* The inner loop ends, the outer one goes on.                             *)
SortNextPass ==
    /\ phase = "sort" /\ i < region_count - 1 /\ j >= region_count - i - 1
    /\ i' = i + 1 /\ j' = 0
    /\ UNCHANGED <<memmap, phase, table, held, dirty>>

SortDone ==
    /\ phase = "sort" /\ region_count > 0 /\ i >= region_count - 1
    /\ phase' = "merge" /\ i' = 0 /\ j' = 0
    /\ UNCHANGED <<memmap, table, held, dirty>>

(* Slots i and i + 1 touch: one region.  i-- and the loop's i++ cancel, so *)
(* slot i is compared with its next neighbour.                             *)
MergeTouching ==
    /\ phase = "merge" /\ i < region_count - 1
    /\ Touch(regions[i], regions[i + 1])
    /\ regions' = Absorb(regions, region_count, i)
    /\ region_count' = region_count - 1
    /\ UNCHANGED <<memmap, loop, held, dirty>>

MergeSkip ==
    /\ phase = "merge" /\ i < region_count - 1
    /\ ~Touch(regions[i], regions[i + 1])
    /\ i' = i + 1
    /\ UNCHANGED <<memmap, phase, j, table, held, dirty>>

MergeDone ==
    /\ phase = "merge" /\ i >= region_count - 1
    /\ phase' = "ready" /\ i' = 0
    /\ UNCHANGED <<memmap, j, table, held, dirty>>

InitStep == \/ InitNoResponse \/ CollectEntry \/ CollectDone
            \/ SortUnderflow \/ SortCompare \/ SortNextPass \/ SortDone
            \/ MergeTouching \/ MergeSkip \/ MergeDone

-----------------------------------------------------------------------------
(***************************************************************************)
(* PMM::alloc_pages                                                        *)
(***************************************************************************)
(* A mutant of Fits: used regions are handed out too.                      *)
FitsUsed(k, sz) == regions[k].len >= sz

Fits(k, sz) == regions[k].is_free /\ regions[k].len >= sz

(* Slot k is the first one a request of sz bytes fits in.                  *)
FirstFit(k, sz) == Fits(k, sz) /\ \A m \in 0 .. k - 1 : ~Fits(m, sz)

(* Slot k is handed out whole.                                             *)
Taken(tab, k) == [tab EXCEPT ![k].is_free = FALSE]

(* A mutant of Return: one element too many is zeroed.                     *)
ReturnZeroesMore(base, count) ==
    /\ held' = IF base = 0 THEN held ELSE held \cup {[base |-> base, count |-> count]}
    /\ dirty' = dirty \ (base .. base + Size(count))

(* The bytes of the allocation are zeroed and its base returned.  A caller *)
(* takes a base of 0 for a failure.                                        *)
Return(base, count) ==
    /\ held' = IF base = 0 THEN held ELSE held \cup {[base |-> base, count |-> count]}
    /\ dirty' = dirty \ (base .. base + Size(count) - 1)

AllocExact(count) ==
    \E k \in Slots :
        /\ FirstFit(k, Size(count)) /\ regions[k].len = Size(count)
        /\ regions' = Taken(regions, k)
        /\ Return(regions[k].base, count)
        /\ UNCHANGED <<memmap, loop, region_count>>

(* A mutant of AllocSplit: the table's limit is not checked.               *)
AllocSplitAlways(count) ==
    \E k \in Slots :
        /\ FirstFit(k, Size(count)) /\ regions[k].len # Size(count)
        /\ regions' = Split(regions, region_count, k, Size(count))
        /\ region_count' = region_count + 1
        /\ Return(regions[k].base, count)
        /\ UNCHANGED <<memmap, loop>>

AllocSplit(count) ==
    \E k \in Slots :
        /\ FirstFit(k, Size(count)) /\ regions[k].len # Size(count)
        /\ region_count < MAX_REGIONS
        /\ regions' = Split(regions, region_count, k, Size(count))
        /\ region_count' = region_count + 1
        /\ Return(regions[k].base, count)
        /\ UNCHANGED <<memmap, loop>>

(* "No space for new region": the first fit must be split and the table is *)
(* full.  Later slots are not tried.                                       *)
AllocTableFull(count) ==
    /\ \E k \in Slots :
        /\ FirstFit(k, Size(count)) /\ regions[k].len # Size(count)
        /\ region_count >= MAX_REGIONS
    /\ UNCHANGED vars

(* "No suitable region found".                                             *)
AllocNoFit(count) ==
    /\ \A k \in Slots : ~Fits(k, Size(count))
    /\ UNCHANGED vars

Alloc(count) == /\ phase = "ready"
                /\ \/ AllocExact(count) \/ AllocSplit(count)
                   \/ AllocTableFull(count) \/ AllocNoFit(count)

(***************************************************************************)
(* PMM::free_pages                                                         *)
(***************************************************************************)
(* A mutant of Matches: the size is not compared.                          *)
MatchesBase(k, base, count) == regions[k].base = base

Matches(k, base, count) == regions[k].base = base /\ regions[k].len = Size(count)

Freed(tab, k) == [tab EXCEPT ![k].is_free = TRUE]

(* Mutants of FreedTable: no merge with the slot after, and a merge with   *)
(* the slot before that does not ask whether it is free.                   *)
FreedPrevOnly(tab, n, k) ==
    LET freed == Freed(tab, k)
        prev  == k > 0 /\ freed[k - 1].is_free
    IN  [tab |-> IF prev THEN Absorb(freed, n, k - 1) ELSE freed, n |-> IF prev THEN n - 1 ELSE n]
FreedIntoUsed(tab, n, k) ==
    LET freed == Freed(tab, k)
    IN  [tab |-> IF k > 0 THEN Absorb(freed, n, k - 1) ELSE freed, n |-> IF k > 0 THEN n - 1 ELSE n]

(* Slot k of a table of n slots becomes free, is absorbed by the slot      *)
(* before it when that one is free, and absorbs the slot after it when     *)
(* that one is free.                                                       *)
FreedTable(tab, n, k) ==
    LET freed == Freed(tab, k)
        prev  == k > 0 /\ freed[k - 1].is_free
        k1    == IF prev THEN k - 1 ELSE k
        n1    == IF prev THEN n - 1 ELSE n
        tab1  == IF prev THEN Absorb(freed, n, k - 1) ELSE freed
        next  == k1 < n1 - 1 /\ tab1[k1 + 1].is_free
    IN  [tab |-> IF next THEN Absorb(tab1, n1, k1) ELSE tab1,
         n   |-> IF next THEN n1 - 1 ELSE n1]

(* The first slot with this base and size is freed.                        *)
FreeMatch(base, count) ==
    \E k \in Slots :
        /\ Matches(k, base, count) /\ \A m \in 0 .. k - 1 : ~Matches(m, base, count)
        /\ regions' = FreedTable(regions, region_count, k).tab
        /\ region_count' = FreedTable(regions, region_count, k).n
        /\ UNCHANGED <<memmap, loop, dirty>>

(* "Tried to free invalid pages".                                          *)
FreeInvalid(base, count) ==
    /\ \A k \in Slots : ~Matches(k, base, count)
    /\ UNCHANGED <<memmap, loop, table, dirty>>

Free(base, count) == /\ phase = "ready"
                     /\ FreeMatch(base, count) \/ FreeInvalid(base, count)

(***************************************************************************)
(* The callers: they allocate, write to what they own, free it, and        *)
(* sometimes free what they do not own.                                    *)
(***************************************************************************)
FreeHeld(a)  == a \in held /\ Free(a.base, a.count) /\ held' = held \ {a}

FreeStray(base, count) ==
    /\ [base |-> base, count |-> count] \notin held
    /\ Free(base, count) /\ UNCHANGED held

Use(a) == /\ a \in held
          /\ dirty' = dirty \cup Extent(a)
          /\ UNCHANGED <<memmap, loop, table, held>>

(* After the overrun the machine does something, but nothing this model    *)
(* knows about.                                                            *)
Overrun == phase = "overrun" /\ UNCHANGED vars

Next == \/ InitStep
        \/ \E count \in Counts : Alloc(count)
        \/ \E a \in held : FreeHeld(a) \/ Use(a)
        \/ \E base \in StrayBases, count \in Counts : FreeStray(base, count)
        \/ Overrun

(* init runs to its end: nothing preempts it.  Callers may stop calling.   *)
Spec == Init /\ [][Next]_vars /\ WF_vars(InitStep)

-----------------------------------------------------------------------------
(***************************************************************************)
(* Properties                                                              *)
(***************************************************************************)
(* The bytes of the pages that lie wholly in one usable entry of the map.  *)
Page(b) == RoundDown(b) .. RoundDown(b) + PAGE_SIZE - 1
UsableBytes(map) ==
    {b \in Mapped(map) : \E m \in DOMAIN map :
        map[m].type = "usable" /\ Page(b) \subseteq EntryBytes(map[m])}

Usable  == IF memmap = NoResponse THEN {} ELSE UsableBytes(memmap)
Managed == UNION {Bytes(regions[k]) : k \in Slots}

(* The usable pages of the map form one run, and every entry has a slot.   *)
NoHoles(map) ==
    /\ map # NoResponse
    /\ Len(map) <= MAX_REGIONS
    /\ \A a, b \in UsableBytes(map) : a .. b \subseteq UsableBytes(map)

TypeOK ==
    /\ memmap \in MemMaps \cup {NoResponse}
    /\ phase \in {"collect", "sort", "merge", "ready", "overrun"}
    /\ i \in Nat /\ j \in Nat
    /\ region_count \in 0 .. MAX_REGIONS
    /\ regions \in [Slots -> Region]
    /\ held \subseteq [base : Nat, count : Counts]
    /\ dirty \subseteq Nat

(* Once the sort is over the table is ordered and no two regions share a   *)
(* byte, whatever init merged and alloc_pages and free_pages did since.    *)
RegionsDisjoint ==
    phase \in {"merge", "ready"} => Ordered(regions, region_count)

(* No byte of memory is ever owned by two callers of alloc_pages.          *)
HeldExclusive == \A a, b \in held : a # b => Extent(a) \cap Extent(b) = {}

(* The used regions are exactly the outstanding allocations: none is lost  *)
(* by the table's shifts and merges, and no used region is orphaned.       *)
UsedIsHeld ==
    /\ \A a \in held : UsedAt(regions, region_count, a.base, Size(a.count))
    /\ \A k \in Slots : ~regions[k].is_free => \E a \in held : Matches(k, a.base, a.count)

(* The table never leaves two free regions that touch uncoalesced, so a    *)
(* request fails for want of memory only when no run is long enough.       *)
Coalesced ==
    phase = "ready" => \A k \in Slots :
        k + 1 \in Slots /\ Touch(regions[k], regions[k + 1])
            => ~(regions[k].is_free /\ regions[k + 1].is_free)

(* No memory is gained or lost by splits and merges: get_free_memory and   *)
(* what the callers hold add up to the usable memory of the map.           *)
FreeSlots  == {k \in Slots : regions[k].is_free}
FreeMemory == SumFunction([k \in FreeSlots |-> regions[k].len])
MemoryConserved ==
    phase = "ready" /\ memmap # NoResponse /\ Len(memmap) <= MAX_REGIONS =>
        FreeMemory + SumFunction([a \in held |-> Size(a.count)]) = Cardinality(Usable)

(* Every byte the allocator manages is usable memory of the map.           *)
ManagedIsUsable == Managed \subseteq Usable

(* alloc_pages zeroes the memory it hands out, all of it and nothing else: *)
(* what it returns holds no data, and what another caller wrote to its     *)
(* pages stays until it frees them.                                        *)
HolderDataKept ==
    [][/\ \A a \in held' \ held : Extent(a) \cap dirty' = {}
       /\ \A a \in held \cap held' : Extent(a) \cap dirty \subseteq dirty']_vars

(* Freeing what nobody holds does not change the table of a map without    *)
(* holes.                                                                  *)
StrayFreeHarmlessNoHoles ==
    [][NoHoles(memmap) /\ phase = "ready" /\ held' = held => UNCHANGED table]_vars

(* On a machine with at least one usable page init ends and leaves a table *)
(* to allocate from: the loops of the sort and of the merge, whose i-- may *)
(* wrap, come to their end.                                                *)
InitTerminates == Usable # {} ~> phase = "ready"

(* On a map without holes the allocator implements the abstract one, init, *)
(* failed calls and mistaken frees included.                               *)
PA == INSTANCE PageAllocator WITH usable <- Usable
ImplementsPageAllocator ==
    (NoHoles(memmap) => PA!Init) /\ [][NoHoles(memmap) => PA!Next]_(PA!vars)
==============================================================================
