------------------------------- MODULE Paging -------------------------------
(***************************************************************************)
(* Virtual memory: mm_trait<x86_64> (arch/x86_64/src/mem_impl.cpp) on top  *)
(* of a page allocator, next to the processor's page walk and TLB.         *)
(*                                                                         *)
(* Memory is counted in pages: a frame is a page of physical memory, and   *)
(* frame f holds ENTRIES page table entries.  A virtual page is its four   *)
(* table indices, virt[4] (PML4) down to virt[1] (page table).  The HHDM   *)
(* makes every frame addressable, so a pointer to a table is its frame.    *)
(*                                                                         *)
(* map_page is one call with a step per table visited, because the         *)
(* processor translates addresses while it runs; at most one call is in    *)
(* progress.  The allocator is PageAllocator, whose failure is always      *)
(* possible.  The page walk and the TLB are the hardware's.                *)
(***************************************************************************)
EXTENDS Integers, FiniteSets

CONSTANTS
    ENTRIES,        \* entries of a page table (512)
    Frames,         \* the frames of physical memory
    Pool,           \* those the page allocator manages
    cr3,            \* the frame of the boot loader's PML4
    BootTables,     \* frames of the boot loader's tables, cr3 among them
    BootMemory,     \* what is in memory when the kernel starts
    Requests,       \* arguments of map_page: [virt, phys, flags] records
    NoCall

Index  == 0 .. ENTRIES - 1
Virt   == [1 .. 4 -> Index]
(* The flags that decide where a walk goes and what it may do.  The others *)
(* are left out, and with them that map_page's mask drops NX and that its  *)
(* walk takes the bits of an entry from 52 on for address bits: the one    *)
(* caller passes neither, and no property depends on them.                 *)
Flags  == {"PRESENT", "WRITABLE", "HUGE"}
Entry  == [frame : Frames, flags : SUBSET Flags]
Zeroed == [x \in Index |-> [frame |-> 0, flags |-> {}]]

Present(e) == "PRESENT" \in e.flags
Huge(e)    == "HUGE" \in e.flags
IsTable(e) == Present(e) /\ ~Huge(e)
IsLarge(e) == Present(e) /\ Huge(e)

(* The pages that share the leaf of v when it is at this level.            *)
Block(v, level) == {w \in Virt : \A l \in level .. 4 : w[l] = v[l]}

(* The tables T of memory m form a tree whose root is cr3: links lead one  *)
(* level down, and no table is linked twice.  Entries of a table at level  *)
(* 1 link nothing: they are pages.                                         *)
LinksAt(m, lv, t, x) == lv[t] > 1 /\ IsTable(m[t][x])
IsTree(m, T, lv) ==
    /\ lv \in [T -> 1 .. 4] /\ cr3 \in T /\ lv[cr3] = 4
    /\ \A t \in T, x \in Index :
          LinksAt(m, lv, t, x) => m[t][x].frame \in T /\ lv[m[t][x].frame] = lv[t] - 1
    /\ \A t, u \in T, x, y \in Index :
          LinksAt(m, lv, t, x) /\ LinksAt(m, lv, u, y) /\ m[t][x].frame = m[u][y].frame
              => t = u /\ x = y

(* Physical memory is a range of addresses made of whole 1GB pages.        *)
ASSUME FrameAssumption ==
    /\ ENTRIES \in Nat \ {0} /\ Frames \subseteq Nat /\ 0 \in Frames
    /\ \A f \in Frames : 0 .. f \subseteq Frames
    /\ \A f \in Frames, size \in {ENTRIES, ENTRIES * ENTRIES} :
          f % size = 0 => f .. f + size - 1 \subseteq Frames
(* The boot loader's tables are a tree, apart from the allocator's pages.  *)
ASSUME BootAssumption ==
    /\ Pool \subseteq Frames \ {0} /\ BootTables \subseteq Frames \ {0}
    /\ Pool \cap BootTables = {}
    /\ BootMemory \in [Frames -> [Index -> Entry]]
    /\ \E lv \in [BootTables -> 1 .. 4] : IsTree(BootMemory, BootTables, lv)
(* Every caller asks for a present page.                                   *)
ASSUME RequestAssumption ==
    /\ Requests \subseteq [virt : Virt, phys : Frames, flags : SUBSET Flags]
    /\ \A r \in Requests : "PRESENT" \in r.flags
    /\ NoCall \notin [request : Requests, level : 0 .. 4, table : Frames]

(* Requests that do not meet a large page half way: no 4KB page is asked   *)
(* for inside a large page, the boot loader's or a requested one, and a    *)
(* 2MB page only where the boot loader's tables have a page directory, and *)
(* no page table to lose.                                                  *)
Boot4(v) == BootMemory[cr3][v[4]]
Boot3(v) == BootMemory[Boot4(v).frame][v[3]]
Boot2(v) == BootMemory[Boot3(v).frame][v[2]]
Separate(requests) ==
    \A r \in requests :
        IF "HUGE" \in r.flags
        THEN /\ IsTable(Boot4(r.virt)) /\ IsTable(Boot3(r.virt)) /\ ~IsTable(Boot2(r.virt))
             /\ \A s \in requests : "HUGE" \notin s.flags => s.virt \notin Block(r.virt, 2)
        ELSE /\ ~IsLarge(Boot4(r.virt))
             /\ IsTable(Boot4(r.virt)) =>
                   /\ ~IsLarge(Boot3(r.virt))
                   /\ IsTable(Boot3(r.virt)) => ~IsLarge(Boot2(r.virt))

VARIABLES
    phase,          \* "init": mem::init; "run"; "halted"
    mem,            \* the entries in every frame
    usable, held,   \* the page allocator's memory and allocations
    call,           \* the map_page call in progress
    tlb             \* translations the processor has cached

vars == <<phase, mem, usable, held, call, tlb>>

PA == INSTANCE PageAllocator WITH PAGE_SIZE <- 1, Counts <- {1}

-----------------------------------------------------------------------------
(***************************************************************************)
(* The page walk.                                                          *)
(***************************************************************************)
(* The entries a walk reads for v, from PML4 to page table.                *)
E4(v) == mem[cr3][v[4]]
E3(v) == mem[E4(v).frame][v[3]]
E2(v) == mem[E3(v).frame][v[2]]
E1(v) == mem[E2(v).frame][v[1]]

(* Where v leads: through a page table, a 2MB page or a 1GB page.  A PML4  *)
(* entry with HUGE and a misaligned large page have reserved bits set and  *)
(* fault.                                                                  *)
Small(v) == IsTable(E4(v)) /\ IsTable(E3(v)) /\ IsTable(E2(v)) /\ Present(E1(v))
Big(v)   == /\ IsTable(E4(v)) /\ IsTable(E3(v)) /\ Present(E2(v)) /\ Huge(E2(v))
            /\ E2(v).frame % ENTRIES = 0
Giant(v) == /\ IsTable(E4(v)) /\ Present(E3(v)) /\ Huge(E3(v))
            /\ E3(v).frame % (ENTRIES * ENTRIES) = 0

Fault == -1
Translate(v) == IF Small(v) THEN E1(v).frame
                ELSE IF Big(v) THEN E2(v).frame + v[1]
                ELSE IF Giant(v) THEN E3(v).frame + v[2] * ENTRIES + v[1]
                ELSE Fault

PageLevel(v) == IF Small(v) THEN 1 ELSE IF Big(v) THEN 2 ELSE 3

(* A cached translation: of page `page`, from a leaf at level `level`.     *)
Cached(v) == {[page |-> w, level |-> PageLevel(v), frame |-> Translate(w)] :
                 w \in Block(v, PageLevel(v))}

(* The processor uses page v, and may keep what the walk found.            *)
Touch(v) ==
    /\ phase = "run" /\ Translate(v) # Fault
    /\ tlb' = tlb \cup Cached(v)
    /\ UNCHANGED <<phase, mem, usable, held, call>>

-----------------------------------------------------------------------------
(***************************************************************************)
(* mem::init                                                               *)
(***************************************************************************)
Init ==
    /\ phase = "init" /\ call = NoCall /\ tlb = {}
    /\ mem = BootMemory
    /\ usable = Pool /\ held = {}

(* alloc_page: a free frame, zeroed by the allocator.  The mutant leaves   *)
(* in it what was there.                                                   *)
FreshDirty(f) == mem[f]
Fresh(f)      == Zeroed
AllocPage(f)  == f \in usable /\ PA!Alloc(f, 1)

(* The page is allocated and never used nor freed.                         *)
InitAllocates ==
    /\ phase = "init" /\ phase' = "run"
    /\ \E f \in usable : AllocPage(f) /\ mem' = [mem EXCEPT ![f] = Fresh(f)]
    /\ UNCHANGED <<call, tlb>>

(* "Failed to allocate physical page"                                      *)
InitHalts ==
    /\ phase = "init" /\ phase' = "halted"
    /\ UNCHANGED <<mem, usable, held, call, tlb>>

-----------------------------------------------------------------------------
(***************************************************************************)
(* mem::map_page(virt, phys, flags)                                        *)
(***************************************************************************)
(* The level of the entry to write.  A mutant: 2MB pages are not told      *)
(* apart.                                                                  *)
LeafAlways1(r) == 1
Leaf(r)        == IF "HUGE" \in r.flags THEN 2 ELSE 1

(* The call: the walk starts at the PML4.  call.level is the level of      *)
(* call.table, and 0 when only the TLB is left to flush.                   *)
MapPage(r) ==
    /\ phase = "run" /\ call = NoCall
    /\ call' = [request |-> r, level |-> 4, table |-> cr3]
    /\ UNCHANGED <<phase, mem, usable, held, tlb>>

Slot == call.request.virt[call.level]
AboveLeaf == call # NoCall /\ call.level > Leaf(call.request)

(* The entry is present: its frame is the next table.                      *)
Descend ==
    /\ AboveLeaf /\ Present(mem[call.table][Slot])
    /\ call' = [call EXCEPT !.level = @ - 1, !.table = mem[call.table][Slot].frame]
    /\ UNCHANGED <<phase, mem, usable, held, tlb>>

(* The entry for a new table takes the flags of this request.  A mutant:   *)
(* the flags are left out, PRESENT among them.                             *)
LinkBare(f) == [frame |-> f, flags |-> {}]
Link(f)     == [frame |-> f, flags |-> call.request.flags]

(* It is not: a zeroed table is allocated and linked.                      *)
CreateTable ==
    /\ AboveLeaf /\ ~Present(mem[call.table][Slot])
    /\ \E f \in usable :
         /\ AllocPage(f)
         /\ mem' = [mem EXCEPT ![f] = Fresh(f), ![call.table][Slot] = Link(f)]
         /\ call' = [call EXCEPT !.level = @ - 1, !.table = f]
    /\ UNCHANGED <<phase, tlb>>

(* alloc_page fails: map_page returns; the tables it linked stay.          *)
OutOfMemory ==
    /\ AboveLeaf /\ ~Present(mem[call.table][Slot])
    /\ call' = NoCall
    /\ UNCHANGED <<phase, mem, usable, held, tlb>>

(* The frame of the leaf: a 2MB page is aligned down.  Mutants: the        *)
(* address is shifted once too often, or not aligned.                      *)
TargetShifted(r)   == r.phys * ENTRIES
TargetUnaligned(r) == r.phys
Target(r) == IF "HUGE" \in r.flags THEN r.phys - (r.phys % ENTRIES) ELSE r.phys

(* map our page                                                            *)
StoreLeaf ==
    /\ call # NoCall /\ call.level = Leaf(call.request)
    /\ mem' = [mem EXCEPT ![call.table][Slot] =
                  [frame |-> Target(call.request), flags |-> call.request.flags]]
    /\ call' = [call EXCEPT !.level = 0]
    /\ UNCHANGED <<phase, usable, held, tlb>>

(* invlpg: the cached translation of virt goes, with all of its large page *)
(* when it is one.                                                         *)
Invlpg(v) == {t \in tlb : v \notin Block(t.page, t.level)}

(* A mutant of FlushTlb: without the invlpg.                               *)
FlushNothing ==
    /\ call # NoCall /\ call.level = 0
    /\ call' = NoCall
    /\ UNCHANGED <<phase, mem, usable, held, tlb>>

FlushTlb ==
    /\ call # NoCall /\ call.level = 0
    /\ tlb' = Invlpg(call.request.virt)
    /\ call' = NoCall
    /\ UNCHANGED <<phase, mem, usable, held>>

Next == \/ InitAllocates \/ InitHalts
        \/ \E r \in Requests : MapPage(r)
        \/ Descend \/ CreateTable \/ OutOfMemory \/ StoreLeaf \/ FlushTlb
        \/ \E r \in Requests : Touch(r.virt)

Spec == Init /\ [][Next]_vars

-----------------------------------------------------------------------------
(***************************************************************************)
(* Properties                                                              *)
(***************************************************************************)
Tables == BootTables \cup {a.base : a \in held}

TypeOK ==
    /\ phase \in {"init", "run", "halted"}
    /\ mem \in [Frames -> [Index -> Entry]]
    /\ usable = Pool /\ held \subseteq [base : Pool, count : {1}]
    /\ call = NoCall \/ call \in [request : Requests, level : 0 .. 4, table : Frames]
    /\ tlb \subseteq [page : Virt, level : 1 .. 3, frame : Frames]

(* Once map_page has stored its entry, the page leads to the frame that    *)
(* was asked for: through a 2MB page, to the one at its place in there.    *)
MapInstalls ==
    call # NoCall /\ call.level = 0 =>
        LET r == call.request
        IN  Translate(r.virt) = IF "HUGE" \notin r.flags THEN r.phys
                                ELSE (r.phys \div ENTRIES) * ENTRIES + r.virt[1]

(* map_page changes the translation of no page but those it was asked to   *)
(* map, at none of its steps, and an allocation failure half way changes   *)
(* none at all.                                                            *)
OthersUntouched ==
    [][\A v \in Virt :
          Translate(v)' # Translate(v) =>
              call # NoCall /\ call.level = Leaf(call.request)
                            /\ v \in Block(call.request.virt, call.level)]_vars

(* map_page writes to page tables only.                                    *)
WritesTablesOnly == [][\A f \in Frames : mem'[f] # mem[f] => f \in Tables']_vars

(* The processor never keeps a translation the tables no longer give, but  *)
(* for the page whose flush is the next step.                              *)
NoStaleTranslation ==
    \A t \in tlb :
        \/ t.frame = Translate(t.page)
        \/ /\ call # NoCall /\ call.level = 0
           /\ t.page \in Block(call.request.virt, Leaf(call.request))

(* Every page the allocator gave to map_page is linked into the tree once: *)
(* none is lost, and no two entries share a table.  Directories are the    *)
(* tables whose entries link tables.                                       *)
LinkedFrom(T) == {mem[p[1]][p[2]].frame : p \in {q \in T \X Index : IsTable(mem[q[1]][q[2]])}}
Directories   == {cr3} \cup LinkedFrom({cr3}) \cup LinkedFrom(LinkedFrom({cr3}))
Links(f) == {p \in Directories \X Index :
               IsTable(mem[p[1]][p[2]]) /\ mem[p[1]][p[2]].frame = f}
TablesLinkedOnce ==
    /\ Cardinality({a \in held : Links(a.base) = {}}) = IF phase = "run" THEN 1 ELSE 0
    /\ \A a \in held : Cardinality(Links(a.base)) <= 1
==============================================================================
