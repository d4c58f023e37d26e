------------------------------ MODULE MCPaging ------------------------------
(* Boot page tables and requests for model checking Paging: tables of two  *)
(* entries, so that a 2MB page is 2 frames and a 1GB page 4.               *)
EXTENDS Paging, Sequences

MCFrames == 0 .. 15
MCPool   == 4 .. 7
MCBootTables == {1, 2, 3, 10}

(* A virtual page, from its PML4 index down.                               *)
V(i4, i3, i2, i1) == <<i1, i2, i3, i4>>
Empty == [f \in MCFrames |-> [x \in 0 .. 1 |-> [frame |-> 0, flags |-> {}]]]
Table(f) == [frame |-> f, flags |-> {"PRESENT", "WRITABLE"}]
Large(f) == [frame |-> f, flags |-> {"PRESENT", "WRITABLE", "HUGE"}]

(* PML4 1 -> PDPT 2 -> PD 3, which maps one 2MB page, at frame 8, and has  *)
(* a page table, 10, that maps a page of the pool, as the HHDM does.  The  *)
(* frames of the pool hold what looks like entries.                        *)
MCBoot == [Empty EXCEPT ![1][0] = Table(2), ![2][0] = Table(3), ![3][1] = Large(8),
                        ![3][0] = Table(10), ![10][1] = Table(5),
                        ![4][0] = Table(14), ![5][1] = Large(10), ![7][1] = Table(15)]

Page(v, p)  == [virt |-> v, phys |-> p, flags |-> {"PRESENT", "WRITABLE"}]
Page2M(v, p) == [virt |-> v, phys |-> p, flags |-> {"PRESENT", "WRITABLE", "HUGE"}]

(* 4KB pages outside the 2MB page, two frames for one of them, and a new   *)
(* 2MB page over the old one.                                              *)
MCSeparate == {
    Page(V(0, 0, 0, 0), 12), Page(V(0, 0, 0, 0), 13), Page(V(0, 1, 1, 0), 14),
    Page(V(1, 0, 0, 0), 12), Page2M(V(0, 0, 1, 0), 11), Page2M(V(0, 0, 1, 1), 12) }

ASSUME RequestsSeparate == Separate(MCSeparate)

(* A 2MB page where there is no page directory yet.                        *)
MCFresh == {Page2M(V(0, 1, 0, 0), 12)} \cup MCSeparate
==============================================================================
