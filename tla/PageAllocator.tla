---------------------------- MODULE PageAllocator ----------------------------
(***************************************************************************)
(* What a physical page allocator promises its callers, with no region     *)
(* table in sight: an allocation is a run of whole pages, all of them      *)
(* usable memory and none of them allocated to anyone else, and it lasts   *)
(* until it is freed.  PMM.tla is shown to implement this specification    *)
(* on memory maps without holes.                                           *)
(*                                                                         *)
(* An allocation may fail, and a failed allocation or a rejected free      *)
(* changes nothing: both are stuttering steps here.                        *)
(***************************************************************************)
EXTENDS Integers

CONSTANTS PAGE_SIZE,  \* bytes in a page
          Counts      \* the page counts callers ask for

VARIABLES usable,     \* the bytes of usable memory the boot loader handed over
          held        \* the allocations callers hold, [base, count] records

vars == <<usable, held>>

(* The bytes an allocation stands for.                                     *)
Extent(a) == a.base .. (a.base + a.count * PAGE_SIZE - 1)

Init == usable \in SUBSET Nat /\ held = {}

(* alloc_pages: any run of `count` free usable pages may be returned.      *)
Alloc(base, count) ==
    LET a == [base |-> base, count |-> count] IN
    /\ Extent(a) \subseteq usable
    /\ \A h \in held : Extent(h) \cap Extent(a) = {}
    /\ held' = held \cup {a}
    /\ UNCHANGED usable

(* free_pages: the pages of an allocation become free again.               *)
Free(a) ==
    /\ held' = held \ {a}
    /\ UNCHANGED usable

Next == \/ \E base \in usable, count \in Counts : Alloc(base, count)
        \/ \E a \in held : Free(a)

Spec == Init /\ [][Next]_vars
==============================================================================
