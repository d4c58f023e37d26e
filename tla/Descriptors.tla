---------------------------- MODULE Descriptors -----------------------------
(***************************************************************************)
(* The segment descriptors and interrupt gates of the x86_64 port          *)
(* (arch/x86_64/src/cpu_impl.cpp), byte by byte as the packed structures   *)
(* lay them out, and what a processor reads in them.  An address is its    *)
(* eight bytes, the lowest first: a shift by 8 n bits and a mask pick      *)
(* bytes from the n-th on.                                                 *)
(***************************************************************************)
EXTENDS Integers, Sequences

Byte    == 0 .. 255
Address == [1 .. 8 -> Byte]
Zero    == [k \in 1 .. 8 |-> 0]

TSS_LIMIT == 104        \* sizeof(TSS)

(* A GDTEntry: limit_low, base_low, base_middle, access, limit_high and    *)
(* flags in one byte, base_high.                                           *)
GDTEntry(limit, base, access, flags) ==
    <<limit % 256, (limit \div 256) % 256, base[1], base[2], base[3], access,
      ((limit \div 65536) % 16) + 16 * flags, base[4]>>

(* gdt[]: null, kernel code, kernel data, and room for the TSS.            *)
StaticGdt == <<GDTEntry(0, Zero, 0, 0), GDTEntry(1048575, Zero, 154, 10),
               GDTEntry(1048575, Zero, 146, 10), GDTEntry(0, Zero, 0, 0), GDTEntry(0, Zero, 0, 0)>>

(* The descriptor of the TSS takes two entries.  A mutant: bits 24 to 31   *)
(* of the base are forgotten.                                              *)
TssEntriesForget(base) ==
    <<GDTEntry(TSS_LIMIT, [base EXCEPT ![4] = 0], 137, 0),
      <<base[5], base[6], base[7], base[8], 0, 0, 0, 0>>>>
TssEntries(base) ==
    <<GDTEntry(TSS_LIMIT, base, 137, 0), <<base[5], base[6], base[7], base[8], 0, 0, 0, 0>>>>

(* set_gate: offset_low, selector, ist, flags, offset_mid, offset_high,    *)
(* reserved.                                                               *)
Gate(handler, ist, dpl) ==
    <<handler[1], handler[2], 8, 0, ist % 8, 142 + 32 * (dpl % 4), handler[3], handler[4],
      handler[5], handler[6], handler[7], handler[8], 0, 0, 0, 0>>

-----------------------------------------------------------------------------
(***************************************************************************)
(* The processor's side.                                                   *)
(***************************************************************************)
At(gdt, selector) == gdt[1 + selector \div 8]

Present(d)      == d[6] >= 128
IsCode64(d)     == Present(d) /\ (d[6] \div 8) % 4 = 3 /\ (d[7] \div 32) % 4 = 1
IsData(d)       == Present(d) /\ (d[6] \div 8) % 4 = 2 /\ (d[6] \div 2) % 2 = 1
IsFreeTss(d)    == Present(d) /\ d[6] % 32 = 9
SystemLimit(d)  == d[1] + 256 * d[2] + 65536 * (d[7] % 16)     \* in bytes, unless in 4KB units
InPages(d)      == d[7] >= 128
SystemBase(d, e) == <<d[3], d[4], d[5], d[8], e[1], e[2], e[3], e[4]>>
Busy(d)         == [d EXCEPT ![6] = d[6] + 2]

(* An interrupt gate that leads into a 64-bit code segment, and where to.  *)
GateWorks(g, gdt) == /\ g[6] >= 128 /\ g[6] % 32 = 14
                     /\ g[4] = 0 /\ g[3] \in 8 .. 39 /\ IsCode64(At(gdt, g[3]))
GateTarget(g)     == <<g[1], g[2], g[7], g[8], g[9], g[10], g[11], g[12]>>
GateStack(g)      == g[5] % 8               \* the entry of the IST, 0 for none
GateDpl(g)        == (g[6] \div 32) % 4
==============================================================================
