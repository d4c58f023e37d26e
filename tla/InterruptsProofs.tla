-------------------------- MODULE InterruptsProofs --------------------------
(***************************************************************************)
(* Interrupts, for any machine, any devices, any addresses of the handlers *)
(* and any words on the stack.  KernelInv, at the end of the definitions,  *)
(* is inductive; it implies the safety properties of Interrupts.           *)
(***************************************************************************)
EXTENDS Interrupts, TLAPS

-----------------------------------------------------------------------------
(***************************************************************************)
(* Descriptors: what is written is what the processor reads.               *)
(***************************************************************************)
LEMMA EightBytes ==
    ASSUME NEW a \in Address
    PROVE  a = <<a[1], a[2], a[3], a[4], a[5], a[6], a[7], a[8]>>
  BY DEF Address

(* A gate leads to the handler it was set for, through a segment table     *)
(* with the kernel's code where the selector says, whatever the handler's  *)
(* address and whatever bytes are passed for the stack and the privilege   *)
(* level, of which only the low bits get into the gate (set_gate).         *)
THEOREM GateReadsBack ==
    ASSUME NEW a \in Address, NEW ist \in Byte, NEW dpl \in Byte
    PROVE  /\ GateTarget(Gate(a, ist, dpl)) = a
           /\ \A table : IsCode64(At(table, 8)) => GateWorks(Gate(a, ist, dpl), table)
           /\ GateStack(Gate(a, ist, dpl)) = ist % 8 /\ GateDpl(Gate(a, ist, dpl)) = dpl % 4
<1> DEFINE i == ist % 8
           d == dpl % 4
           g == Gate(a, ist, dpl)
<1>1. i \in 0 .. 7 /\ d \in 0 .. 3
  BY DEF Byte
<1> HIDE DEF i, d
<1>2. g = <<a[1], a[2], 8, 0, i, 142 + 32 * d, a[3], a[4], a[5], a[6], a[7], a[8], 0, 0, 0, 0>>
  BY DEF Gate, i, d
<1> HIDE DEF g
<1>3. GateTarget(g) = a
  BY <1>2, EightBytes DEF GateTarget
<1>4. d = 0 \/ d = 1 \/ d = 2 \/ d = 3
  BY <1>1
<1>5. g[6] >= 128 /\ g[6] % 32 = 14 /\ (g[6] \div 32) % 4 = d
  <2>1. g[6] = 142 + 32 * d
    BY <1>2
  <2> QED
    BY <1>4, <2>1
<1>6. \A table : IsCode64(At(table, 8)) => GateWorks(g, table)
  BY <1>2, <1>5 DEF GateWorks
<1>7. GateStack(g) = i /\ GateDpl(g) = d
  <2>1. g[5] = i /\ i % 8 = i
    BY <1>1, <1>2
  <2> QED
    BY <1>5, <2>1 DEF GateStack, GateDpl
<1> QED
  BY <1>3, <1>6, <1>7 DEF g, i, d

(* The two entries that describe the TSS give its address and its size     *)
(* back, whatever the address, and ltr accepts them                        *)
(* (cpu_traits<x86_64>::init).                                             *)
THEOREM TssReadsBack ==
    ASSUME NEW a \in Address
    PROVE  LET e == TssEntries(a)
           IN  /\ Len(e) = 2 /\ IsFreeTss(e[1]) /\ SystemBase(e[1], e[2]) = a
               /\ SystemLimit(e[1]) = TSS_LIMIT /\ ~InPages(e[1])
<1>1. TssEntries(a) = << <<104, 0, a[1], a[2], a[3], 137, 0, a[4]>>,
                         <<a[5], a[6], a[7], a[8], 0, 0, 0, 0>> >>
  BY DEF TssEntries, GDTEntry, TSS_LIMIT
<1> QED
  BY <1>1, EightBytes DEF IsFreeTss, Present, SystemBase, SystemLimit, InPages, TSS_LIMIT

-----------------------------------------------------------------------------
(***************************************************************************)
(* The inductive invariant.                                                *)
(***************************************************************************)
(* The descriptors before and after they describe the TSS, and once it is  *)
(* loaded; the gates.                                                      *)
TssGdt    == [StaticGdt EXCEPT ![4] = TssEntries(AddressOf["tss"])[1],
                               ![5] = TssEntries(AddressOf["tss"])[2]]
LoadedGdt == [TssGdt EXCEPT ![1 + TSS_SELECTOR \div 8] = Busy(At(TssGdt, TSS_SELECTOR))]
Gates     == [v \in DOMAIN Handlers |-> Gate(AddressOf[Handlers[v]], 0, 0)]

(* Where init stands.                                                      *)
AtGdt    == {"hhdm", "gdt", "segments"}
AtTss    == {"tss", "ltr", "idt"}
AtApic   == {"map", "divide", "count", "periodic", "lvt", "svr"}
AtEnd    == {"sti", "msrs", "halt"}
Loaded   == {"features", "controller"} \cup AtApic \cup AtEnd

LocalVectors == {IRQ_TIMER, IRQ_THERMAL, IRQ_PERFMON, IRQ_LINT0, IRQ_LINT1, IRQ_ERROR}

LvtEntry     == [vector : {0, 3} \cup LocalVectors, periodic : BOOLEAN, masked : BOOLEAN]

InvTypes ==
    /\ machine \in Machines /\ paging \in {"ready", "full", "unset"}
    /\ iflag \in BOOLEAN /\ tick \in 0 .. TICKS - 1 /\ mapped \in BOOLEAN
    /\ pc \in AtGdt \cup AtTss \cup Loaded \cup Stops
    /\ kbd_full \in BOOLEAN /\ enabled \in BOOLEAN /\ counting \in BOOLEAN
    /\ irr \subseteq Lines /\ isr \subseteq Lines
    /\ aisr \subseteq LocalVectors

(* What the processor has loaded, by where init stands.                    *)
InvTables ==
    /\ gdt \in {StaticGdt, TssGdt, LoadedGdt} /\ gdtr \in BOOLEAN
    /\ cs \in {40, 8} /\ ds \in {48, 16} /\ tr \in {Zero, AddressOf["tss"]}
    /\ idt \in {[v \in {} |-> <<>>], Gates}
    /\ pc \in AtGdt \cup {"tss"} => gdt = StaticGdt
    /\ pc = "segments" => gdtr
    /\ pc \in AtTss \cup Loaded => cs = KERNEL_CODE /\ ds = KERNEL_DATA
    /\ pc = "ltr" => gdt = TssGdt
    /\ pc \in {"idt"} \cup Loaded => gdt = LoadedGdt /\ tr = AddressOf["tss"]
    /\ pc \in Loaded => idt = Gates
    /\ iflag => pc \in {"msrs", "halt"}

(* The controllers: with a local APIC the PICs are masked, without one     *)
(* they have their vectors.                                                *)
InvControllers ==
    /\ imr \in {PicLines, {}}
    /\ pic_base \in {[p \in 0 .. 1 |-> 8 + 104 * p], [p \in 0 .. 1 |-> 32 + 8 * p]}
    /\ pc \in AtApic => machine.apic
    /\ pc \in AtApic \cup AtEnd =>
           IF machine.apic THEN imr = PicLines ELSE pic_base = [p \in 0 .. 1 |-> 32 + 8 * p]
    /\ lvt \in [LvtEntries -> LvtEntry]
    /\ airr \subseteq LocalVectors
    /\ pc \notin Stops => aisr = {}

KernelInv == InvTypes /\ InvTables /\ InvControllers

-----------------------------------------------------------------------------
(***************************************************************************)
(* What the invariant gives.                                               *)
(***************************************************************************)
LEMMA StaticDescriptors ==
    /\ StaticGdt = << <<0, 0, 0, 0, 0, 0, 0, 0>>, <<255, 255, 0, 0, 0, 154, 175, 0>>,
                      <<255, 255, 0, 0, 0, 146, 175, 0>>,
                      <<0, 0, 0, 0, 0, 0, 0, 0>>, <<0, 0, 0, 0, 0, 0, 0, 0>> >>
    /\ IsCode64(At(StaticGdt, KERNEL_CODE)) /\ IsData(At(StaticGdt, KERNEL_DATA))
<1>1. /\ GDTEntry(0, Zero, 0, 0) = <<0, 0, 0, 0, 0, 0, 0, 0>>
      /\ GDTEntry(1048575, Zero, 154, 10) = <<255, 255, 0, 0, 0, 154, 175, 0>>
      /\ GDTEntry(1048575, Zero, 146, 10) = <<255, 255, 0, 0, 0, 146, 175, 0>>
  BY DEF GDTEntry, Zero
<1>2. StaticGdt = << <<0, 0, 0, 0, 0, 0, 0, 0>>, <<255, 255, 0, 0, 0, 154, 175, 0>>,
                     <<255, 255, 0, 0, 0, 146, 175, 0>>,
                     <<0, 0, 0, 0, 0, 0, 0, 0>>, <<0, 0, 0, 0, 0, 0, 0, 0>> >>
  BY <1>1 DEF StaticGdt
<1>3. At(StaticGdt, 8) = <<255, 255, 0, 0, 0, 154, 175, 0>> /\ At(StaticGdt, 16) = <<255, 255, 0, 0, 0, 146, 175, 0>>
  BY <1>2 DEF At
<1> QED
  BY <1>2, <1>3 DEF IsCode64, IsData, Present, KERNEL_CODE, KERNEL_DATA

(* The code and data segments stay what they are, and the third is the TSS *)
(* at its address.                                                         *)
LEMMA TssDescriptors ==
    /\ DOMAIN StaticGdt = 1 .. 5 /\ DOMAIN TssGdt = 1 .. 5 /\ DOMAIN LoadedGdt = 1 .. 5
    /\ IsFreeTss(At(TssGdt, TSS_SELECTOR))
    /\ SystemBase(At(TssGdt, TSS_SELECTOR), At(TssGdt, TSS_SELECTOR + 8)) = AddressOf["tss"]
    /\ IsCode64(At(LoadedGdt, KERNEL_CODE))
<1> DEFINE e == TssEntries(AddressOf["tss"])
<1>1. AddressOf["tss"] \in Address
  BY AddressAssumption
<1>2. Len(e) = 2 /\ IsFreeTss(e[1]) /\ SystemBase(e[1], e[2]) = AddressOf["tss"]
  BY <1>1, TssReadsBack
<1> HIDE DEF e
<1>3. DOMAIN StaticGdt = 1 .. 5
  BY StaticDescriptors
<1>4. /\ DOMAIN TssGdt = 1 .. 5 /\ TssGdt[4] = e[1] /\ TssGdt[5] = e[2]
      /\ TssGdt[2] = StaticGdt[2]
  BY <1>3 DEF TssGdt, e
<1>5. /\ At(TssGdt, TSS_SELECTOR) = e[1] /\ At(TssGdt, TSS_SELECTOR + 8) = e[2]
      /\ At(TssGdt, KERNEL_CODE) = At(StaticGdt, KERNEL_CODE)
  BY <1>4 DEF At, TSS_SELECTOR, KERNEL_CODE
<1>6. DOMAIN LoadedGdt = 1 .. 5 /\ At(LoadedGdt, KERNEL_CODE) = At(TssGdt, KERNEL_CODE)
  BY <1>4 DEF LoadedGdt, At, TSS_SELECTOR, KERNEL_CODE
<1> QED
  BY <1>2, <1>3, <1>4, <1>5, <1>6, StaticDescriptors

(* Every vector with a gate has a handler of the kernel.                   *)
LEMMA HandlersNamed ==
    /\ DOMAIN Handlers \subseteq 0 .. 47 /\ 32 .. 47 \subseteq DOMAIN Handlers /\ EXCEPTION_UD \in DOMAIN Handlers
    /\ \A v \in DOMAIN Handlers : Handlers[v] \in HandlerNames
    /\ Handlers[IRQ_TIMER] = "timer_handler" /\ Handlers[EXCEPTION_UD] = "int_no_error"
    /\ \A v \in DOMAIN Handlers : Handlers[v] = "timer_handler" => v = IRQ_TIMER
  BY DEF Handlers, HandlerNames, NoErrorExceptions, ErrorExceptions, EXCEPTION_UD, IRQ_TIMER, IRQ_KEYBOARD

(* Once the tables are loaded a vector with a gate leads to its handler,   *)
(* one without to a general protection fault.                              *)
LEMMA EnteredHandler ==
    ASSUME gdt = LoadedGdt, idt = Gates
    PROVE  /\ DOMAIN idt = DOMAIN Handlers
           /\ \A v \in DOMAIN Handlers : Entered(v) = Handlers[v]
           /\ \A v : v \notin DOMAIN Handlers => Entered(v) = "gpf_handler"
<1>1. DOMAIN idt = DOMAIN Handlers
  BY DEF Gates
<1>2. ASSUME NEW v \in DOMAIN Handlers
      PROVE  Entered(v) = Handlers[v]
  <2> DEFINE g == Gate(AddressOf[Handlers[v]], 0, 0)
  <2>1. Handlers[v] \in HandlerNames /\ AddressOf[Handlers[v]] \in Address
    BY HandlersNamed, AddressAssumption
  <2>2. idt[v] = g
    BY DEF Gates
  <2>3. /\ GateTarget(g) = AddressOf[Handlers[v]]
        /\ \A table : IsCode64(At(table, 8)) => GateWorks(g, table)
    <3> DEFINE h == AddressOf[Handlers[v]]
    <3>1. h \in Address /\ 0 \in Byte
      BY <2>1 DEF Byte
    <3> HIDE DEF h
    <3>2. /\ GateTarget(Gate(h, 0, 0)) = h
          /\ \A table : IsCode64(At(table, 8)) => GateWorks(Gate(h, 0, 0), table)
      BY <3>1, GateReadsBack
    <3> QED
      BY <3>2 DEF h
  <2> HIDE DEF g
  <2>4. GateWorks(g, gdt)
    BY <2>3, TssDescriptors DEF KERNEL_CODE
  <2>5. Entered(v) = CHOOSE h \in HandlerNames : AddressOf[h] = AddressOf[Handlers[v]]
    BY <1>1, <2>2, <2>3, <2>4 DEF Entered
  <2>6. \A h \in HandlerNames : AddressOf[h] = AddressOf[Handlers[v]] <=> h = Handlers[v]
    BY <2>1, AddressAssumption
  <2> QED
    BY <2>1, <2>5, <2>6
<1>3. \A v : v \notin DOMAIN Handlers => Entered(v) = "gpf_handler"
  BY <1>1 DEF Entered
<1> QED
  BY <1>1, <1>2, <1>3

(* The highest vector requested is one of them.                            *)
LEMMA HighestRequested ==
    ASSUME NEW S \in SUBSET LocalVectors, S # {}
    PROVE  Highest(S) \in S
<1>1. \E v \in S : \A w \in S : w <= v
  <2>1. CASE 132 \in S
    BY <2>1 DEF LocalVectors, IRQ_TIMER, IRQ_THERMAL, IRQ_PERFMON, IRQ_LINT0, IRQ_LINT1, IRQ_ERROR
  <2>2. CASE 132 \notin S /\ 131 \in S
    BY <2>2 DEF LocalVectors, IRQ_TIMER, IRQ_THERMAL, IRQ_PERFMON, IRQ_LINT0, IRQ_LINT1, IRQ_ERROR
  <2>3. CASE 132 \notin S /\ 131 \notin S /\ 130 \in S
    BY <2>3 DEF LocalVectors, IRQ_TIMER, IRQ_THERMAL, IRQ_PERFMON, IRQ_LINT0, IRQ_LINT1, IRQ_ERROR
  <2>4. CASE 132 \notin S /\ 131 \notin S /\ 130 \notin S /\ 129 \in S
    BY <2>4 DEF LocalVectors, IRQ_TIMER, IRQ_THERMAL, IRQ_PERFMON, IRQ_LINT0, IRQ_LINT1, IRQ_ERROR
  <2>5. CASE 132 \notin S /\ 131 \notin S /\ 130 \notin S /\ 129 \notin S /\ 128 \in S
    BY <2>5 DEF LocalVectors, IRQ_TIMER, IRQ_THERMAL, IRQ_PERFMON, IRQ_LINT0, IRQ_LINT1, IRQ_ERROR
  <2>6. CASE 132 \notin S /\ 131 \notin S /\ 130 \notin S /\ 129 \notin S /\ 128 \notin S
    <3>1. PICK v \in S : TRUE
      OBVIOUS
    <3>2. \A w \in S : w = 32
      BY <2>6 DEF LocalVectors, IRQ_TIMER, IRQ_THERMAL, IRQ_PERFMON, IRQ_LINT0, IRQ_LINT1, IRQ_ERROR
    <3> QED
      BY <3>1, <3>2
  <2> QED
    BY <2>1, <2>2, <2>3, <2>4, <2>5, <2>6
<1> QED
  BY <1>1 DEF Highest

LEMMA HighestAlone == \A v \in Nat : Highest({v}) = v
  BY DEF Highest

-----------------------------------------------------------------------------
(***************************************************************************)
(* The invariant is inductive.                                             *)
(***************************************************************************)
LEMMA InvInit == Init => KernelInv
<1> SUFFICES ASSUME Init PROVE KernelInv
  OBVIOUS
<1>1. InvTypes
  <2>1. \A m \in Machines : m.enabled \in BOOLEAN
    BY MachineAssumption DEF Machine
  <2>2. tick \in 0 .. TICKS - 1
    BY DeviceAssumption DEF Init
  <2> QED
    BY <2>1, <2>2 DEF Init, InvTypes, AtGdt
<1>2. InvTables
  BY DEF Init, InvTables, AtGdt, AtTss, Loaded, AtApic, AtEnd
<1>3. InvControllers
  <2>1. lvt \in [LvtEntries -> LvtEntry]
    BY DEF Init, LvtEntry
  <2> QED
    BY <2>1 DEF Init, InvControllers, AtApic, AtEnd
<1> QED
  BY <1>1, <1>2, <1>3 DEF KernelInv

(* A handler leaves nothing in service, or the kernel stops; it changes    *)
(* nothing of the tables and the controllers' setup.                       *)
LEMMA HandlerReturns ==
    ASSUME KernelInv, pc \in Loaded,
           NEW v, NEW inService \in SUBSET LocalVectors,
           inService = {} \/ inService = {v}, Handle(v, inService)
    PROVE  /\ UNCHANGED <<cpu, mapped, enabled, lvt, counting, pic_base, imr>>
           /\ kbd_full' \in BOOLEAN /\ tick' \in 0 .. TICKS - 1
           /\ \/ UNCHANGED <<pc, iflag>> /\ aisr' = {}
              \/ pc' \in {"dead", "lost"} /\ iflag' = FALSE /\ aisr' \subseteq LocalVectors
<1>1. gdt = LoadedGdt /\ idt = Gates
  BY DEF KernelInv, InvTables
<1>2. inService # {} => v \in LocalVectors /\ Entered(v) \in {"timer_handler", "gpf_handler"}
  <2>1. inService # {} => v \in LocalVectors
    OBVIOUS
  <2>2. \A w \in LocalVectors : w \in DOMAIN Handlers => w = IRQ_TIMER
    BY HandlersNamed DEF LocalVectors, IRQ_TIMER, IRQ_THERMAL, IRQ_PERFMON, IRQ_LINT0, IRQ_LINT1, IRQ_ERROR
  <2> QED
    BY <1>1, <2>1, <2>2, EnteredHandler, HandlersNamed
<1>3. kbd_full' \in BOOLEAN
  BY DEF Handle, KernelInv, InvTypes
<1>4. CASE Entered(v) = "timer_handler"
  <2>1. Timer(inService)
    BY <1>4 DEF Handle
  <2>2. tick' \in 0 .. TICKS - 1
    BY <2>1, DeviceAssumption DEF Timer, KernelInv, InvTypes
  <2>3. inService # {} => Eoi(inService) = {}
    <3>1. SUFFICES ASSUME inService # {} PROVE inService \ {Highest(inService)} = {}
      BY DEF Eoi
    <3>2. v \in LocalVectors /\ inService = {v}
      BY <1>2, <3>1
    <3>3. v \in Nat
      BY <3>2 DEF LocalVectors, IRQ_TIMER, IRQ_THERMAL, IRQ_PERFMON, IRQ_LINT0, IRQ_LINT1, IRQ_ERROR
    <3>4. Highest(inService) = v
      BY <3>2, <3>3, HighestAlone
    <3> QED
      BY <3>2, <3>4
  <2>4. \/ UNCHANGED <<pc, iflag>> /\ aisr' = {}
        \/ Stop("dead") /\ aisr' = inService
    BY <2>1, <2>3 DEF Timer, Die
  <2>5. UNCHANGED <<cpu, mapped, enabled, lvt, counting, pic_base, imr>>
    BY DEF Handle
  <2> QED
    BY <1>3, <2>2, <2>4, <2>5 DEF Stop, Stops
<1>5. CASE Entered(v) # "timer_handler"
  <2>1. aisr' = inService /\ tick' \in 0 .. TICKS - 1
    BY <1>5 DEF Handle, KernelInv, InvTypes
  <2>2. CASE Entered(v) = "keyboard_handler"
    <3>1. UNCHANGED <<pc, iflag>>
      BY <1>5, <2>2 DEF Handle
    <3> QED
      BY <1>2, <1>3, <2>1, <2>2, <3>1 DEF Handle
  <2>3. CASE Entered(v) \in {"int_no_error", "int_with_error"}
    <3>1. Dispatch
      BY <2>3 DEF Handle
    <3> QED
      BY <1>2, <1>3, <1>5, <2>1, <2>3, <3>1 DEF Handle, Dispatch, Stop, Stops
  <2>4. CASE Entered(v) \notin {"keyboard_handler", "int_no_error", "int_with_error"}
    <3>1. Die
      BY <1>5, <2>4 DEF Handle
    <3> QED
      BY <1>3, <2>1, <3>1 DEF Handle, Die, Stop, Stops
  <2> QED
    BY <2>2, <2>3, <2>4
<1> QED
  BY <1>4, <1>5

(* A write to the LVT gives an entry one of the vectors.                   *)
LEMMA LvtWrite ==
    ASSUME KernelInv, NEW v \in {0, 3} \cup LocalVectors, NEW p \in BOOLEAN
    PROVE  Lvt(v, p) \in LvtEntry
<1>1. CASE enabled = TRUE
  BY <1>1 DEF Lvt, LvtEntry
<1>2. CASE enabled = FALSE
  BY <1>2 DEF Lvt, LvtEntry
<1> QED
  BY <1>1, <1>2 DEF KernelInv, InvTypes

(* Every step of init.                                                     *)
LEMMA InitPreserves ==
    ASSUME KernelInv, InitStep
    PROVE  KernelInv'
<1> USE DEF KernelInv, Goto, Stop, Die, Stops, AtGdt, AtTss, AtApic, AtEnd, Loaded, Others, cpu, segments, pic, lapic
<1>1. CASE SaveHhdm
  <2>1. InvTypes'
    BY <1>1 DEF SaveHhdm, InvTypes
  <2>2. InvTables'
    BY <1>1 DEF SaveHhdm, InvTables
  <2>3. InvControllers'
    BY <1>1 DEF SaveHhdm, InvControllers
  <2> QED
    BY <2>1, <2>2, <2>3
<1>2. CASE HhdmFaults
  <2>1. InvTypes'
    BY <1>2 DEF HhdmFaults, InvTypes
  <2>2. InvTables'
    BY <1>2 DEF HhdmFaults, InvTables
  <2>3. InvControllers'
    BY <1>2 DEF HhdmFaults, InvControllers
  <2> QED
    BY <2>1, <2>2, <2>3
<1>3. CASE LoadGdt
  <2>1. InvTypes'
    BY <1>3 DEF LoadGdt, InvTypes
  <2>2. InvTables'
    BY <1>3 DEF LoadGdt, InvTables
  <2>3. InvControllers'
    BY <1>3 DEF LoadGdt, InvControllers
  <2> QED
    BY <2>1, <2>2, <2>3
<1>4. CASE LoadSegments
  <2>1. InvTypes'
    BY <1>4 DEF LoadSegments, InvTypes
  <2>2. InvTables'
    <3>1. gdt = StaticGdt /\ gdtr
      BY <1>4 DEF LoadSegments, InvTables
    <3>2. pc' = "tss" /\ cs' = KERNEL_CODE /\ ds' = KERNEL_DATA /\ iflag' = iflag
      BY <1>4, <3>1, StaticDescriptors DEF LoadSegments
    <3> QED
      BY <1>4, <3>1, <3>2 DEF LoadSegments, InvTables, KERNEL_CODE, KERNEL_DATA
  <2>3. InvControllers'
    BY <1>4 DEF LoadSegments, InvControllers
  <2> QED
    BY <2>1, <2>2, <2>3
<1>5. CASE DescribeTss
  <2>1. InvTypes'
    BY <1>5 DEF DescribeTss, InvTypes
  <2>2. InvTables'
    <3>1. gdt' = TssGdt
      BY <1>5 DEF DescribeTss, InvTables, TssGdt
    <3> QED
      BY <1>5, <3>1 DEF DescribeTss, InvTables
  <2>3. InvControllers'
    BY <1>5 DEF DescribeTss, InvControllers
  <2> QED
    BY <2>1, <2>2, <2>3
<1>6. CASE LoadTss
  <2>1. InvTypes'
    BY <1>6 DEF LoadTss, InvTypes
  <2>2. InvTables'
    <3>1. gdt = TssGdt /\ IsFreeTss(At(gdt, TSS_SELECTOR))
      BY <1>6, TssDescriptors DEF LoadTss, InvTables
    <3>2. tr' = AddressOf["tss"] /\ gdt' = LoadedGdt /\ pc' = "idt" /\ iflag' = iflag
      BY <1>6, <3>1, TssDescriptors DEF LoadTss, LoadedGdt
    <3> QED
      BY <1>6, <3>2 DEF LoadTss, InvTables
  <2>3. InvControllers'
    BY <1>6 DEF LoadTss, InvControllers
  <2> QED
    BY <2>1, <2>2, <2>3
<1>7. CASE LoadIdt
  <2>1. InvTypes'
    BY <1>7 DEF LoadIdt, InvTypes
  <2>2. InvTables'
    <3>1. idt' = Gates
      BY <1>7 DEF LoadIdt, Gates
    <3> QED
      BY <1>7, <3>1 DEF LoadIdt, InvTables
  <2>3. InvControllers'
    BY <1>7 DEF LoadIdt, InvControllers
  <2> QED
    BY <2>1, <2>2, <2>3
<1>8. CASE EnableFeatures
  <2>1. InvTypes'
    BY <1>8 DEF EnableFeatures, InvTypes
  <2>2. InvTables'
    BY <1>8 DEF EnableFeatures, InvTables
  <2>3. InvControllers'
    BY <1>8 DEF EnableFeatures, InvControllers
  <2> QED
    BY <2>1, <2>2, <2>3
<1>9. CASE XgetbvFaults
  <2>1. /\ UNCHANGED <<cpu, mapped, enabled, lvt, counting, pic_base, imr>>
        /\ kbd_full' \in BOOLEAN /\ tick' \in 0 .. TICKS - 1
        /\ \/ UNCHANGED <<pc, iflag>> /\ aisr' = {}
           \/ pc' \in {"dead", "lost"} /\ iflag' = FALSE /\ aisr' \subseteq LocalVectors
    <3>1. aisr = {} /\ pc \in Loaded /\ Handle(EXCEPTION_UD, {})
      BY <1>9 DEF XgetbvFaults, InvControllers
    <3> QED
      BY <3>1, HandlerReturns
  <2>2. UNCHANGED <<irr, isr, airr>>
    BY <1>9 DEF XgetbvFaults
  <2>3. InvTypes'
    BY <2>1, <2>2 DEF InvTypes
  <2>4. InvTables'
    BY <2>1, <2>2 DEF InvTables
  <2>5. InvControllers'
    BY <2>1, <2>2 DEF InvControllers
  <2> QED
    BY <2>3, <2>4, <2>5
<1>10. CASE MaskPic
  <2>1. InvTypes'
    BY <1>10 DEF MaskPic, InvTypes
  <2>2. InvTables'
    BY <1>10 DEF MaskPic, InvTables
  <2>3. InvControllers'
    BY <1>10 DEF MaskPic, InvControllers
  <2> QED
    BY <2>1, <2>2, <2>3
<1>11. CASE MapApic
  <2>1. InvTypes'
    BY <1>11 DEF MapApic, InvTypes
  <2>2. InvTables'
    BY <1>11 DEF MapApic, InvTables
  <2>3. InvControllers'
    BY <1>11 DEF MapApic, InvControllers
  <2> QED
    BY <2>1, <2>2, <2>3
<1>12. CASE MapFaults
  <2>1. InvTypes'
    BY <1>12 DEF MapFaults, InvTypes
  <2>2. InvTables'
    BY <1>12 DEF MapFaults, InvTables
  <2>3. InvControllers'
    BY <1>12 DEF MapFaults, InvControllers
  <2> QED
    BY <2>1, <2>2, <2>3
<1>13. CASE ApicFaults
  <2>1. InvTypes'
    BY <1>13 DEF ApicFaults, InvTypes
  <2>2. InvTables'
    BY <1>13 DEF ApicFaults, InvTables
  <2>3. InvControllers'
    BY <1>13 DEF ApicFaults, InvControllers
  <2> QED
    BY <2>1, <2>2, <2>3
<1>14. CASE WriteDivide
  <2>1. InvTypes'
    BY <1>14 DEF WriteDivide, InvTypes
  <2>2. InvTables'
    BY <1>14 DEF WriteDivide, InvTables
  <2>3. InvControllers'
    <3>1. lvt' \in [LvtEntries -> LvtEntry]
      BY <1>14, LvtWrite DEF WriteDivide, InvControllers, LvtEntries, LocalVectors
    <3> QED
      BY <1>14, <3>1 DEF WriteDivide, InvControllers
  <2> QED
    BY <2>1, <2>2, <2>3
<1>15. CASE StartCount
  <2>1. InvTypes'
    BY <1>15 DEF StartCount, InvTypes
  <2>2. InvTables'
    BY <1>15 DEF StartCount, InvTables
  <2>3. InvControllers'
    BY <1>15 DEF StartCount, InvControllers
  <2> QED
    BY <2>1, <2>2, <2>3
<1>16. CASE SetPeriodic
  <2>1. InvTypes'
    BY <1>16 DEF SetPeriodic, InvTypes
  <2>2. InvTables'
    BY <1>16 DEF SetPeriodic, InvTables
  <2>3. InvControllers'
    <3>1. lvt' \in [LvtEntries -> LvtEntry]
      BY <1>16, LvtWrite DEF SetPeriodic, InvControllers, LvtEntries, LocalVectors
    <3> QED
      BY <1>16, <3>1 DEF SetPeriodic, InvControllers
  <2> QED
    BY <2>1, <2>2, <2>3
<1>17. CASE ConfigureLvt
  <2>1. InvTypes'
    BY <1>17 DEF ConfigureLvt, InvTypes
  <2>2. InvTables'
    BY <1>17 DEF ConfigureLvt, InvTables
  <2>3. InvControllers'
    <3>1. lvt' \in [LvtEntries -> LvtEntry]
      BY <1>17, LvtWrite DEF ConfigureLvt, InvControllers, LvtEntries, LocalVectors
    <3> QED
      BY <1>17, <3>1 DEF ConfigureLvt, InvControllers
  <2> QED
    BY <2>1, <2>2, <2>3
<1>18. CASE EnableApic
  <2>1. InvTypes'
    BY <1>18 DEF EnableApic, InvTypes
  <2>2. InvTables'
    BY <1>18 DEF EnableApic, InvTables
  <2>3. InvControllers'
    BY <1>18 DEF EnableApic, InvControllers
  <2> QED
    BY <2>1, <2>2, <2>3
<1>19. CASE PicInit
  <2>1. InvTypes'
    BY <1>19 DEF PicInit, InvTypes
  <2>2. InvTables'
    BY <1>19 DEF PicInit, InvTables
  <2>3. InvControllers'
    BY <1>19 DEF PicInit, InvControllers
  <2> QED
    BY <2>1, <2>2, <2>3
<1>20. CASE EnableInterrupt
  <2>1. InvTypes'
    BY <1>20 DEF EnableInterrupt, InvTypes
  <2>2. InvTables'
    BY <1>20 DEF EnableInterrupt, InvTables
  <2>3. InvControllers'
    BY <1>20 DEF EnableInterrupt, InvControllers
  <2> QED
    BY <2>1, <2>2, <2>3
<1>21. CASE Finish
  <2>1. InvTypes'
    BY <1>21 DEF Finish, InvTypes
  <2>2. InvTables'
    BY <1>21 DEF Finish, InvTables
  <2>3. InvControllers'
    BY <1>21 DEF Finish, InvControllers
  <2> QED
    BY <2>1, <2>2, <2>3
<1> QED
  BY <1>1, <1>2, <1>3, <1>4, <1>5, <1>6, <1>7, <1>8, <1>9, <1>10, <1>11, <1>12, <1>13, <1>14, <1>15, <1>16, <1>17, <1>18, <1>19, <1>20, <1>21 DEF InitStep

(* An interrupt is taken: the handler's effects, and the request's.        *)
LEMMA HandlerPreserves ==
    ASSUME KernelInv, NEW v, NEW inService \in SUBSET LocalVectors,
           inService = {} \/ inService = {v}, pc \in {"msrs", "halt"}, Handle(v, inService),
           irr' \subseteq irr, isr' \subseteq Lines, airr' \subseteq airr
    PROVE  KernelInv'
<1>1. /\ UNCHANGED <<cpu, mapped, enabled, lvt, counting, pic_base, imr>>
      /\ kbd_full' \in BOOLEAN /\ tick' \in 0 .. TICKS - 1
      /\ \/ UNCHANGED <<pc, iflag>> /\ aisr' = {}
         \/ pc' \in {"dead", "lost"} /\ iflag' = FALSE /\ aisr' \subseteq LocalVectors
  BY HandlerReturns DEF Loaded, AtEnd
<1> USE DEF KernelInv, Stops, AtGdt, AtTss, AtApic, AtEnd, Loaded, cpu, segments
<1>2. InvTypes'
  BY <1>1 DEF InvTypes
<1>3. InvTables'
  BY <1>1 DEF InvTables
<1>4. InvControllers'
  BY <1>1 DEF InvControllers
<1> QED
  BY <1>2, <1>3, <1>4

LEMMA InterruptPreserves ==
    ASSUME KernelInv, Interrupt
    PROVE  KernelInv'
<1>1. iflag => pc \in {"msrs", "halt"} /\ aisr = {}
  BY DEF KernelInv, InvTables, InvControllers, Stops
<1>2. CASE PicInterrupt
  <2>1. PICK l \in Lines : irr' = irr \ {l} /\ isr' = isr \cup {l} /\ Handle(Vector(l), aisr)
    BY <1>2 DEF PicInterrupt
  <2>2. iflag /\ airr' = airr
    BY <1>2 DEF PicInterrupt
  <2> QED
    BY <1>1, <2>1, <2>2, HandlerPreserves DEF KernelInv, InvTypes
<1>3. CASE ApicInterrupt
  <2> DEFINE v == Highest(airr)
  <2>1. /\ iflag /\ airr # {} /\ airr' = airr \ {v}
        /\ Handle(v, aisr \cup {v}) /\ UNCHANGED <<irr, isr>>
    BY <1>3 DEF ApicInterrupt
  <2>2. v \in LocalVectors
    BY <2>1, HighestRequested DEF KernelInv, InvControllers
  <2> HIDE DEF v
  <2>3. aisr \cup {v} = {v}
    BY <1>1, <2>1
  <2> QED
    BY <1>1, <2>1, <2>2, <2>3, HandlerPreserves DEF KernelInv, InvTypes
<1>4. CASE Spurious
  <2>1. iflag /\ Handle(IRQ_SPURIOUS, aisr) /\ UNCHANGED <<irr, isr, airr>>
    BY <1>4 DEF Spurious
  <2> QED
    BY <1>1, <2>1, HandlerPreserves DEF KernelInv, InvTypes
<1> QED
  BY <1>2, <1>3, <1>4 DEF Interrupt

(* The devices and the timer only request.                                 *)
LEMMA DevicePreserves ==
    ASSUME KernelInv, Device
    PROVE  KernelInv'
<1> USE DEF KernelInv, cpu, segments, pic, lapic
<1>1. ASSUME NEW s \in LvtEntries, Request(s)
      PROVE  airr' \subseteq LocalVectors
  <2>1. lvt[s].vector \in {0, 3} \cup LocalVectors
    BY DEF InvControllers, LvtEntry
  <2>2. lvt[s].vector >= 16 => lvt[s].vector \in LocalVectors
    BY <2>1
  <2> QED
    BY <1>1, <2>2 DEF Request, InvControllers
<1>2. ASSUME NEW l \in Lines, Raise(l)
      PROVE  KernelInv'
  BY <1>2 DEF Raise, InvTypes, InvTables, InvControllers
<1>3. CASE Key
  BY <1>3 DEF Key, InvTypes, InvTables, InvControllers
<1>4. CASE Expire
  <2>1. airr' \subseteq LocalVectors
    BY <1>1, <1>4 DEF Expire, LvtEntries
  <2>2. counting' \in BOOLEAN
    BY <1>4 DEF Expire, InvControllers, LvtEntry, LvtEntries
  <2> QED
    BY <1>4, <2>1, <2>2 DEF Expire, InvTypes, InvTables, InvControllers
<1>5. ASSUME NEW s \in machine.sources \ {"spurious"}, Occur(s)
      PROVE  KernelInv'
  <2>1. s \in LvtEntries
    BY MachineAssumption DEF InvTypes, Machine, Sources
  <2>2. airr' \subseteq LocalVectors
    BY <1>1, <1>5, <2>1 DEF Occur
  <2> QED
    BY <1>5, <2>2 DEF Occur, InvTypes, InvTables, InvControllers
<1> QED
  BY <1>2, <1>3, <1>4, <1>5 DEF Device

LEMMA InvStep ==
    ASSUME KernelInv, [Next]_vars
    PROVE  KernelInv'
<1>1. CASE Next
  BY <1>1, InitPreserves, InterruptPreserves, DevicePreserves DEF Next
<1>2. CASE UNCHANGED vars
  BY <1>2 DEF vars, cpu, segments, pic, lapic, KernelInv, InvTypes, InvTables, InvControllers
<1> QED
  BY <1>1, <1>2

-----------------------------------------------------------------------------
(***************************************************************************)
(* What follows from it.                                                   *)
(***************************************************************************)
LEMMA InvImplies ==
    ASSUME KernelInv
    PROVE  TypeOK /\ NoIrqOnExceptionVector /\ NothingLeftInService /\ DescriptorsWork
<1> USE DEF KernelInv
<1>1. LocalVectors \subseteq 32 .. 255
  BY DEF LocalVectors, IRQ_TIMER, IRQ_THERMAL, IRQ_PERFMON, IRQ_LINT0, IRQ_LINT1, IRQ_ERROR
<1>2. TypeOK
  <2>1. /\ machine \in Machines /\ paging \in {"ready", "full", "unset"} /\ iflag \in BOOLEAN
        /\ tick \in 0 .. TICKS - 1 /\ mapped \in BOOLEAN /\ imr \subseteq PicLines
        /\ irr \subseteq Lines /\ isr \subseteq Lines
        /\ kbd_full \in BOOLEAN /\ enabled \in BOOLEAN /\ counting \in BOOLEAN
    BY DEF InvTypes, InvControllers
  <2>2. pc \in {"hhdm", "gdt", "segments", "tss", "ltr", "idt", "features", "controller", "map",
                "divide", "count", "periodic", "lvt", "svr", "sti", "msrs", "halt"} \cup Stops
    BY DEF InvTypes, AtGdt, AtTss, Loaded, AtApic, AtEnd
  <2>3. DOMAIN gdt = 1 .. 5 /\ gdtr \in BOOLEAN /\ cs \in {40, 8} /\ ds \in {48, 16}
    BY TssDescriptors DEF InvTables
  <2>4. tr \in Address
    <3>1. Zero \in Address
      BY DEF Address, Zero, Byte
    <3> QED
      BY <3>1, AddressAssumption DEF InvTables
  <2>5. DOMAIN idt \subseteq 0 .. 255
    <3>1. DOMAIN Gates = DOMAIN Handlers
      BY DEF Gates
    <3>2. DOMAIN Gates \subseteq 0 .. 255
      BY <3>1, HandlersNamed
    <3>3. idt = [v \in {} |-> <<>>] \/ idt = Gates
      BY DEF InvTables
    <3> HIDE DEF Gates
    <3>4. CASE idt = [v \in {} |-> <<>>]
      <4>1. DOMAIN idt = {}
        BY <3>4
      <4> QED
        BY <4>1
    <3> QED
      BY <3>2, <3>3, <3>4
  <2>6. pic_base[0] \in {8, 32} /\ pic_base[1] \in {112, 40}
    BY DEF InvControllers
  <2>7. lvt \in [LvtEntries -> [vector : 0 .. 255, periodic : BOOLEAN, masked : BOOLEAN]]
    <3>1. {0, 3} \cup LocalVectors \subseteq 0 .. 255
      BY <1>1
    <3>2. LvtEntry \subseteq [vector : 0 .. 255, periodic : BOOLEAN, masked : BOOLEAN]
      BY <3>1 DEF LvtEntry
    <3> QED
      BY <3>2 DEF InvControllers
  <2>8. airr \subseteq 0 .. 255 /\ aisr \subseteq 0 .. 255
    BY <1>1 DEF InvTypes, InvControllers
  <2> QED
    BY <2>1, <2>2, <2>3, <2>4, <2>5, <2>6, <2>7, <2>8 DEF TypeOK
<1>3. NoIrqOnExceptionVector
  <2> SUFFICES ASSUME iflag
               PROVE  /\ \A l \in irr : Pending(l) => Vector(l) >= 32
                      /\ \A v \in airr : v >= 32
    BY DEF NoIrqOnExceptionVector
  <2>1. pc \in AtEnd
    BY DEF InvTables, AtEnd
  <2>2. \A l \in irr : l \in PicLines /\ l \in 0 .. 15
    BY DeviceAssumption DEF InvTypes, PicLines
  <2>3. ASSUME machine.apic, NEW l \in irr, Pending(l)
        PROVE  FALSE
    <3>1. imr = PicLines
      BY <2>1, <2>3 DEF InvControllers
    <3> QED
      BY <2>2, <2>3, <3>1 DEF Pending
  <2>4. ASSUME ~machine.apic
        PROVE  \A l \in irr : Vector(l) >= 32
    <3>1. pic_base = [p \in 0 .. 1 |-> 32 + 8 * p]
      BY <2>1, <2>4 DEF InvControllers
    <3>2. \A l \in 0 .. 15 : l \div 8 \in 0 .. 1 /\ l % 8 \in 0 .. 7
      OBVIOUS
    <3>3. \A l \in 0 .. 15 : Vector(l) >= 32
      BY <3>1, <3>2 DEF Vector
    <3> QED
      BY <2>2, <3>3
  <2>5. \A v \in airr : v >= 32
    BY <1>1 DEF InvControllers
  <2> QED
    BY <2>3, <2>4, <2>5
<1>4. NothingLeftInService
  BY DEF NothingLeftInService, InvControllers
<1>5. DescriptorsWork
  <2> SUFFICES ASSUME iflag
               PROVE  /\ cs = KERNEL_CODE /\ ds = KERNEL_DATA /\ tr = AddressOf["tss"]
                      /\ DOMAIN idt = DOMAIN Handlers
                      /\ \A v \in DOMAIN Handlers : Entered(v) = Handlers[v]
    BY DEF DescriptorsWork
  <2>1. pc \in Loaded
    BY DEF InvTables, Loaded, AtEnd
  <2> QED
    BY <2>1, EnteredHandler DEF InvTables
<1> QED
  BY <1>2, <1>3, <1>4, <1>5

(* The invariant holds at every step of cpu_traits<x86_64>::init, and      *)
(* whenever a device or a handler comes in between.                        *)
THEOREM InterruptsInvariant == Spec => []KernelInv
<1>1. Init => KernelInv
  BY InvInit
<1>2. KernelInv /\ [Next]_vars => KernelInv'
  BY InvStep
<1> QED
  BY <1>1, <1>2, PTL DEF Spec
==============================================================================
