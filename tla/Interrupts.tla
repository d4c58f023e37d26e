----------------------------- MODULE Interrupts -----------------------------
(***************************************************************************)
(* Bringing up interrupts, cpu_traits<x86_64>::init, and taking them       *)
(* (arch/x86_64/src/cpu_impl.cpp), next to the interrupt controllers it    *)
(* programs: the two 8259 PICs, and the local APIC with its timer.         *)
(*                                                                         *)
(* Every gate is an interrupt gate, so a handler runs with interrupts off  *)
(* from its first instruction to its last: taking an interrupt and running *)
(* its handler is one step.  The steps of init are the writes that change  *)
(* what the processor and the controllers do next.                         *)
(***************************************************************************)
EXTENDS Integers, FiniteSets, Descriptors

CONSTANTS
    Machines,   \* what the kernel may find itself booted on
    AddressOf,  \* where the build put the handlers and the TSS
    Lines,      \* PIC lines with a device: 0 the PIT, 1 the keyboard, ...
    StackWords, \* what may lie where int_no_error looks for its number
    TICKS       \* tick counts modulo this (2^64)

LvtEntries == {"timer", "thermal", "perfmon", "lint0", "lint1", "error"}

(* hhdm: the boot loader answered the HHDM request; apic, x2apic, avx: as  *)
(* CPUID and the boot loader report them; osxsave: CR4.OSXSAVE is set;     *)
(* enabled: the local APIC is software-enabled; sources: local APIC        *)
(* interrupts that may occur, besides the timer's.                         *)
Sources == (LvtEntries \ {"timer"}) \cup {"spurious"}
Machine == [hhdm : BOOLEAN, apic : BOOLEAN, x2apic : BOOLEAN, avx : BOOLEAN,
            osxsave : BOOLEAN, enabled : BOOLEAN, sources : SUBSET Sources]

HandlerNames == {"timer_handler", "keyboard_handler", "int_no_error", "int_with_error",
                 "double_fault_handler", "gpf_handler", "page_fault_handler"}
CASCADE  == 2       \* the line of the first PIC that the second is wired to
PicLines == Lines \cup {CASCADE}

ASSUME MachineAssumption == \A m \in Machines : m \in Machine /\ (m.x2apic => m.apic)
ASSUME AddressAssumption ==
    /\ AddressOf \in [HandlerNames \cup {"tss"} -> Address]
    /\ \A g, h \in HandlerNames : AddressOf[g] = AddressOf[h] => g = h
ASSUME DeviceAssumption  == /\ Lines \subseteq (0 .. 15) \ {CASCADE}
                            /\ StackWords \subseteq Nat /\ TICKS \in Nat \ {0}

IRQ_TIMER    == 32
IRQ_KEYBOARD == 33
IRQ_THERMAL  == 128
IRQ_PERFMON  == 129
IRQ_LINT0    == 130
IRQ_LINT1    == 131
IRQ_ERROR    == 132
IRQ_SPURIOUS == 255
EXCEPTION_UD == 6
KERNEL_CODE  == 8
KERNEL_DATA  == 16
TSS_SELECTOR == 24

VARIABLES
    machine,
    paging,         \* what mem::init left: map_page finds pages, finds none, is not set up
    pc,             \* where cpu::init stands, see Stops for where it ends
    iflag,          \* may the processor be interrupted?
    gdt, gdtr, cs, ds, tr,  \* the descriptors, are they in use, segments, where the TSS is
    idt,            \* the gates; handlers[] has an entry for the same vectors
    tick,
    mapped,         \* are the local APIC's registers mapped?
    \* the two PICs: first vector of each, lines masked, requested, in service
    pic_base, imr, irr, isr,
    kbd_full,       \* a byte waits in port 0x60
    \* the local APIC
    enabled,        \* software-enabled, bit 8 of the spurious vector register
    lvt,            \* [vector, periodic, masked] of every entry
    counting,       \* is the timer counting down?
    airr, aisr      \* vectors requested and in service

segments == <<gdt, gdtr, cs, ds, tr>>
cpu   == <<machine, paging, segments, idt>>
pic   == <<pic_base, imr, irr, isr, kbd_full>>
lapic == <<enabled, lvt, counting, airr, aisr>>
vars  == <<pc, iflag, tick, mapped, cpu, pic, lapic>>

-----------------------------------------------------------------------------
(***************************************************************************)
(* setup_exc and setup_irqs: the vectors with a gate.                      *)
(***************************************************************************)
NoErrorExceptions == (0 .. 7) \cup {9, 16, 18, 19, 20}
ErrorExceptions   == {10, 11, 12, 17}
Handlers ==
    [v \in NoErrorExceptions \cup ErrorExceptions \cup {8, 13, 14} \cup 32 .. 47 |->
        CASE v = IRQ_TIMER -> "timer_handler"
          [] v = IRQ_KEYBOARD -> "keyboard_handler"
          [] v = 8 -> "double_fault_handler"
          [] v = 13 -> "gpf_handler"
          [] v = 14 -> "page_fault_handler"
          [] v \in ErrorExceptions -> "int_with_error"
          [] OTHER -> "int_no_error"]

(* The segments are the boot loader's, and its IDT is empty.  The kernel   *)
(* does not know whether the boot loader masked the PICs.                  *)
Init ==
    /\ machine \in Machines /\ paging \in {"ready", "full", "unset"}
    /\ pc = "hhdm" /\ iflag = FALSE /\ tick = 0 /\ mapped = FALSE
    /\ gdt = StaticGdt /\ gdtr = FALSE /\ cs = 40 /\ ds = 48 /\ tr = Zero
    /\ idt = [v \in {} |-> <<>>]
    /\ pic_base = [p \in 0 .. 1 |-> 8 + 104 * p] /\ imr \in {PicLines, {}}
    /\ irr = {} /\ isr = {} /\ kbd_full = FALSE
    /\ enabled = machine.enabled /\ counting = FALSE /\ airr = {} /\ aisr = {}
    /\ lvt = [s \in LvtEntries |-> [vector |-> 0, periodic |-> FALSE, masked |-> TRUE]]

-----------------------------------------------------------------------------
(***************************************************************************)
(* Handlers.                                                               *)
(***************************************************************************)
Highest(S) == CHOOSE v \in S : \A w \in S : w <= v

(* Where the processor stops, with interrupts off: a fault handler printed *)
(* what it can and halted; a fault before the IDT is loaded, which resets  *)
(* the machine; a jump to nobody knows where.                              *)
Stops == {"dead", "reset", "lost"}
Stop(how) == pc' = how /\ iflag' = FALSE
Die == Stop("dead")

(* End of interrupt, to the local APIC: the highest vector in service. *)
Eoi(inService) == inService \ {Highest(inService)}

(* timer_handler: tick++, then the end of interrupt; its register faults   *)
(* when it is not mapped.  A mutant: without the end of interrupt.         *)
TimerForgets(inService) ==
    /\ tick' = (tick + 1) % TICKS
    /\ aisr' = inService /\ UNCHANGED <<pc, iflag>>
Timer(inService) ==
    /\ tick' = (tick + 1) % TICKS
    /\ IF machine.x2apic \/ mapped
       THEN /\ aisr' = IF inService = {} THEN {} ELSE Eoi(inService)
            /\ UNCHANGED <<pc, iflag>>
       ELSE aisr' = inService /\ Die

(* int_no_error and int_with_error take a word above where rbp points for  *)
(* their number.  A null entry of handlers[] is a return; any other is     *)
(* called, and what it returns with does not fit a call: the kernel dies   *)
(* one way or another.  Beyond handlers[] anything may be found.           *)
Dispatch ==
    \E n \in StackWords :
        \/ (n \in DOMAIN idt \/ n > 255) /\ Stop("lost")
        \/ n \notin DOMAIN idt /\ UNCHANGED <<pc, iflag>>

(* The handler the processor finds: at the address in the vector's gate.   *)
(* Without a proper gate there is a general protection fault.              *)
Entered(vector) ==
    IF vector \in DOMAIN idt /\ GateWorks(idt[vector], gdt)
    THEN CHOOSE h \in HandlerNames : AddressOf[h] = GateTarget(idt[vector])
    ELSE "gpf_handler"

(* The handler of a vector runs; inService is what the local APIC has in   *)
(* service.                                                                *)
Handle(vector, inService) ==
    LET handler == Entered(vector)
    IN  /\ UNCHANGED <<cpu, mapped, enabled, lvt, counting, pic_base, imr>>
        /\ kbd_full' = (kbd_full /\ handler # "keyboard_handler")
        /\ IF handler = "timer_handler" THEN Timer(inService)
           ELSE /\ aisr' = inService /\ UNCHANGED tick
                /\ CASE handler = "keyboard_handler" -> UNCHANGED <<pc, iflag>>
                     [] handler \in {"int_no_error", "int_with_error"} -> Dispatch
                     [] OTHER -> Die

-----------------------------------------------------------------------------
(***************************************************************************)
(* cpu_traits<x86_64>::init                                                *)
(***************************************************************************)
Goto(from, to) == pc = from /\ pc' = to

Others == <<tick, mapped, pic, lapic>>

(* hhdm_offset is saved; a missing answer is a null pointer, whose page is *)
(* not mapped.                                                             *)
SaveHhdm ==
    /\ Goto("hhdm", "gdt") /\ machine.hhdm
    /\ UNCHANGED <<iflag, cpu, Others>>
HhdmFaults ==
    /\ pc = "hhdm" /\ ~machine.hhdm /\ Stop("reset")
    /\ UNCHANGED <<cpu, Others>>

LoadGdt ==
    /\ Goto("gdt", "segments") /\ gdtr' = TRUE
    /\ UNCHANGED <<iflag, machine, paging, gdt, cs, ds, tr, idt, Others>>

(* lretq and the moves to ds, es, fs, gs and ss: the processor looks the   *)
(* selectors up.                                                           *)
LoadSegments ==
    /\ pc = "segments"
    /\ IF gdtr /\ IsCode64(At(gdt, KERNEL_CODE)) /\ IsData(At(gdt, KERNEL_DATA))
       THEN pc' = "tss" /\ cs' = KERNEL_CODE /\ ds' = KERNEL_DATA /\ UNCHANGED iflag
       ELSE Stop("reset") /\ UNCHANGED <<cs, ds>>
    /\ UNCHANGED <<machine, paging, gdt, gdtr, tr, idt, Others>>

DescribeTss ==
    /\ Goto("tss", "ltr")
    /\ LET entries == TssEntries(AddressOf["tss"])
       IN  gdt' = [gdt EXCEPT ![4] = entries[1], ![5] = entries[2]]
    /\ UNCHANGED <<iflag, machine, paging, gdtr, cs, ds, tr, idt, Others>>

(* ltr caches the base and marks the TSS busy.                             *)
LoadTss ==
    /\ pc = "ltr"
    /\ LET low == At(gdt, TSS_SELECTOR)
       IN  IF IsFreeTss(low)
           THEN /\ tr' = SystemBase(low, At(gdt, TSS_SELECTOR + 8))
                /\ gdt' = [gdt EXCEPT ![1 + TSS_SELECTOR \div 8] = Busy(low)]
                /\ pc' = "idt" /\ UNCHANGED iflag
           ELSE Stop("reset") /\ UNCHANGED <<tr, gdt>>
    /\ UNCHANGED <<machine, paging, gdtr, cs, ds, idt, Others>>

LoadIdt ==
    /\ Goto("idt", "features")
    /\ idt' = [v \in DOMAIN Handlers |-> Gate(AddressOf[Handlers[v]], 0, 0)]
    /\ UNCHANGED <<iflag, machine, paging, segments, Others>>

(* SSE and AVX.  xgetbv faults unless CR4.OSXSAVE is set, which init does  *)
(* not do.                                                                 *)
EnableFeatures ==
    /\ Goto("features", "controller") /\ (machine.avx => machine.osxsave)
    /\ UNCHANGED <<iflag, tick, mapped, cpu, pic, lapic>>
XgetbvFaults ==
    /\ pc = "features" /\ machine.avx /\ ~machine.osxsave
    /\ Handle(EXCEPTION_UD, aisr)
    /\ UNCHANGED <<irr, isr, airr>>

(* A mutant of MaskPic: the PIC is left as it is.                          *)
MaskNothing ==
    /\ Goto("controller", "map") /\ machine.apic
    /\ UNCHANGED <<iflag, tick, mapped, cpu, pic, lapic>>

(* With a local APIC: the PICs are masked, all of them.                    *)
MaskPic ==
    /\ Goto("controller", "map") /\ machine.apic
    /\ imr' = PicLines
    /\ UNCHANGED <<iflag, tick, mapped, cpu, pic_base, irr, isr, kbd_full, lapic>>

(* A mutant of MapApic: the registers are not mapped.                      *)
MapNothing ==
    /\ Goto("map", IF machine.x2apic THEN "divide" ELSE "count")
    /\ UNCHANGED <<iflag, tick, mapped, cpu, pic, lapic>>

(* map_page, which says nothing when it fails.  When mem::init gave up it  *)
(* takes physical addresses for virtual ones and faults.                   *)
MapApic ==
    /\ Goto("map", IF machine.x2apic THEN "divide" ELSE "count")
    /\ paging # "unset" /\ mapped' = (paging = "ready")
    /\ UNCHANGED <<iflag, tick, cpu, pic, lapic>>
MapFaults ==
    /\ pc = "map" /\ paging = "unset" /\ Die
    /\ UNCHANGED <<cpu, Others>>

(* A write to an entry of the LVT: while the local APIC is disabled its    *)
(* mask bit stays set.                                                     *)
Lvt(vector, periodic) == [vector |-> vector, periodic |-> periodic, masked |-> ~enabled]

(* The registers of the local APIC are used, which faults when they are    *)
(* memory that is not mapped.                                              *)
Accessible == machine.x2apic \/ mapped
ApicFaults ==
    /\ pc = "count" /\ ~Accessible /\ Die
    /\ UNCHANGED <<tick, mapped, cpu, pic, lapic>>

(* In x2APIC mode, what is meant for the divide register goes to the timer *)
(* entry.                                                                  *)
WriteDivide ==
    /\ Goto("divide", "count")
    /\ lvt' = [lvt EXCEPT !["timer"] = Lvt(3, FALSE)]
    /\ UNCHANGED <<iflag, tick, mapped, cpu, pic, enabled, counting, airr, aisr>>

(* A mutant of StartCount: the initial count is left at 0.                 *)
StartNothing ==
    /\ Goto("count", "periodic") /\ Accessible
    /\ UNCHANGED <<iflag, tick, mapped, cpu, pic, lapic>>

(* The initial count: the timer starts.                                    *)
StartCount ==
    /\ Goto("count", "periodic") /\ Accessible
    /\ counting' = TRUE
    /\ UNCHANGED <<iflag, tick, mapped, cpu, pic, enabled, lvt, airr, aisr>>

SetPeriodic ==
    /\ Goto("periodic", "lvt")
    /\ lvt' = [lvt EXCEPT !["timer"] = Lvt(IRQ_TIMER, TRUE)]
    /\ UNCHANGED <<iflag, tick, mapped, cpu, pic, enabled, counting, airr, aisr>>

(* configure LVT entries.  In x2APIC mode every register is one too high:  *)
(* the first is thermal's, the sixth write repeats perfmon's.              *)
ConfigureLvt ==
    /\ Goto("lvt", "svr")
    /\ lvt' = IF machine.x2apic
              THEN [lvt EXCEPT !["thermal"] = Lvt(IRQ_TIMER, FALSE),
                               !["perfmon"] = Lvt(IRQ_ERROR, FALSE),
                               !["lint0"]   = Lvt(IRQ_PERFMON, FALSE),
                               !["lint1"]   = Lvt(IRQ_LINT0, FALSE),
                               !["error"]   = Lvt(IRQ_LINT1, FALSE)]
              ELSE [s \in LvtEntries |-> Lvt(CASE s = "timer" -> IRQ_TIMER
                                               [] s = "thermal" -> IRQ_THERMAL
                                               [] s = "perfmon" -> IRQ_PERFMON
                                               [] s = "lint0" -> IRQ_LINT0
                                               [] s = "lint1" -> IRQ_LINT1
                                               [] s = "error" -> IRQ_ERROR, FALSE)]
    /\ UNCHANGED <<iflag, tick, mapped, cpu, pic, enabled, counting, airr, aisr>>

(* The local APIC is enabled, last.                                        *)
EnableApic ==
    /\ Goto("svr", "sti") /\ enabled' = TRUE
    /\ UNCHANGED <<iflag, tick, mapped, cpu, pic, lvt, counting, airr, aisr>>

(* A mutant of PicInit: the two PICs' vectors are swapped.                 *)
PicInitSwapped ==
    /\ Goto("controller", "sti") /\ ~machine.apic
    /\ pic_base' = [p \in 0 .. 1 |-> 40 - 8 * p] /\ imr' = {} /\ irr' = {} /\ isr' = {}
    /\ UNCHANGED <<iflag, tick, mapped, cpu, kbd_full, lapic>>

(* Without one: the PICs are initialised, which unmasks them.              *)
PicInit ==
    /\ Goto("controller", "sti") /\ ~machine.apic
    /\ pic_base' = [p \in 0 .. 1 |-> 32 + 8 * p] /\ imr' = {} /\ irr' = {} /\ isr' = {}
    /\ UNCHANGED <<iflag, tick, mapped, cpu, kbd_full, lapic>>

EnableInterrupt ==
    /\ Goto("sti", "msrs") /\ iflag' = TRUE
    /\ UNCHANGED <<tick, mapped, cpu, pic, lapic>>

(* The rest of init; main halts, to wait for interrupts.                   *)
Finish ==
    /\ Goto("msrs", "halt")
    /\ UNCHANGED <<iflag, tick, mapped, cpu, pic, lapic>>

InitStep == \/ SaveHhdm \/ HhdmFaults \/ LoadGdt \/ LoadSegments \/ DescribeTss \/ LoadTss
            \/ LoadIdt \/ EnableFeatures \/ XgetbvFaults
            \/ MaskPic \/ MapApic \/ MapFaults \/ ApicFaults \/ WriteDivide \/ StartCount \/ SetPeriodic
            \/ ConfigureLvt \/ EnableApic
            \/ PicInit
            \/ EnableInterrupt \/ Finish

-----------------------------------------------------------------------------
(***************************************************************************)
(* The devices and the controllers.                                        *)
(***************************************************************************)
(* The PIT, or another device, pulls its line up.                          *)
Raise(l) ==
    /\ l # 1 /\ l \notin irr /\ irr' = irr \cup {l}
    /\ UNCHANGED <<pc, iflag, tick, mapped, cpu, pic_base, imr, isr, kbd_full, lapic>>

(* The keyboard has a byte, and no more until it is read.                  *)
Key ==
    /\ 1 \in Lines /\ ~kbd_full /\ kbd_full' = TRUE
    /\ irr' = irr \cup {1}
    /\ UNCHANGED <<pc, iflag, tick, mapped, cpu, pic_base, imr, isr, lapic>>

(* The local APIC requests an interrupt for an entry; vectors below 16 are *)
(* illegal.                                                                *)
Request(s) == airr' = IF ~lvt[s].masked /\ lvt[s].vector >= 16
                      THEN airr \cup {lvt[s].vector} ELSE airr

(* The timer counted down to 0: it starts over or stops.  It takes longer  *)
(* than from the write of the count to the next one.                       *)
Expire ==
    /\ counting /\ pc # "periodic" /\ Request("timer")
    /\ counting' = lvt["timer"].periodic
    /\ UNCHANGED <<pc, iflag, tick, mapped, cpu, pic, enabled, lvt, aisr>>

Occur(s) ==
    /\ Request(s)
    /\ UNCHANGED <<pc, iflag, tick, mapped, cpu, pic, enabled, lvt, counting, aisr>>

(* The PICs interrupt: the first line pending that nothing in service      *)
(* holds up.  To the first PIC the lines of the second are its line 2.     *)
Level(l)   == IF l < 8 THEN l ELSE CASCADE
Pending(l) == l \in irr \ imr /\ (l >= 8 => CASCADE \notin imr)
Before(l, m) == Level(l) < Level(m) \/ (Level(l) = Level(m) /\ l <= m)
Vector(l)  == pic_base[l \div 8] + (l % 8)
PicInterrupt ==
    /\ iflag
    /\ \E l \in Lines :
         /\ Pending(l) /\ \A m \in Lines : Pending(m) => Before(l, m)
         /\ \A m \in isr : Level(l) < Level(m)
         /\ irr' = irr \ {l} /\ isr' = isr \cup {l}
         /\ Handle(Vector(l), aisr)
    /\ UNCHANGED airr

(* The local APIC interrupts: the highest vector requested, when its class *)
(* is above the one in service.                                            *)
ApicInterrupt ==
    /\ iflag /\ airr # {}
    /\ LET v == Highest(airr)
       IN  /\ \A w \in aisr : w \div 16 < v \div 16
           /\ airr' = airr \ {v} /\ Handle(v, aisr \cup {v})
    /\ UNCHANGED <<irr, isr>>

(* A request that is gone when the processor asks for it.                  *)
Spurious ==
    /\ iflag /\ enabled /\ "spurious" \in machine.sources
    /\ Handle(IRQ_SPURIOUS, aisr)
    /\ UNCHANGED <<irr, isr, airr>>

Interrupt == PicInterrupt \/ ApicInterrupt \/ Spurious

Device == \/ \E l \in Lines : Raise(l)
          \/ Key \/ Expire \/ \E s \in machine.sources \ {"spurious"} : Occur(s)

Next == InitStep \/ Interrupt \/ Device

(* The processor runs and takes the interrupts it is offered; the timers,  *)
(* the PIT's and the local APIC's, count.                                  *)
Spec == /\ Init /\ [][Next]_vars
        /\ WF_vars(InitStep) /\ WF_vars(Interrupt) /\ WF_vars(Expire)
        /\ (0 \in Lines => WF_vars(Raise(0)))

-----------------------------------------------------------------------------
(***************************************************************************)
(* Properties                                                              *)
(***************************************************************************)
TypeOK ==
    /\ machine \in Machines /\ paging \in {"ready", "full", "unset"} /\ iflag \in BOOLEAN /\ tick \in 0 .. TICKS - 1
    /\ pc \in {"hhdm", "gdt", "segments", "tss", "ltr", "idt", "features", "controller", "map",
               "divide", "count", "periodic", "lvt", "svr", "sti", "msrs", "halt"} \cup Stops
    /\ DOMAIN gdt = 1 .. 5 /\ gdtr \in BOOLEAN /\ cs \in {40, 8} /\ ds \in {48, 16} /\ tr \in Address
    /\ DOMAIN idt \subseteq 0 .. 255 /\ mapped \in BOOLEAN
    /\ pic_base[0] \in {8, 32} /\ pic_base[1] \in {112, 40} /\ imr \subseteq PicLines /\ irr \subseteq Lines /\ isr \subseteq Lines
    /\ kbd_full \in BOOLEAN /\ enabled \in BOOLEAN /\ counting \in BOOLEAN
    /\ lvt \in [LvtEntries -> [vector : 0 .. 255, periodic : BOOLEAN, masked : BOOLEAN]]
    /\ airr \subseteq 0 .. 255 /\ aisr \subseteq 0 .. 255

(* Once interrupts are on, no device can interrupt on a vector that is an  *)
(* exception's.                                                            *)
NoIrqOnExceptionVector ==
    iflag => /\ \A l \in irr : Pending(l) => Vector(l) >= 32
             /\ \A v \in airr : v >= 32

(* As long as the kernel lives no interrupt of the local APIC is left in   *)
(* service, which would hold up all those of its class and below.          *)
NothingLeftInService == pc \notin Stops => aisr = {}

(* Whatever the addresses, what the processor reads in the descriptors and *)
(* gates is what init meant: before interrupts are on it has the kernel's  *)
(* segments and TSS, and every vector leads to the handler set for it.     *)
DescriptorsWork ==
    iflag => /\ cs = KERNEL_CODE /\ ds = KERNEL_DATA /\ tr = AddressOf["tss"]
             /\ DOMAIN idt = DOMAIN Handlers
             /\ \A v \in DOMAIN Handlers : Entered(v) = Handlers[v]

(* A machine that init copes with, and where no interrupt occurs that the  *)
(* kernel has no handler for.                                              *)
Healthy == /\ machine.hhdm /\ machine.apic /\ (machine.avx => machine.osxsave)
           /\ machine.sources = {}

(* The timer goes on interrupting.                                         *)
TimerKeepsTicking ==
    \A n \in 0 .. TICKS - 1 : Healthy /\ paging = "ready" /\ machine.enabled /\ tick = n ~> tick # n

(* Every entry of the LVT has the vector that was chosen for it.           *)
LvtAsDocumented ==
    pc \in {"svr", "sti", "msrs", "halt"} /\ machine.apic =>
        /\ lvt["timer"].vector = IRQ_TIMER     /\ lvt["thermal"].vector = IRQ_THERMAL
        /\ lvt["perfmon"].vector = IRQ_PERFMON /\ lvt["lint0"].vector = IRQ_LINT0
        /\ lvt["lint1"].vector = IRQ_LINT1     /\ lvt["error"].vector = IRQ_ERROR
==============================================================================
