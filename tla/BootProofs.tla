----------------------------- MODULE BootProofs -----------------------------
(***************************************************************************)
(* Boot, for any answers of the boot loader and any machine.  The          *)
(* processor's part of the invariant is KernelInv of InterruptsProofs:     *)
(* a step of kernel_main is a step of Interrupts or leaves all of it but   *)
(* the page tables alone.                                                  *)
(***************************************************************************)
EXTENDS Boot, InterruptsProofs

(* Before cpu::init nothing is loaded; what mem::init complained about is  *)
(* on the screen, and so is why the kernel stopped.                        *)
InvStages ==
    /\ loader \in Loaders /\ screen \in BOOLEAN
    /\ stage \in {"revision", "framebuffer", "memory", "welcome", "cpu", "halt", "stopped", "lost"}
    /\ said \subseteq {"no answer", "no page", "ready", "welcome", "fault"}
    /\ stage \in {"revision", "framebuffer"} => ~screen
    /\ stage \notin {"cpu", "halt"} => pc = "hhdm"
    /\ stage \in {"welcome", "cpu", "halt"} /\ screen /\ ~Answered => "no answer" \in said
    /\ stage = "stopped" /\ screen => "no page" \in said
    /\ pc = "dead" /\ screen => "fault" \in said
    /\ pc = "reset" /\ screen => "no answer" \in said

BootInv == KernelInv /\ InvStages

(* The machine stays what it is.  Only a missing HHDM response resets it.  *)
LEMMA InitStepEffects ==
    ASSUME KernelInv, InitStep
    PROVE  /\ machine' = machine /\ pc \notin Stops
           /\ pc' = "reset" => ~machine.hhdm
<1> USE DEF KernelInv, Goto, Stop, Die, Stops, Others, cpu
<1>1. CASE SaveHhdm \/ HhdmFaults \/ LoadGdt \/ DescribeTss \/ LoadIdt \/ EnableFeatures
  BY <1>1 DEF SaveHhdm, HhdmFaults, LoadGdt, DescribeTss, LoadIdt, EnableFeatures
<1>2. CASE LoadSegments
  <2>1. gdt = StaticGdt /\ gdtr
    BY <1>2 DEF LoadSegments, InvTables, AtGdt
  <2> QED
    BY <1>2, <2>1, StaticDescriptors DEF LoadSegments
<1>3. CASE LoadTss
  <2>1. IsFreeTss(At(gdt, TSS_SELECTOR))
    BY <1>3, TssDescriptors DEF LoadTss, InvTables
  <2> QED
    BY <1>3, <2>1 DEF LoadTss
<1>4. CASE XgetbvFaults
  <2>1. pc = "features" /\ aisr = {} /\ Handle(EXCEPTION_UD, {})
    BY <1>4 DEF XgetbvFaults, InvControllers
  <2> QED
    BY <2>1, HandlerReturns DEF Loaded
<1>5. CASE MaskPic \/ MapApic \/ MapFaults \/ ApicFaults \/ WriteDivide \/ StartCount \/ SetPeriodic
  BY <1>5 DEF MaskPic, MapApic, MapFaults, ApicFaults, WriteDivide, StartCount, SetPeriodic
<1>6. CASE ConfigureLvt \/ EnableApic \/ PicInit \/ EnableInterrupt \/ Finish
  BY <1>6 DEF ConfigureLvt, EnableApic, PicInit, EnableInterrupt, Finish
<1> QED
  BY <1>1, <1>2, <1>3, <1>4, <1>5, <1>6 DEF InitStep

LEMMA InterruptEffects ==
    ASSUME KernelInv, Interrupt
    PROVE  /\ machine' = machine /\ pc \in {"msrs", "halt"}
           /\ pc' = pc \/ pc' \in {"dead", "lost"}
<1>1. iflag
  BY DEF Interrupt, PicInterrupt, ApicInterrupt, Spurious
<1>2. pc \in {"msrs", "halt"} /\ aisr = {}
  BY <1>1 DEF KernelInv, InvTables, InvControllers, Stops
<1>3. \E v : \E inService \in SUBSET LocalVectors :
          (inService = {} \/ inService = {v}) /\ Handle(v, inService)
  <2>1. CASE PicInterrupt
    BY <1>2, <2>1 DEF PicInterrupt
  <2>2. CASE ApicInterrupt
    <3> DEFINE v == Highest(airr)
    <3>1. Handle(v, aisr \cup {v}) /\ airr # {}
      BY <2>2 DEF ApicInterrupt
    <3>2. v \in LocalVectors
      BY <3>1, HighestRequested DEF KernelInv, InvControllers
    <3> HIDE DEF v
    <3>3. aisr \cup {v} = {v}
      BY <1>2
    <3> QED
      BY <3>1, <3>2, <3>3
  <2>3. CASE Spurious
    BY <1>2, <2>3 DEF Spurious
  <2> QED
    BY <2>1, <2>2, <2>3 DEF Interrupt
<1> QED
  BY <1>2, <1>3, HandlerReturns DEF Loaded, AtEnd, cpu

LEMMA DeviceEffects ==
    ASSUME Device
    PROVE  machine' = machine /\ pc' = pc
  BY DEF Device, Raise, Key, Expire, Occur, cpu

-----------------------------------------------------------------------------
LEMMA BootInit == KernelInit => BootInv
<1> SUFFICES ASSUME KernelInit PROVE BootInv
  OBVIOUS
<1>1. KernelInv
  BY InvInit DEF KernelInit
<1>2. InvStages
  BY DEF KernelInit, Init, InvStages
<1> QED
  BY <1>1, <1>2 DEF BootInv

(* mem::init changes nothing of the processor.                             *)
LEMMA PagingOnly ==
    ASSUME KernelInv, paging' \in {"ready", "full", "unset"},
           UNCHANGED <<machine, pc, iflag, tick, mapped, segments, idt, pic, lapic>>
    PROVE  KernelInv'
  BY DEF KernelInv, InvTypes, InvTables, InvControllers, segments, pic, lapic

LEMMA BootStep ==
    ASSUME BootInv, [KernelNext]_kvars
    PROVE  BootInv'
<1> USE DEF BootInv
<1>1. UNCHANGED vars => KernelInv' /\ machine' = machine /\ pc' = pc
  BY InvStep DEF vars, cpu
<1>2. CASE CheckRevision
  BY <1>1, <1>2 DEF CheckRevision, InvStages, Answered
<1>3. CASE InitConsole
  BY <1>1, <1>3 DEF InitConsole, InvStages, Answered
<1>4. CASE MemUnanswered
  BY <1>1, <1>4 DEF MemUnanswered, Writes, InvStages, Answered, Say
<1>5. CASE MemNoPage
  BY <1>1, <1>5 DEF MemNoPage, Writes, InvStages, Answered, Say
<1>6. CASE MemReady
  <2>1. KernelInv'
    BY <1>6, PagingOnly DEF MemReady
  <2> QED
    BY <1>6, <2>1 DEF MemReady, Writes, InvStages, Answered, Say
<1>7. CASE MemLost
  BY <1>1, <1>7 DEF MemLost, InvStages, Answered
<1>8. CASE Welcome
  BY <1>1, <1>8 DEF Welcome, InvStages, Answered, Say
<1>9. CASE InitCpu
  <2>1. KernelInv'
    BY <1>9, InvStep DEF InitCpu, Next
  <2>2. machine' = machine /\ pc \notin Stops /\ (pc' = "reset" => ~machine.hhdm)
    BY <1>9, InitStepEffects DEF InitCpu
  <2>3. stage = "cpu" /\ stage' \in {"cpu", "halt"} /\ UNCHANGED <<loader, screen>>
    BY <1>9 DEF InitCpu
  <2>4. /\ said \subseteq said' /\ said' \subseteq said \cup {"fault", "no page"}
        /\ pc' = "dead" /\ screen => "fault" \in said'
    BY <1>9 DEF InitCpu, Report, Say
  <2>5. Answered' <=> Answered
    BY <2>2, <2>3 DEF Answered
  <2>6. pc' = "reset" /\ screen => "no answer" \in said
    BY <2>2, <2>3 DEF InvStages, Answered
  <2> QED
    BY <2>1, <2>3, <2>4, <2>5, <2>6 DEF InvStages
<1>10. CASE TakeInterrupt
  <2>1. KernelInv'
    BY <1>10, InvStep DEF TakeInterrupt, Next
  <2>2. machine' = machine /\ pc \in {"msrs", "halt"} /\ (pc' = pc \/ pc' \in {"dead", "lost"})
    BY <1>10, InterruptEffects DEF TakeInterrupt
  <2>3. UNCHANGED <<loader, stage, screen>>
    BY <1>10 DEF TakeInterrupt
  <2>4. /\ said \subseteq said' /\ said' \subseteq said \cup {"fault", "no page"}
        /\ pc' = "dead" /\ screen => "fault" \in said'
    BY <1>10 DEF TakeInterrupt, Report, Say
  <2>5. Answered' <=> Answered
    BY <2>2, <2>3 DEF Answered
  <2> QED
    BY <2>1, <2>2, <2>3, <2>4, <2>5 DEF InvStages
<1>11. CASE Device /\ UNCHANGED boot
  <2>1. KernelInv'
    BY <1>11, InvStep DEF Next
  <2> QED
    BY <1>11, <2>1, DeviceEffects DEF boot, InvStages, Answered
<1>12. CASE UNCHANGED kvars
  BY <1>1, <1>12 DEF kvars, boot, InvStages, Answered
<1> QED
  BY <1>2, <1>3, <1>4, <1>5, <1>6, <1>7, <1>8, <1>9, <1>10, <1>11, <1>12
     DEF KernelNext, KernelMain

(* The invariant holds from _start on, whatever the boot loader answered   *)
(* and wherever kernel_main stops or is interrupted.                       *)
THEOREM BootInvariant == KernelSpec => []BootInv
<1>1. KernelInit => BootInv
  BY BootInit
<1>2. BootInv /\ [KernelNext]_kvars => BootInv'
  BY BootStep
<1> QED
  BY <1>1, <1>2, PTL DEF KernelSpec

-----------------------------------------------------------------------------
(***************************************************************************)
(* What the runs check.                                                    *)
(***************************************************************************)
(* Types, for whatever boot loader, machine and devices.                   *)
THEOREM BootTypes == KernelSpec => []KernelTypeOK
<1>1. BootInv => KernelTypeOK
  BY InvImplies DEF BootInv, InvStages, KernelTypeOK
<1> QED
  BY <1>1, BootInvariant, PTL

(* No device ever interrupts on a vector of an exception (PIC and local    *)
(* APIC setup in cpu_traits<x86_64>::init).                                *)
THEOREM VectorsApart == KernelSpec => []NoIrqOnExceptionVector
<1>1. BootInv => NoIrqOnExceptionVector
  BY InvImplies DEF BootInv
<1> QED
  BY <1>1, BootInvariant, PTL

(* Every interrupt of the local APIC is acknowledged, or the kernel has    *)
(* stopped (timer_handler).                                                *)
THEOREM AllAcknowledged == KernelSpec => []NothingLeftInService
<1>1. BootInv => NothingLeftInService
  BY InvImplies DEF BootInv
<1> QED
  BY <1>1, BootInvariant, PTL

(* Wherever the handlers and the TSS lie in memory, the descriptors and    *)
(* gates lead to them (set_gate, the TSS descriptor).                      *)
THEOREM DescriptorsRead == KernelSpec => []DescriptorsWork
<1>1. BootInv => DescriptorsWork
  BY InvImplies DEF BootInv
<1> QED
  BY <1>1, BootInvariant, PTL

(* A kernel with a screen says why it stopped (mem::init, the handlers of  *)
(* faults).                                                                *)
THEOREM StopsAreExplained == KernelSpec => []StopsExplained
<1>1. BootInv => StopsExplained
  BY DEF BootInv, InvStages, StopsExplained
<1> QED
  BY <1>1, BootInvariant, PTL
==============================================================================
