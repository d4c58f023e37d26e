-------------------------------- MODULE Boot --------------------------------
(***************************************************************************)
(* kernel_main (kernel/main.cpp): what the boot loader answered is looked  *)
(* at, the console, the memory and the processor are initialised in this   *)
(* order, and the kernel halts to wait for interrupts.  Interrupts is the  *)
(* last of these; devices are at work from the start.                      *)
(***************************************************************************)
EXTENDS Interrupts

CONSTANT Loaders        \* what the boot loader may have answered

(* revision: it knows base revision 3; framebuffer: there is none, one     *)
(* without an address, or one; memmap: it answered the memory map request; *)
(* usable: the map has a whole usable page; pages: how many single pages   *)
(* the table then has room for handing out; tables: how many page tables   *)
(* the page of the local APIC needs; readable: what follows the font table *)
(* in memory is mapped as far as _putchar reads.                           *)
Loader == [revision : BOOLEAN, framebuffer : {"none", "null", "there"}, memmap : BOOLEAN,
           usable : BOOLEAN, pages : Nat, tables : 0 .. 3, readable : BOOLEAN]

ASSUME LoaderAssumption == Loaders \subseteq Loader

VARIABLES
    loader,
    stage,      \* where kernel_main stands; "stopped", "lost": it went no further
    screen,     \* does the console have a framebuffer?
    said        \* what can be read on it

boot  == <<loader, stage, screen, said>>
kvars == <<vars, boot>>

KernelInit ==
    /\ Init /\ paging = "unset"
    /\ loader \in Loaders /\ stage = "revision" /\ screen = FALSE /\ said = {}

Say(message) == said' = IF screen THEN said \cup {message} ELSE said

CheckRevision ==
    /\ stage = "revision" /\ stage' = IF loader.revision THEN "framebuffer" ELSE "stopped"
    /\ UNCHANGED <<vars, loader, screen, said>>

(* onx::init, which does nothing when the framebuffer has no address:      *)
(* a console of no size then takes all that is written and draws nothing.  *)
InitConsole ==
    /\ stage = "framebuffer"
    /\ stage' = IF loader.framebuffer = "none" THEN "stopped" ELSE "memory"
    /\ screen' = (loader.framebuffer = "there")
    /\ UNCHANGED <<vars, loader, said>>

(* mem::init, which is the first to write.  It gives up but returns ...    *)
Answered == machine.hhdm /\ loader.memmap
Writes   == stage = "memory" /\ (screen => loader.readable)
(* A mutant: it does so without a word.                                    *)
MemUnansweredSilent ==
    /\ Writes /\ ~Answered
    /\ stage' = "welcome" /\ UNCHANGED <<vars, loader, screen, said>>
MemUnanswered ==
    /\ Writes /\ ~Answered
    /\ stage' = "welcome" /\ Say("no answer")
    /\ UNCHANGED <<vars, loader, screen>>

(* ... or halts ...                                                        *)
MemNoPage ==
    /\ Writes /\ Answered /\ loader.usable /\ loader.pages = 0
    /\ stage' = "stopped" /\ Say("no page")
    /\ UNCHANGED <<vars, loader, screen>>

(* ... or takes a page, and leaves the rest to map_page.                   *)
MemReady ==
    /\ Writes /\ Answered /\ loader.usable /\ loader.pages > 0
    /\ paging' = IF loader.pages > loader.tables THEN "ready" ELSE "full"
    /\ stage' = "welcome" /\ Say("ready")
    /\ UNCHANGED <<machine, pc, iflag, tick, mapped, segments, idt, pic, lapic, loader, screen>>

(* PMM::init sorts a table without regions, or the first character drawn   *)
(* is not in mapped memory.                                                *)
MemLost ==
    /\ stage = "memory" /\ ((Answered /\ ~loader.usable) \/ (screen /\ ~loader.readable))
    /\ stage' = "lost"
    /\ UNCHANGED <<vars, loader, screen, said>>

Welcome ==
    /\ stage = "welcome" /\ stage' = "cpu" /\ Say("welcome")
    /\ UNCHANGED <<vars, loader, screen>>

(* What the handlers of faults print, and alloc_page when it fails.        *)
Report == IF pc' = "dead" THEN Say("fault")
          ELSE IF pc = "map" /\ pc' # "map" /\ paging = "full" THEN Say("no page")
          ELSE UNCHANGED said

(* cpu::init, and the last halt.                                           *)
InitCpu ==
    /\ stage = "cpu" /\ InitStep /\ Report
    /\ stage' = IF pc' = "halt" THEN "halt" ELSE "cpu"
    /\ UNCHANGED <<loader, screen>>

KernelMain == \/ CheckRevision \/ InitConsole
              \/ MemUnanswered \/ MemNoPage \/ MemReady \/ MemLost
              \/ Welcome \/ InitCpu

TakeInterrupt == Interrupt /\ Report /\ UNCHANGED <<loader, stage, screen>>

KernelNext == KernelMain \/ TakeInterrupt \/ (Device /\ UNCHANGED boot)

KernelSpec ==
    /\ KernelInit /\ [][KernelNext]_kvars
    /\ WF_kvars(KernelMain) /\ WF_kvars(TakeInterrupt) /\ WF_kvars(Expire /\ UNCHANGED boot)
    /\ (0 \in Lines => WF_kvars(Raise(0) /\ UNCHANGED boot))

-----------------------------------------------------------------------------
(***************************************************************************)
(* Properties                                                              *)
(***************************************************************************)
KernelTypeOK ==
    /\ TypeOK
    /\ loader \in Loaders /\ screen \in BOOLEAN
    /\ stage \in {"revision", "framebuffer", "memory", "welcome", "cpu", "halt", "stopped", "lost"}
    /\ said \subseteq {"no answer", "no page", "ready", "welcome", "fault"}

(* A kernel that stops where its code gives up has said why, when there is *)
(* a screen: it halted itself, a fault handler did, or the machine was     *)
(* reset for want of what mem::init complained about.                      *)
StopsExplained ==
    screen /\ (stage = "stopped" \/ pc \in {"dead", "reset"}) =>
        said \cap {"no answer", "no page", "fault"} # {}

(* A boot loader that answers everything, enough memory and a machine that *)
(* init copes with; the framebuffer may lack an address.                   *)
Sound == /\ loader.revision /\ loader.framebuffer # "none"
         /\ loader.framebuffer = "there" => loader.readable
         /\ loader.memmap /\ loader.usable /\ loader.pages > loader.tables
         /\ Healthy

(* kernel_main comes to its end.                                           *)
BootCompletes == Sound ~> stage = "halt"

(* The timer interrupts at least once; in x2APIC mode it goes on.          *)
FirstTick == Sound /\ machine.enabled ~> tick # 0
X2apicKeepsTicking ==
    \A n \in 0 .. TICKS - 1 :
        Sound /\ machine.enabled /\ machine.x2apic /\ tick = n ~> tick # n
==============================================================================
