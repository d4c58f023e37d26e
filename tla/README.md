# A verification project for oronyx

oronyx is a small x86_64 kernel booted by Limine: it draws text on a
framebuffer, manages physical and virtual memory, programs the interrupt
controllers and reads a PS/2 keyboard. This directory holds TLA+ models of
those parts, the configurations that TLC checks, and proofs that TLAPS checks.
Every definition is translated from the source; `PROJECT.json` ("map") names the
lines each one stands for.

## 1. The system

The whole kernel runs on one processor. The only concurrency is between the
main flow (`kernel_main`, which ends in `hlt`) and the interrupt handlers, which
run with interrupts off, and between the kernel and the hardware next to it:
the page walk and TLB, the interrupt controllers, the keyboard.

| component | state | operations | talks to |
|---|---|---|---|
| physical memory manager, `mm/pmm.cpp` | `regions[]`, `region_count`, `hhdm_offset` | `init`, `alloc_pages`, `free_pages`, `get_free_memory` | reads the memory map of the boot loader; prints; called by paging |
| paging, `arch/x86_64/src/mem_impl.cpp` | the page tables under CR3 | `init`, `map_page`, `alloc_page`, `flush_tlb` | allocates from the memory manager; called by cpu init; read by the processor's page walk at any time |
| keyboard driver, `drivers/keyboard.cpp` | `keyboard_state`: pressed keys, modifiers, circular buffer | `keyboard_handler`, `process_keyboard_input`, `is_pressed`, `get_last_key` | bytes of port 0x60; `putchar` of the console, from the handler too |
| text console, `drivers/graphics.cpp` | the framebuffer, `x_pos`, `y_pos`, colors | `init`, `clear`, `write`, `write_line`, `putchar`, `setcursor`, `setcolor` | called by everything, and from handlers |
| cpu and interrupts, `arch/x86_64/src/cpu_impl.cpp` | GDT, TSS, IDT, `handlers[]`, `tick`, `cpu_features` | `cpu::init`, the handlers, `halt`, `get_tick` | two PICs, local APIC and its timer; `map_page`; the console |
| boot, `kernel/main.cpp` | Limine requests and their responses | `kernel_main` | calls console, memory and cpu init in this order, then halts for interrupts |
| libk, `libk/src` | none | `print_int`, `print_uint`, `print_hex`, `print_ptr`, the character classes; headers `atomic`, `type_traits` that nothing uses | prints through the console, for the memory manager and the fault handlers |
| the rest | | | aarch64 stubs, empty display/fs/mouse/syscall files, port i/o, fonts (data), `limine.h` (vendored) |

What is hard here:

* the memory manager's table is shifted, split and merged in place by index
  loops over unsigned counters, and its invariants hold over long call sequences;
* `keyboard_handler` may preempt `process_keyboard_input` and `write` between any
  two accesses to shared variables; nothing masks it;
* `map_page` edits live page tables, can run out of memory half way, and is
  obliged to invalidate what the processor cached;
* `cpu::init` programs devices in an order that decides what they do, in
  variants (with and without a local APIC, memory-mapped or x2APIC, enabled or
  not), and interrupts are on before it is done;
* descriptors and gates spread an address over three or four fields, and are
  read by the processor only later, when a segment is loaded or an interrupt comes;
* each part may fail, return without a word, or halt, and the next one goes on
  with what it left: without an HHDM response `mem::init` returns and `cpu::init`
  dereferences the missing response, before any handler is set;
* boundaries: screens that are no whole number of cells, tables that are full,
  strings cut off inside a UTF-8 sequence, a memory map without a usable page.

`PROJECT.json` ("hazards") lists each at its line with the properties about it, or says why there is none.

What makes each component correct:

* memory manager: no byte belongs to two callers, what is managed is usable
  memory, none is lost, free runs are merged, a fresh page is zeroed and nobody
  else's data is;
* paging: the page asked for leads to the frame asked for, no other page's
  translation changes, nothing stale stays in the TLB, only tables are written;
* keyboard: events come out in order, none is refused while there is room, the
  state of modifiers and keys is that of the keyboard, the processing call ends;
* console: it is a grid of characters that scrolls; the cursor stays on it;
* interrupts: init ends, every interrupt has its own vector, reaches its handler
  and is acknowledged, the timer ticks for ever, keys are read;
* boot: with a boot loader that answers and enough memory it comes to its end;
  where it stops, the screen says why;
* libk: a report on the screen is the one that was meant, and no string is read
  past its end.

## 2. Modules

| module | what it is |
|---|---|
| `PageAllocator` | abstract: usable bytes, and allocations of whole usable pages that share none and last until freed |
| `PMM` | `PMM::init`, one step per loop iteration, and `alloc_pages`, `free_pages`, next to callers that write, free, and free by mistake |
| `PMMProofs` | theorems about `PMM`, among them that it implements `PageAllocator` |
| `Paging` | `mem::init`, `map_page` one table at a time over an instance of `PageAllocator`, the page walk, the TLB |
| `PagingProofs` | theorems about `Paging` |
| `EchoQueue` | abstract: a bounded queue of events that is echoed to the screen |
| `Keyboard` | a keyboard, `keyboard_handler` and `process_keyboard_input` |
| `KeyboardProofs` | theorems about `Keyboard`, among them that it implements `EchoQueue` |
| `Terminal` | abstract: a grid of cells and a cursor |
| `TextConsole` | framebuffer and cursor, access by access |
| `TextConsoleProofs` | theorems about `TextConsole`, among them that it implements `Terminal` |
| `Utf8` | `decode_utf8` and the loop of `write` around it |
| `IoStream` | extends `Utf8`: the functions that print numbers, and the reports that are printed with them |
| `IoStreamProofs` | theorems about `IoStream`, `Utf8` and `CTypes` |
| `CTypes` | the character classes |
| `Descriptors` | GDT entries, the TSS descriptor and interrupt gates, byte by byte, and how a processor reads them |
| `Interrupts` | extends `Descriptors`: `cpu::init`, the handlers, the two 8259 PICs, the local APIC and its timer |
| `InterruptsProofs` | the inductive invariant of `Interrupts`, and theorems about `Descriptors` |
| `Boot` | extends `Interrupts`: `kernel_main`, from the boot loader's answers to the last `hlt` |
| `BootProofs` | theorems about `Boot`, from the invariant of `InterruptsProofs` |
| `Induction` | lemmas the proofs share: induction and recursion over numbers and finite sets, and sums over sets |
| `MC*` | memory maps, page tables, keyboards, screens, strings, reports, machines and boot loaders for TLC |

Composition: `Boot` is `Interrupts` with `kernel_main` around it, each step of `cpu::init` being
one of `Boot`'s; it takes from memory management what the rest of the boot can
see of it (an answer or none, a page or none, pages enough or not). `Paging` has an
instance of `PageAllocator`, which `PMM` is checked to implement. `IoStream` runs the
steps of `Utf8` inside its calls. `Keyboard` and `TextConsole` see each other as a byte
that may print, and a `putchar` that may come at any time.

A definition called "a mutant of" another is a plausible mistake in the code it
stands for; no specification uses it. Replacing the definition by its mutant makes TLC
report the property it is listed with ("mutants"): it shows that the property
depends on the code.

A constant set of settings (`MemMaps`, keyboards in `Settings` of `Keyboard`,
screens in `Settings` of `TextConsole`, `Machines`, `Loaders`, `Strings`, `Reports`) says in what
surroundings a module may start; `Init` picks one and nothing changes it. One run thus checks
a component in all its surroundings, and a property that is promised in some of
them only says so in its first line (`NoHoles(memmap) => ...`, `~Preemptible => ...`,
`Followed(setting) => ...`, `Narrow(setting) => ...`, `Whole(s) => ...`, `Sound ~> ...`). One condition is on
a constant as a whole and stands in front of theorems instead: `Separate(Requests)` for `Paging`; `MCPaging`
assumes it of what the run uses, so that TLC checks that it holds there.

### PMM
`regions` is the table from slot 0, as long as `region_count`; `i` and `j` are
the loops' counters, `phase` says which loop runs. `CollectEntry`,
`SortCompare`, `MergeTouching` etc. are one iteration each. `Alloc(count)` and
`Free(base, count)` are one step each: nothing else uses the table (no handler
allocates). `Absorb` and `Split` are the element-shifting loops. `held` and
`dirty` are not in the code: what callers own, and which bytes of memory hold data. Memory is
counted in bytes and a page is `PAGE_SIZE` of them. When the table is empty the
code's `region_count - 1` wraps; the model stops in phase `overrun`, since what
the code does from there is undefined. The Limine protocol's promises about the memory
map (usable entries overlap nothing, page 0 is never usable) are `ValidMap`.

### Paging
Memory is counted in frames; `mem[f]` are the entries in frame `f`, and the HHDM
makes every frame addressable, so a pointer is a frame. `MapPage` starts a call;
`Descend`, `CreateTable`, `OutOfMemory`, `StoreLeaf` and `FlushTlb` are its
steps. The two copies of the walk in the code (2MB and 4KB) differ in the level
of the last entry (`Leaf`) and its alignment (`Target`). `Translate` and `Touch`
are the hardware's walk and its caching of the result. Allocation may fail
at any table, which is more than the allocator really does. Of an entry's flags `PRESENT`, `WRITABLE` and `HUGE`
are kept; that the mask `flags & 0xFFF` drops NX, and that `& ~0xFFF` leaves bits 52 to 63 in a table's
address, is not modelled, and no property depends on it.

### Keyboard
A keyboard holds keys, sends make, break and repeat codes into `wire`; reading a
byte and running `keyboard_handler` on it is one step, since the handler cannot be interrupted.
`process_keyboard_input` takes a step per access to the shared variables, with the
copy of the event (`Copy`) and the stores of head and size (`Store`) in either
order and with `queue_size` either reloaded or kept in a register: the variables
are not volatile, and compiled code may do either. `preemptible` in a setting says whether the
handler may run in between. In the kernel as it is nobody calls
`process_keyboard_input`; the model gives it a caller. `handled` is history: the last press that the handler
gave to `enqueue_event` or to `putchar`. `EchoQueue` follows it (`latest`), so that a refused press is a step
of its own there (`Refuse`), allowed only when the queue is full. Backspace is printed by the handler and may
overtake the presses waiting in the queue: that is what the code does, `EchoQueue` allows it, and nothing is
claimed about it.

The driver keeps no prefix and returns early for shift, caps lock and backspace. `HeldKeysTracked` says
exactly what follows for the keys held, once every byte is read: nothing is said to be held that is not
(the shift flags speak for the shifts, `is_pressed` for the other keys); a held key that
shares its code with no other is said to be, caps lock and backspace aside; and `is_pressed` is FALSE of
shift, caps lock and backspace whether they are held or not. Only the exact state of the
modifiers, and with it the case of a press, depends on `Followed`: no extended shift, no caps lock that repeats.

### TextConsole, Utf8
`buffer` is the framebuffer: a pixel is blank or names the bit of the font table it shows. The main flow
takes a step per access to the cursor (`BeginGlyph`, `Draw`, `Advance`, `Wrap`,
`LoadRow`, `StoreColumn`, `StoreRow`, `Scroll`, `Unscroll`, `Check`), in the order
of a `-O2` build; the handler's `putchar('\b')` is one step, `HandlerPutchar`. Moving
all pixels in a scroll is one step. Colors are left out, and the pitch is the width. `Utf8`
takes a string apart, one step per turn of the loop in `write`.

### IoStream, CTypes
A report is a sequence of calls, as the code makes them: a line of `print_regions`, or what
the handlers of page faults, general protection and double faults print. `CallWrite`, `WriteChar`
and `WriteEnd` write a string (`write_line` ends the line); `CallNumber`, `Collect` and `Emit` are a
number's call, a turn of the loop that collects digits in `buffer`, and a turn of the one that prints
them from its other end. Widths are those of the parameters: `print_int` takes a `size_t`, so that its
branch for negative numbers is never taken, and `print_uint`, `print_hex` and `print_ptr` an
`unsigned int`: `value` is the argument modulo `Limit`, which is `SIZE` or `UINT`. `buffer` may grow
beyond `BUFFER` in the model, and `PrintTypeOK` says that it does not. `CodeTexts` are texts of code
points, for `RoundTrip`. `CTypes` are the functions of `ctypes.cpp` over all integers.

### Interrupts, Descriptors
`pc` is where `cpu::init` stands, or where the processor stopped: `dead` in a fault handler that
prints and halts, `reset` after a fault without an IDT, `lost` after a jump nobody can follow. A machine is a record of what CPUID, the boot
loader and the firmware left: an HHDM response or none, a local APIC or none, x2APIC, AVX, CR4.OSXSAVE,
whether the local APIC is software-enabled, and which of its interrupts may occur; the PICs start
masked or not, since the kernel does not know ("idk if limine enables them").
The local APIC's registers start unmapped: `kernel_main` requires base revision
3 of the boot protocol, under which that range is not in the HHDM; `paging` says
whether `map_page` finds pages for them, finds none, or has nothing to work on. `Handle` runs
a handler as one step, since all gates are interrupt gates.

An address is its eight bytes (`AddressOf` gives the build's), a descriptor eight bytes and a gate
sixteen, in the order of the packed structures. The processor's side reads the bytes
back as it does: `LoadSegments` and `LoadTss` look selectors up in `gdt`, and `Entered` finds
the handler of a vector through its gate, or a general protection fault. Of the 104 bytes of the TSS
only the address matters here; the limit that the code stores is one too large, which the
processor accepts.

The hardware rules the model relies
on: an LVT entry cannot be unmasked while the local APIC is software-disabled; a one-shot timer
stops when it expires; an interrupt waits for those of its class or above in
service; a PIC line waits for lines in service at or above its priority, the lines of the second
PIC counting as line 2 of the first; `xgetbv` is undefined
without CR4.OSXSAVE. One timing assumption: the initial count
outlasts the time to the very next register write. `int_no_error` reads
a word of whatever it interrupted (`StackWords`). The syscall MSRs are left out.

### Boot
`stage` is where `kernel_main` stands, `loader` what the boot loader answered, `screen` whether the
console has a framebuffer, and `said` what can be read on it. `CheckRevision` and `InitConsole`
are the checks of `kernel_main`; the four outcomes of `mem::init` are `MemUnanswered` (it complains and returns),
`MemNoPage` (it halts), `MemReady`, and `MemLost` (the memory manager's sort runs off an empty table, or
the console reads glyphs beyond what is mapped); `InitCpu` is a step of `cpu::init`, with what a
fault handler or `alloc_page` then prints. Interrupts and devices are those of `Interrupts`.
A console of no size takes all that is written and draws nothing.

## 3. Runs

Passing runs:

| run | shows | bounds |
|---|---|---|
| `pmm_all` | the allocator's invariants; what is handed out is zeroed and the holders' data is kept; init completes and terminates; without holes in the map, `PMM` implements `PageAllocator` and mistaken frees change nothing | pages of 2 bytes, 4 slots, no answer or 8 memory maps: unordered, unaligned, with holes, with more entries than slots, without a page; requests of 1 and 2 pages; any mistaken free |
| `keyboard_all` | the size never promises events that are not there; no key is said to be held that is not, and those with a code of their own are, shift, caps lock and backspace being none of `is_pressed`'s; on keyboards with followed modifiers, shift state, caps lock and the case of each press are right; with interrupts off during the processing also consistent indices, returning, and an implementation of `EchoQueue`: presses are taken in order, each once, and refused only when the buffer is full | four keyboards: 4 presses of a letter, Enter and backspace with interrupts off, so the buffer fills and wraps; 3 of them with interrupts on; 3 of shift, caps lock, a letter and two keys of one code; 3 with an extended shift and a caps lock that repeats, which the driver cannot follow; buffer of 2, 2 bytes in the keyboard; no key has the low bits of the prefix for its code |
| `paging_separate` | pages lead where asked, no other changes, no stale TLB entry, no lost table | tables of 2 entries, 4 allocatable frames, boot tables of all four levels with a 2MB page and a 4KB page that leads to an allocatable frame; 6 requests, two of them for one page, a 2MB page over another; all of them `Separate`: no 4KB page inside a large one, a 2MB page only where a directory exists and no page table would be lost |
| `console_all` | the cursor is on the screen between characters whatever the handler prints; an undisturbed program that writes latin glyphs, and moves the cursor as it likes, never tears a glyph or mixes two; undisturbed, on whole lines, the console implements `Terminal` | glyphs of 2 x 2 pixels; screens of 4 x 4, 5 x 5 (partial column and line) and 4 x 3, the last with wide characters and the handler |
| `iostream_all` | no byte of a string is lost, none is read past the end, encodings are decoded; digits fit their buffer; a report of ASCII texts and of numbers that fit is on the screen as meant | strings of up to 4 bytes of 7 boundary bytes, and 5 code points of 1 to 4 bytes alone and in pairs; `unsigned int` of 8 bits, `size_t` of 16, room for 5 digits, numbers of one digit, several, the largest, and one that does not fit, in every kind of report |
| `boot_all` | no device interrupts on an exception's vector, nothing is left in service, descriptors and gates lead where they should, whoever stops says why; on sound machines the boot ends, the timer ticks once, and in x2APIC mode for ever | boot loaders that answer everything, with memory for the tables or a page too few, or that fail in one of seven ways; machines with and without local APIC, x2APIC, AVX, OSXSAVE (where AVX asks for it), software-enabled and local interrupts, and one without HHDM; PIC lines 0, 1 and 14, one of them on the second PIC; tick modulo 3 |

Tables of two entries, buffers of two and screens of a few cells are enough for
what the code distinguishes: an index that wraps, a buffer that is empty, full
or neither, a first, inner and last line, a slot with a free, used or no
neighbour. The code has no other thresholds, apart from the constants that the
models keep as parameters. `tick` is counted modulo `TICKS`. The theorems of section 5
have no such bounds.

Deadlock is not checked where the system really stops: the keyboard runs (its
user presses a bounded number of keys and goes away), the paging runs (`mem::init` may
halt the kernel), the reports (they end), and the boot and interrupt runs (a processor that
halted in a fault handler, with every device waiting).

Runs that report a disagreement between the code and what the repository says
of it (each is described under "findings"):

| run | what TLC finds |
|---|---|
| `pmm_holes` | `free_pages` merges regions across a hole: reserved memory becomes allocatable |
| `keyboard_lapped` | lost updates of `queue_size` let the tail overtake the head: events out of order. The race is in the driver; today it is latent, since nobody calls `process_keyboard_input` and no handler acknowledges an interrupt of the PIC, so that at most one byte is ever handled |
| `paging_fresh` | the HUGE flag leaks into table entries: a 2MB mapping where no directory exists does not work |
| `console_glyphs` | glyphs are looked up at 201 bytes each in a table of 20 |
| `interrupts_oneshot` | the periodic timer is made one-shot by a later write |
| `interrupts_lvt` | in x2APIC mode every LVT register is one too high |

Other things the models reproduce, which no run singles out:

* with no usable page `region_count - 1` wraps and the sort runs off the table
  (phase `overrun` of `PMM`; `InitTerminates` says that nothing else keeps init from ending);
* `free_pages` accepts a region that is already free, and across a hole runs the merges again;
* a 4KB page mapped inside a 2MB page is written into the data of the large page;
* a wide character moves the cursor by one narrow cell, so that it overlaps its neighbours;
* backspace draws a glyph and moves the cursor forward;
* LVT entries written while the local APIC is software-disabled stay masked: on
  a machine that starts so the timer never ticks;
* without a local APIC `timer_handler` acknowledges to registers that are not
  mapped, a page fault; nothing acknowledges to the PIC;
* with a local APIC the PIC is masked and no I/O APIC is programmed: no key arrives;
* `int_no_error` takes a word of whatever it interrupted for its vector number;
* `xgetbv` without CR4.OSXSAVE is an invalid opcode;
* vectors 0x80 to 0x84 and the spurious vector 0xFF are given to the local APIC and have no gate:
  such an interrupt is a general protection fault, which kills the kernel;
* without an HHDM response `cpu::init` follows a null pointer before an IDT is set: the machine resets;
* without a memory map `map_page` takes physical addresses for virtual ones: a page fault;
* `print_hex` cuts the addresses of regions and of faults off to 32 bits.

One thing is left to the compiler and not modelled: `"=A"` in `mem::init` (`mem_impl.cpp:55`) names one register
in 64-bit code, so the two halves of the EFER may be swapped or lost.

## 4. Fairness

* `PMM`: `WF(InitStep)`: init is straight-line code that nothing preempts.
  Callers are not fair.
* `Keyboard`: `WF(Process)`: between interrupts the call has the processor; the
  user's presses are not fair.
* `Interrupts`: `WF(InitStep)` and `WF(Interrupt)`: the processor runs, and takes
  an interrupt that stays offered; `WF(Expire)` and, with a PIT, `WF(Raise(0))`: clocks run.
  Nothing is fair about keys or other sources.
* `Boot`: the same, with `WF(KernelMain)` for `WF(InitStep)`.
* `Paging`, `TextConsole`, `IoStream` have no liveness properties.

## 5. What is proved

Each theorem holds for every value of the constants that satisfies the named assumptions of the
modules; TLC evaluates these on every run. Every safety invariant, action property and refinement of the
passing runs is stated by one of them.

| module | theorem | what it says | inductive invariant |
|---|---|---|---|
| `PMMProofs` | `TypeCorrect` | the table stays within `MAX_REGIONS` and holds regions | `IInv` |
| | `RegionsNeverOverlap` | from the end of the sort on, regions are in order and disjoint | `IInv` |
| | `UsedAreHeld` | used regions and callers' allocations are the same | `IInv` |
| | `NoSharedPages` | no two callers own a common byte | `IInv` |
| | `DataKept` | zeroing reaches every byte handed out and none that somebody else owns | `IInv` |
| | `FreeRegionsCoalesced` | two free regions never touch, with holes in the map or not | `IInv /\ CoalInv` |
| | `MemoryNeverLost` | what is free and what is held add up to the usable memory, with holes or not | `IInv /\ SpaceInv /\ AmountInv` |
| | `NoMemoryLost` | without holes: the table covers the usable bytes and no others | `IInv /\ SpaceInv` |
| | `StrayFreesHarmless` | without holes: a mistaken free changes nothing | `IInv /\ CoalInv /\ SpaceInv` |
| | `RefinesPageAllocator` | without holes: the allocator implements `PageAllocator` | `IInv /\ SpaceInv` |
| `PagingProofs` | `TypeCorrect` | types; what is cached leads to memory | `TypeOK` |
| | `PInvHolds` | the invariant of `map_page`, for separate requests, as for the theorems below | `PInv` |
| | `Installs` | the page asked for leads to the frame asked for | `PInv` |
| | `CacheFresh` | nothing stale stays in the TLB | `PInv` |
| | `OthersKept` | no step changes where another page leads | `PInv` |
| | `TablesOnly` | only tables are written | `PInv` |
| | `NoTableLost` | every page taken for a table is linked once | `PInv` |
| `KeyboardProofs` | `KeyboardTypes` | types; the indices stay in the buffer | `QueueInv` |
| | `NeverInventsEvents` | `queue_size` never promises an event that is not there, preempted or not | `QueueInv` |
| | `RingAgrees` | interrupts off: head, tail and size agree | `QueueInv` |
| | `NumberInvariant` | the presses in the wire are in the order they were made, and after those handled | `NumberInv` |
| | `RefinesEchoQueue` | interrupts off: the driver implements `EchoQueue`: in order, each press once, refused only when full | `QueueInv /\ NumberInv` |
| | `KeysFollowed` | every keyboard: what `HeldKeysTracked` says of the keys held (section 2) | `QueueInv /\ Foretold` |
| | `CaseRight` | an event has the case that was right when its key went down, where modifiers can be followed | `QueueInv /\ Foretold` |
| `TextConsoleProofs` | `ConsoleTypes` | types | `ConsoleInv` |
| | `CursorStaysOnScreen` | between characters the cursor is on the screen, wherever the handler printed | `ConsoleInv` |
| | `GlyphsStayWhole` | latin glyphs, uninterrupted: a cell is blank or shows one glyph | `ConsoleInv /\ TidyInv` |
| | `RefinesTerminal` | the same, on whole lines: the console implements `Terminal` | `ConsoleInv /\ WholeInv` |
| `IoStreamProofs` | `StringsNotOverrun` | `write` never steps over the end of a string | `IoInv /\ InCall` |
| | `AsciiNotSwallowed` | every ASCII character of a string is drawn, in order | `IoInv /\ InCall /\ DecodedInv` |
| | `PrintTypeCorrect` | types; no number overruns its buffer | `PrintInv` |
| | `RoundTripHolds` | `decode_utf8` undoes the encoding of every text | `PrintInv /\ RoundInv` |
| | `ReportsShown` | a plain report is on the screen as it was meant | `PrintInv /\ MeantInv` |
| | `PrintablePartition`, `CaseConversions` | the classes divide the printable characters; conversions of case undo each other | none needed |
| `InterruptsProofs` | `GateReadsBack` | a gate written by `set_gate` leads to its handler, for every address, and keeps the low bits of its stack and privilege bytes | none needed |
| | `TssReadsBack` | the TSS descriptor is available and reads back as its address and limit | none needed |
| | `InterruptsInvariant` | `KernelInv` holds of `cpu::init` | `KernelInv` |
| `BootProofs` | `BootInvariant` | `BootInv` holds of the whole kernel | `BootInv` |
| | `BootTypes` | types | `BootInv` |
| | `VectorsApart` | no device interrupts on an exception's vector | `BootInv` |
| | `AllAcknowledged` | nothing is left in service in the local APIC while the kernel lives | `BootInv` |
| | `DescriptorsRead` | interrupts on: the kernel's segments and TSS are loaded, every vector enters its handler | `BootInv` |
| | `StopsAreExplained` | with a screen, a kernel that stopped has said why | `BootInv` |

Assumptions: positive sizes (`PageAssumption`, `SizeAssumption`, `KeyboardAssumption`, `PrintAssumption`),
the boot protocol's promises on memory maps (`MapAssumption`), positive counts (`CallAssumption`), cursors
that callers set on the screen (`CursorAssumption`), physical memory of whole large pages
(`FrameAssumption`), boot page tables that are a tree and leave the allocator's pages alone
(`BootAssumption`), present pages in requests (`RequestAssumption`), strings without NUL inside
(`StringsAssumption`), texts of code points of up to 21 bits without NUL (`CodesAssumption`), a digit buffer
with room for the largest argument (`BufferAssumption`: the code's has 32 bytes, and 2^64 twenty digits),
handlers at different addresses (`AddressAssumption`), records of the right form (`MachineAssumption`,
`LoaderAssumption`), and devices on lines other than the cascade's (`DeviceAssumption`). One hypothesis is
a condition the code does not meet by itself. Without `Separate(Requests)` the theorems of `PagingProofs`
below `TypeCorrect` are false: `paging_fresh` shows what becomes of a 2MB page without a directory, and a
4KB page inside a 2MB page is written into data. The same goes for `Followed(setting)`, inside `CaseOfPress`
and the last part of `HeldKeysTracked`: the driver drops the prefix byte and toggles caps lock at every repeat.

None of the properties is inductive alone; what the invariants add is this.

`IInv`: what the
loops have done so far. While collecting, every region lies in the entry it came
from (`Collecting`), so that regions from different entries are disjoint; while sorting, regions stay pairwise
disjoint and the last `i` slots are sorted and above all others, the largest of
the slots seen being at `j` (`Sorting`); later, the table is ordered
(`RegionsDisjoint`), regions are non-empty and above address 0 (so that no allocation is
mistaken for a failure, and bases identify slots), and the used regions are the
allocations (`UsedIsHeld`). Lemmas about `Absorb`, `Split` and `FreedTable` say what each
does to order, sizes and used regions; merging adds a length to a region and removes
the next one, so an ordered table stays ordered even when a merge
crosses a hole, which is why these theorems hold although `ManagedIsUsable` does
not.

`CoalInv`: during the merge loop of init, the pairs below `i` do not touch; afterwards
no two free neighbours touch. The loop steps back with `i--` after a merge, and `free_pages` may merge
twice, across holes too: `AbsorbPairs` says that a region that took over its neighbour touches
no more than that neighbour did, so that merging makes no new pairs.

`SpaceInv`: the bytes the table covers are, while collecting, the usable ones of the first `i` entries, and
the whole map's from then on; after init this holds on maps without holes only, where neighbouring slots
touch (`Contiguous`) and whatever `free_pages` merges is therefore one run. The refinement of
`PageAllocator` follows: a region handed out is usable, whole and apart from the others. `AmountInv` is what
holes leave of it: a merge across a hole moves bytes but adds two lengths, and a split takes one apart, so
the lengths in the table keep their sum, which at the end of init is the number of usable bytes.

`PInv`: the tables are a tree (`Shape`: levels go down by one along a link, and no table is linked twice),
so that one store changes the walks that pass through that entry and no others; all pages taken from the
allocator but the spare one of `mem::init` are on some walk (`HeldLinked`); a call stands on the walk of its
page (`CallInv`); no request meets a large page half way (`RequestInv`); and inside a 2MB page that is asked
for no 4KB page is cached (`CachedLarge`), which is why one `invlpg` is enough.

`QueueInv`: what the consumer holds in registers between a load and a store is no more than what is there,
since the handler only makes `queue_size` grow (`InvConsumer`); with interrupts off the registers are exact
and the ring is consistent (`InvRing`). The refinement maps the queue to the events from the head on, as
many as `queue_size` says. The copy and the stores of head and size may come in either order: the stores are
the abstract step that shows the oldest event, and a character stored but not yet printed counts as shown
(`Shown`). The proof rests on arithmetic of slots modulo a buffer of any size (`SlotArithmetic`).

`NumberInv`: the make codes in the wire carry increasing numbers above `handled`, so that each byte the
handler reads is the next press `EchoQueue` takes.

`Foretold`: running the handler over the bytes still in the wire, from the state it has now, ends in flags
that agree with the keys down, and each byte meets on its way the case that was right when it was sent. The
handler takes a byte off the front of this run and the keyboard adds bytes at its end (`SentTrace`), so that
it holds however far the handler lags behind.

`ConsoleInv`: how far the cursor may be off the screen at each step (`CursorInv`). Between
`Advance` and `Wrap`, `newline` and `scroll` it may be one line or column too far, and the handler's
`putchar` in between must leave it no further.

`TidyInv`: every cell is blank or one glyph, from its top down to some row; drawing replaces a cell
(`DrawnTidy`) and a scroll moves cells by whole lines. Cells that are cut off at the bottom of the screen
are the reason for "some row". `WholeInv` adds, on screens of whole lines, that the rows are all or none and
that the registers agree with the cursor; `Terminal`'s grid is then read from the pixels, and each access to
the cursor is a step of `Terminal` or none.

`IoInv`: the position is inside the string and the calls left are calls. The lemma that matters is
`DecodeInside`: a byte accepted as a continuation is no NUL, so the length that `decode_utf8` returns ends
within the string. `DecodedInv`: what is drawn stands for increasing positions of the string, and every
ASCII byte passed is among them. `RoundInv`: in an encoded text `write` stands between two encodings, and
has decoded as many code points as it passed; `DecodeEncoded` is the arithmetic of the four lengths.
`PrintInv` has the bound on the buffer: with `k` digits collected the number left is below 10^(`BUFFER` -
`k`), in base 16 too. `MeantInv`: the screen shows the meanings of the calls done, then the part of the
current one that has been written; while digits are collected, the numeral of the argument is that of the
number left followed by the buffer reversed (`Reversed`).

`KernelInv`: which descriptors and gates are loaded at each step of init (`InvTables`),
which controller is masked or moved, and that nothing is in service between handlers (`InvControllers`).
`BootInv` adds what has been said at each stage of `kernel_main` (`InvStages`). A step of `Boot` either is one
of `Interrupts` or leaves all of it but `paging` alone.

Each proof has a lemma per action, or per group of them, that the step keeps the invariant.

`Induction`: the library's induction theorems take an operator as a parameter, which the provers cannot
instantiate. Stated for sets induction needs none: a set of numbers that has 0 and the successors of its
members has every number, which follows from the library's theorem that strict inclusion is well-founded on
finite sets. From it come the existence and the values of functions defined by recursion (`Recursion`,
`RecursionBelow`), and with them what `FlattenSeq`, `SumFunction`, numerals and powers are for arguments of
any size. No module with theorems declares a `RECURSIVE` operator.

Only model-checked: liveness, that is `InitTerminates`, `ProcessReturns`, `BootCompletes`, `FirstTick` and
`X2apicKeepsTicking`. Liveness under fairness, and `ENABLED`, are beyond the prover. The theorems are about
the models; what these leave out is listed next.

## 6. Not modelled

* `print_regions` beyond the lines it prints, colors and getters: they print or return a variable.
* `alloc_pages` with a count of 0 or one whose size wraps: no caller does this.
* The NX and WP bits set by `mem::init`, and the syscall MSRs: nothing runs in user mode or makes
  a system call, and no property of today's kernel depends on them.
* A 2MB page mapped over an existing page table (a leak and stale TLB entries):
  no caller; the paging runs do not request it.
* Several mistakes of the boot loader at once: `MCLoaders` has one at a time, and the theorems all.
* `atomic.hpp` and `type_traits.hpp`: templates that nothing instantiates.
* The global constructors (never called), port i/o (one instruction each; what a port does is in the
  model of its device), the aarch64 stubs, empty files, `limine.h` and the fonts (data; what they promise
  is in the assumptions and in `MCTextConsole`).

## 7. Plan

Done: the modules above, in the order memory manager, keyboard, paging, console,
interrupts, boot, reports; all safety invariants, action properties and refinements of the passing runs proved.

Left, in order of importance:

1. `Paging` over `PMM` instead of `PageAllocator`: failures exactly when the table says so.
2. Proofs about an interrupted console: which cells a handler's character may disturb.
3. The parts of a liveness argument that are safety: a variant that decreases in `PMM::init`, and one in the
   processing of the queue with interrupts off.
4. `Atomic`, once something uses it: `compare_exchange` and `fetch_add` against a linearizable register.
