# UniProc in TLA+

UniProc is a small x86-64 kernel for one CPU. A Limine bootloader starts it at
`_kernel_start`; it sets up its descriptor tables and the interrupt
controllers, enables interrupts and, today, ends in `enter_panic`. There is a
page allocator, a process table without a scheduler, a keyboard driver and a
text terminal on the framebuffer. This directory holds TLA+ modules of the
parts whose behaviour depends on state and order, the TLC configurations that
check them on small instances, and TLAPS proofs about them for all instances.

Paths below are relative to the kernel's sources, `src/src/`.

## 1. Inventory

| Component | State | Operations | What makes it correct | Here |
|---|---|---|---|---|
| memory map and page allocator (`kernel/vmem.c`, `kernel/allocator.c`) | `memory_map`, `base_of_heap`, the bitmap `pageTable` | `build_memmap`, `get_free_page`, `free_page` | a page has one holder and is real memory; the bitmap says what is held; panics are justified | `VMem`, `Heap`, `PagePool` |
| process table (`kernel/proc.c`) | `proc_table`, `proc_number`, `proc_current` | `create_process`, `create_proc0`, `name_process` | contexts belong to one process; entry registers survive until the process runs; count and table agree | `Processes`, `ProcessPool` |
| process contexts (`arch/x86_64/proc_context.c`, `ctsSwtch.asm`) | a page for each context | `create_new_proc_context`, the store of `generic_handler`, `switch_context` (not called) | a context is what its process will start or resume from | `Processes` |
| interrupt entry and dispatch (`arch/x86_64/idt.c`, `idt_.asm`, `interrupts.c`) | the IDT, the interrupt flag, handler frames on the stack | `init_idt`, `initialize_interrupts`, the stubs, `generic_handler`, `iretq` | handlers of IRQs do not nest; the flag is restored; every handler returns or halts; the handler sees the state it interrupted, and that state is resumed | `Interrupts`, `Entry` |
| interrupt controllers (`arch/x86_64/pic_8259.c`) | requests, services, masks, vectors | `pic_remap`, `pic_send_eoi`, `irq_clear_mask` | vectors do not collide with exceptions; each EOI ends the service it is meant for | `Pic8259`, `Interrupts` |
| keyboard driver (`arch/x86_64/keyboard.c`) | the static `shift` | `kb_get_scancode` | flags follow the keys that are held; every byte is read | `Keyboard`, `ModifierKeys`, `Interrupts` |
| terminal (`arch/x86_64/tty.c`) | `terminal_row`, `terminal_column` | `terminal_putchar` and what it calls | text stays on the screen and is not drawn over | `Terminal` |
| framebuffer (`arch/x86_64/framebuffer.c`) | pixels | set, clear, scroll, geometry | writes stay inside | cells in `Terminal` |
| boot sequence and panic (`kernel/kernel.c`, `arch/x86_64/cpu.c`) | the order of the calls | `_kernel_start`, `enter_panic`, `hcf` | each part is ready before it is used; a halt is final | stages in `Interrupts` |
| C library (`libc/`) | none | `printf`, `printint`, `strlen`, `memset`, `memcpy`, `abort` | a format is printed as it promises; digits denote the number; buffers suffice | `Console` |
| serial port (`arch/x86_64/serial.h`) | `serial_initialized`, the chip's FIFO and loopback | `init_serial`, `is_transmit_empty`, `write_serial` | no byte is lost; no wait is for ever | `Console` |
| ELF loader (`kernel/elf.c`) | the image, which relocations change | check, section walk (which ends in `malloc` of `vmem.c` for a `.bss`), relocation, program headers | relocations write where they should, once and in order; a bad file is refused; nothing is relocated or started from a file whose `.bss` has no memory | `Elf` |
| paging (`arch/x86_64/mem.c`) | none today: `init_virtual_memory` is empty | `paging_get_page_fault_flags`, `create_entry` (not called) | the report of a fault is what the CPU said | `Entry` |
| segment descriptors (`arch/x86_64/gdt.c`) | `_gdt` | `init_gdt` | the selector of every gate is a 64-bit kernel code segment | `Entry` |
| fonts (`fonts/`), run queue (`kernel/prio_q.c`), test programs | constant data, an empty stub | | | not modelled, section 8 |

How they interact: `create_process` calls `create_new_proc_context`, which
takes a page with `get_free_page`. Every interrupt runs `generic_handler`,
which first stores through `proc_table[proc_current].context`, then calls the
keyboard driver and prints through the terminal, which the interrupted code
may be printing on too, and sends the EOI. `printf` goes character by
character through the terminal to the serial port and the framebuffer.
`_kernel_start` hands the result of the ELF loader to `create_process`. Nothing
is locked.

Hard behaviours, each listed with its line under `hazards` in `PROJECT.json`:
interrupts between any two instructions of the code that fills the process
table or moves the cursor; faults inside handlers; edges the controllers
forget; spurious interrupts; an EOI for a chip that did not ask for it; the
pools (pages, slots, memory regions, lines of the screen) at their limits;
state that must survive from one interrupt to the next; a port that is tested
before a handler writes to it and written after; assembly and C that must agree
on the layout of the stack; and relocations that fail half-way.

## 2. Modules

| Module | Models | Extends |
|---|---|---|
| `VMem` | state and operations of the allocator, without clients | |
| `Heap`, `MCHeap` | the allocator under arbitrary clients | `VMem` |
| `PagePool` | abstract: what a page allocator promises | |
| `Processes`, `MCProcesses` | the process table and contexts, with interrupts between the stages of a call | `VMem` |
| `ProcessPool` | abstract: what the table promises a scheduler | |
| `Pic8259` | the two controllers and their driver | |
| `Interrupts`, `MCInterrupts` | boot, CPU, `generic_handler` and devices | `Pic8259` |
| `Terminal` | `terminal_putchar`, load by load and store by store | |
| `Keyboard` | `kb_get_scancode` and a keyboard | |
| `ModifierKeys` | abstract: what a keyboard driver promises | |
| `Console`, `MCConsole` | `printf` and `printint` down to the serial port, handlers that print inside it | |
| `Entry`, `MCEntry` | an interrupt's way in and out, instruction by instruction | |
| `Elf`, `MCElf` | the ELF loader and what `_kernel_start` does with its result | |
| `HeapProofs` | theorems about `Heap` | `Heap` |
| `ProcessesProofs` | theorems about `Processes` | `Processes` |
| `ElfProofs` | theorems about `Elf` | `Elf` |
| `InterruptsProofs`, `TerminalProofs`, `ConsoleProofs`, `EntryProofs`, `KeyboardProofs` | theorems about the module of that name | |

`VMem` is the shared component: `Heap` and `Processes` compose it with two
different sets of clients, and its lemmas serve both. A definition with
the comment "Mutant of ..." is a plausible mistake in the code; no
specification uses it. It shows that the property it is paired with in
`PROJECT.json` would notice.

### VMem, Heap
Addresses and lengths are counted in pages, which every address in this code
is a multiple of. `BuildMemmap` is the loop of `build_memmap` with its silent
limit. `LocateHeap` is the loop at the top of `get_free_page` and
`GetFreePage(i)` a call that returns page `i`; `GetFreePagePanics` one that
panics. `FreeIndex` is the index expression of `free_page`, with the wrap of
`uintptr_t`. The kernel never calls `free_page`, so `Spec` has no `Put`;
`SpecPut` has it.

### Processes
`call` is the program counter and the locals of the call in progress. The
stages are cut where an interrupt can tell: `FindSlot`, `BuildContext`,
`Commit` (the assignment of the compound literal, which sets the fields it
does not name to zero) and `CountAndReturn`. `SaveInterrupted` is the store at
the top of `generic_handler`, possible between any two of them; when slot 0
has no context it is `SaveFaults`, and what follows is the subject of
`Interrupts`. Names are atomic. A heap that no region can hold, a table that
is full and a machine without memory are all reachable.

### Pic8259, Interrupts
`Pic8259` has the registers of both chips. The driver's operations follow
`pic_8259.c`; how the chips answer is marked external in the map. In
`Interrupts` the main thread goes through the stages of `_kernel_start`, and
`frames` is the stack of handlers with the stage each is at. The IDT is
represented by its effect: every gate is an interrupt gate, so `EnterHandler`
clears the flag. The PIC is remapped in three steps with interrupts disabled
but devices running, because an edge between ICW1 and the masks makes a
difference. `context` is `"null"` as the kernel boots today, or `"page"` as it
would be after `create_proc0`. Each exception vector may be on the stack once;
the page fault of `SaveState` may repeat.

### Terminal
`pc`, `loaded` and `line` give each thread its place in `terminal_putchar` and
its registers. The kernel is built without optimization, so each read and each
write of `terminal_row` and `terminal_column` is a step. The main thread is
level 0 and the handler that interrupts level k is level k + 1; `level` has the
CPU, and a handler may come in, printing what it likes, between any two steps.
By `IrqsDoNotNest` a handler of an IRQ is at level 1 only, and returns; those of
exceptions and NMIs may come in at any level, print over what they interrupt and
do not return. So each level may start from a cursor that every level below has
moved one further and not yet put back: level k draws up to k lines below the
screen and k columns further right, and row and column go one further still. A cell stands for the pixels of one character; a draw and a scroll are one
step each.

### Keyboard
A key is its index in the driver's tables, so a key at 128 or above is one
whose code follows an 0xE0. The keyboard sends make and break codes in scan
code set 1, with repeats, and the driver takes one byte at each interrupt.
Each byte also carries the event it completes, as a history that the driver's
branches do not look at; `down` collects those events. Of a character the
model keeps the key and the form (lower, upper, shifted, control, ...) that
the three maps and the swap for caps lock give it. Left and right shift share a
flag, and the release of either clears it; `down` follows the driver in that
and forgets both, and `ModifiersMatch` says that nothing else is forgotten.
`KeyboardAssumption` keeps to keys 1 to 95 of either table: the break code of a
key 96 would be the prefix 0xE0 itself, and no keyboard has one. `ModifierKeys`
is told which keys belong together, the two alt keys as the shift keys.

### Console
One call of `printf` in each level: the main thread is level 0, the handler
that interrupts level k is level k + 1. Only the level on top runs; an IRQ
handler returns, one of an exception halts. `NextPiece` is a turn of
the loop over the format, which yields the text of a literal run, a conversion
or the verbatim rest; `Poll` and `Send` are the two halves of `write_serial`
for one character of it, and between them a handler may come in. `Digits` and
`PrintInt` are the loops of `printint`; a number longer than `buf` spills. What
lies behind `buf` is up to the compiler, in the unoptimized build `base` and
other locals among it: so the level is lost, or `printf` goes on and has printed
the number (`Said`), or other digits in its place (`Garbage`), or too few.
`PrintsFormat` therefore speaks of the calls that have spilt nothing, and
`OnlyBinarySpills` says which calls these include. `present` says whether there is a port at all: without one
every status bit reads as set. Words have 8 bits instead of 32 and `buf` 4
characters instead of 16, so that base 16 and base 10 fit and base 2 may not,
as in the source; `INT_MAX` is small so that `maxrem` is met. The terminal's
drawing is `Terminal`'s.

### Entry
The stack is a sequence of words and registers hold names for their values, so
that a misplaced word is noticed. `Interrupt` is the CPU: it aligns the stack,
pushes and goes through the gate `idt_set_descriptor` wrote, which must name a
64-bit kernel code segment of `Gdt`. Then each instruction of the stub and of
`common_interrupt_handler` is a step; `CallStep` reads the structs of
`generic_handler` off the stack, stores them in the context and, for an
exception, prints and halts. An NMI or a page fault may come between any two
instructions, interrupts only while the flag is set. That the context exists
is assumed here; what happens without one is in `Interrupts`. The stub of
vector 21 pushes a second error code; the exceptions of that vector, 29 and 30
need features the kernel never enables, and `EntryAssumption` leaves them out.

### Elf
`CheckFile`, `Stage1`, `Stage2` and `LoadRel` are turns of the loops of
`elf.c`, `Start` is what `_kernel_start` does with the result. The stages are
commented out in `elf_load_rel`; with the constant `Stages` they run, as the
comment has them. `Malloc` is that of `vmem.c`, which is not implemented and
panics: stage 1 passes the sections that need no memory and ends at the first
that does, so memory is the file's when stage 2 begins, and the lines of stage 1
that clear a block and redirect the section are never reached. `BssPanics` says
which files this concerns. `hdr + n` counts file headers of 64 bytes, not bytes, so a
table is a function to what lies where that arithmetic leads, and memory
counts 32-bit words, two to a `size_t`, with addresses that wrap. Reproduced as
the code has it: the index of a symbol is taken for that of its section too, a
zero `sh_entsize` divides by zero (`fault`), undefined symbols resolve to 0
weak or not, `R_X86_64_32` adds to 64 bits, and the result of a relocation is
cut to an `int` before it is compared with -1. And `*ref` is a `size_t`
whatever the type: a relocation for the last word of its section changes the
word behind it too, when its result carries that far, which `WritesStayInTarget`
has to admit. `FilesAssumption` says which files are meant: those whose indices
and offsets lead to an entry of their tables. The loader checks none but the
number of a symbol, and what it does with a file that breaks this is not
modelled.

What relocating should do is stated apart from the loops that do it: `Job` is
one relocation with its place, its value and whether its symbol is in its
table, `Jobs` the lists of all sections, `Patched` a relocation applied, and
`Through` what they leave when applied in order to the file. None of it uses
the loader's definitions. Two things the loader gets wrong are therefore left
out by name, as files that are not `Ordinary`: an undefined symbol, which is
taken to be 0 instead of refused, and a value whose low 32 bits are all ones,
which is taken for an error. A symbol without a table is 0 before anything is
divided, as in the source.

## 3. Runs and their bounds

Passing runs:

| Run | Shows | Bounds |
|---|---|---|
| `Heap` | a page is handed out once, inside memory the bootloader reported; the bitmap is exact; panics are justified; implements `PagePool` | heap of 3 pages; every memory map of up to 3 entries whose lengths are 2, 3 and 4 pages, usable or not, with room for 2 regions: each comparison is met from below, at and above, and the limit of regions is passed |
| `Processes` | contexts are exclusive and allocated, count and table agree, panics only when full; created processes keep their entry registers (`ProcessPool`) | 3 slots, 4 pages: slot 0, two others, and the page `create_proc0` may take; two starts, two arguments |
| `Interrupts` | handlers of IRQs do not nest, service bits follow the handlers, vectors are distinct, the flag is restored, a halt is final | timer, keyboard, a device whose line a driver unmasks and one on the masked slave; NMI and one exception; 4 frames, which lets an exception and an NMI fall into an IRQ handler and fault themselves; 2 ticks and 2 bytes, so that one arrives while the other is served |
| `InterruptsLive` | every byte is read and every IRQ handler returns | as above, with a context, no key before the flush and only NMIs as exceptions |
| `Terminal` | the cursor rests on the screen, draws stray by a bounded amount, text ends at the cursor | 2 columns, 2 lines: a row to scroll from and one to scroll to; two levels of handlers above the main thread, an IRQ's and one that interrupts it |
| `Keyboard` | flags match the keys held once every byte is read; implements `ModifierKeys` | both shift keys, an escaped control key, caps lock, a letter, a symbol, a cursor key; 3 bytes waiting, so that a two-byte code is split by an interrupt and followed by another |
| `Console` | every call that wrote nothing behind `buf` prints its format, and every call returns or has stopped; only base 2 spills; a byte that is written finds room; what was printed reaches the wire in order | every format of up to two characters, longer ones with the least, the greatest, zero and all ones, with text before and behind a number that passes `INT_MAX`, and with a conversion behind a number that spills; two texts such a number may turn into, one of them empty; two levels of handlers above the main thread; a FIFO of 3 bytes, one for each level; with and without a port, and a port too slow for its self-test |
| `Entry` | `generic_handler` sees and saves the state it interrupted and is called by its ABI; `iretq` resumes that state; a page fault is reported as the CPU meant it | an IRQ, an NMI and a page fault with three error codes, two deep: the second falls on every instruction of the first one's way in and out; aligned and unaligned stacks, both direction flags |
| `Elf` | `malloc` panics for a `.bss` and for nothing else; relocations write to their section, those of ordinary files once and in order, up to the first that fails | two relocations of every supported type and one that is not, against absolute, undefined and defined symbols; the first and the last word of a section and one behind; a second section of relocations for the section next to it; with a symbol table and without; tables of 1 and 3 entries and one whose entry size is zero; a `.bss`, one of no size and one that is not allocated; 3-bit halves of a word, so that sums wrap and a value is taken for an error; 81 sets of program headers, with a good and a bad magic number |

Deadlock is not checked where the kernel really stops: by a panic, `hcf` or a
fault in `Heap`, `Processes`, `Interrupts*`, `Entry` and `Elf`, and at the end
of its printing in `Console`. `Terminal` and `Keyboard` never stop and are
checked.

Each run that ends in a violation is a finding of section 4. Its bounds are
those of the passing run of the same module, or smaller: `InterruptsBoot`
leaves out the devices and exceptions its counterexample does not need, and
`ElfDenied` the sections, because today's `elf_load_rel` skips the stages.

Fairness, used by `InterruptsLive` and `InterruptsBoot`:
weak fairness of the boot code, of handlers, of the CPU taking an interrupt it
may take, and of the keyboard controller passing on its next byte. Code runs
until it halts, the CPU looks at its interrupt line after each instruction,
and the controller is hardware that runs by itself. Nothing is assumed of the
main thread once interrupts are enabled, nor of keys, ticks or exceptions,
which need not come. `KeysAreRead` excepts a CPU that has stopped, and
`IrqsReturn` a run that an exception ends. `Console` assumes that the level on
top goes on, that the boot code before its first line does, and that the port
sends what it holds; handlers need not come, and one that halts, or was lost in
`printint`, ends what is below it (`Stopped`).

## 4. Findings

Each is a property a comment, a header or a message of the kernel states, and
a run in which TLC finds the code doing otherwise.

- `HeapPut`: `free_page` computes its index from another base than
  `get_free_page`, so freeing a page clears the entry of another one, or memory
  outside the table. Latent: nothing calls it.
- `InterruptsBoot`: `_kernel_start` enables interrupts without
  `create_proc0`; the first IRQ faults on the NULL context, and so does the
  handler of the fault, until the stack is exhausted.
- `ElfDenied`: `elf_load_rel` looks for program headers 64 times as far as
  `e_phoff` says, so one that overflows is not seen; and `_kernel_start` starts
  a process also when 0 is returned. The entry point is scaled by 64 too.

Behaviour the models reproduce and no run states as a property, because the
kernel says nothing about it or a property would only restate the line:

- `build_memmap` drops usable regions beyond `MAX_MEMORY_REGIONS`, so
  `get_free_page` may panic for want of a region the bootloader reported.
- The process in slot 0 shares its context with the kernel, so the next
  interrupt overwrites its entry registers; `ProcessPool` is promised of the
  other slots only.
- A handler that prints while the main thread has moved the row and not yet
  checked it draws one line below the screen, behind the framebuffer; one that
  interrupts that handler in the same place draws two lines below. With the
  column it is the same. `DrawsStrayLittle` is the bound that does hold.
- After a scroll the row is set one too high: the next line is drawn over the
  last one printed, and the bottom line stays empty.
- A line takes one character more than the terminal is wide, and draws it in
  column `terminal_width`.
- `create_process` returns 0, which `proc.h` reserves for failure, when only
  slot 0 is left.
- The handler acknowledges line 0 whatever the line, so an interrupt of the
  slave would stay in service there. Latent while drivers unmask lines 0 and 1
  only; `ServiceFollowsHandlers` is proved for that case.
- A byte typed before `pic_remap` has lost its edge and keeps the line high; no
  key is read afterwards. The loop "flush all pending" sends EOIs and does not
  read it. `InterruptsLive` therefore starts its keys after the flush
  (`MCAfterFlush`), and `Interrupts` does not.
- With both keys of a modifier held, releasing one clears the flag;
  `ModifiersMatch` says that this is all that is forgotten.
- `init_serial` reads the echo of its test byte at once. A port that has not
  sent it yet counts as faulty and stays in loopback: everything is printed,
  nothing arrives. Its comment has "@return 0 on success"; it returns true.
- `%b` of more than 16 bits writes behind `buf`, also in the dump, which prints
  `rflags` with it, and may then print anything or not return; `%x` and `%b` print the low 32 bits of 64-bit values.
- The report of a page fault says "present: 1" and "reserved: 0" whatever the
  error code; `ReportMatches` is about the other bits.
- `terminal_put_entry_at` starts with the mask `1 << width`, one bit too far to
  the left: the first column of a glyph is blank and its last one is not drawn.
  Glyphs are below the cells of `Terminal`.
- `elf_get_symval` takes an undefined symbol to be 0, weak or not, and
  `elf_do_reloc` a value that ends in 32 ones for an error, after it has written
  it. `RelocatedInOrder` is about the other symbols (`Ordinary`).
- `elf_check_supported`, which nothing calls, compares `e_machine` with
  `ELFCLASS64`.

## 5. Proofs

All are checked by TLAPS for every value of the constants that satisfies the
named assumptions beside them.

`ProcessesProofs` (`SizeAssumption`, `MemMapAssumption`, `ProcAssumption`; the
last has more pages than slots, as `TOTAL_HEAP_SIZE` and `NR_PROC` have):
`TypeCorrect`, `ContextsAreExclusive`, `ContextsAreAllocated`, `CountIsExact`,
`PanicsOnlyWhenFull` and the refinement `ImplementsPool`. The safety
properties together are not inductive. `StageInv` adds that the slot a call
has found stays free until it commits; `PagesBound` that used pages are at
most the live slots, the context being built and the kernel's own, from which
the pool cannot run out first; `BuiltIsFresh` that no interrupt writes to the
context being built, which the refinement needs at `Commit`. Counting uses the
library's theorems on finite sets; what one call of the allocator does is in
lemmas of its own.

`InterruptsProofs` (`InterruptsAssumption`): `TypeCorrect`,
`HandlersDoNotNest`, `DistinctVectors`, `FlagIsRestored` and the action
property `HaltStays`, for any depth of the stack, any lines and exceptions,
any masks of the bootloader. `FlagInv` says the flag is set exactly in the
main thread between `sti` and `hcf`, and `FrameInv` what each frame may be by
its depth; from both an IRQ can only be the outermost frame. With the
hypothesis `MasterOnly` (no driver unmasks the slave or the cascade, and the
bootloader leaves them masked) `ServiceFollowsHandlers` proves
`ServiceMatches`. The hypothesis is needed: with a line of the slave unmasked
its first interrupt stays in service (section 4).

`HeapProofs` (`SizeAssumption`, `MemMapAssumption`): `TypeCorrect`,
`BitmapMatchesHolders`, `PanicsAreJustified` and the refinement
`AllocatorImplementsPool`, for every heap size and memory map and for clients
that only allocate, which are all the kernel has: with one that frees,
`UsedIsHeld` fails (`HeapPut`). The inductive invariant adds to the properties that `memory_map` is what
`build_memmap` makes of the bootloader's map, and that the heap, once located,
lies within one region of it: `get_free_page` only compares lengths, and
`PagePool` speaks of addresses. The lemmas on one call are those of
`ProcessesProofs` without counting.

`TerminalProofs` (`ScreenAssumption`): `TypeCorrect`, `CursorComesToRest` and
`StraysAreBounded` for every screen and any depth of handlers. `CursorAt` and
`RegistersAt` say for each stage of level k how far cursor and registers may be
off, which is k further than for the main thread. The invariant keeps the
registers of every level within its bounds, and the cursor within those of every
level that no handler above has left in the middle of a character (`Above`): a
level that is resumed finds the cursor as it may have left it itself. The
arithmetic is done in lemmas about numbers, which the step lemmas instantiate.
`TextStaysAboveCursor` needs one more invariant, `TextInv`: until interrupts are
enabled the main thread is alone, so a row in a register is that of the cursor;
and between a scroll and the store that resets the row the text ends one line
higher than the cursor.

`EntryProofs` (`EntryAssumption`): `TypeCorrect`, `HandlerSees`,
`CalledByItsAbi`, `ReportIsOfTheFault` and the action property
`ResumesWhatItInterrupted`, for any vectors, register values, alignment and
depth. The invariant is about every level of the stack at once: an interrupted
stub at its n-th instruction has a stack that is the one it interrupted,
aligned, with the first words of the frame `Word` describes, as many as the
instructions before n have pushed and not yet popped (`LevelsOK`); and the
registers it has not changed, or has popped again, are those it interrupted.
`HandlerOK` says that `generic_handler` saved the struct it was called with, that
only the handler of a line returns, and what a report is of. That the code is stub and common part put together, that the
parameters lie on the stack in the order of `idt.h`, and that `Address` undoes
`Gate`, are lemmas. `iretq` is proved to be reached by the outermost handler
only, as those of exceptions halt.

`KeyboardProofs` (`KeyboardAssumption`): `TypeCorrect`, `ModifiersFollowKeys`
and the refinement `DriverKeepsPromise`, for any keys of the tables and any
number of bytes that wait. `ModifiersMatch` only speaks of an empty queue. The
invariant relates the keys held to those the driver knows of by the events
still waiting: `QueueOK` says the queue consists of whole codes, but for a prefix
already read, which `E0ESC` remembers; `FlagsOK` that the flags are those of
`down`; `ReleasedOK` and `HeldOK` what the last event waiting for a key says of
whether it is held. The refinement has a lemma for a make and one for a break
code, through the three maps and the swap for caps lock.

`ConsoleProofs` (`ConsoleAssumption`, whose FIFO holds a byte of every level;
`CallsAssumption` and `BufferAssumption` for the last two):
`SendsFindRoom`, `TypeCorrect`, `PrintedIsDelivered`, `FormatIsPrinted` and
`DecimalsFit`, for any depth of handlers and any formats. `SendFindsRoom` is not inductive: it says nothing
about how full a handler may leave the FIFO. `RoomOK` does: while level k is
about to write, the FIFO holds at most one byte for each level above, because
each of those found it empty first. `ControlOK` says which levels can be where,
and `DepthOK` that the FIFO is enabled by then. `Delivered` rests on that, and
on `SerialOK`: whoever finds the port initialised finds it there and out of
loopback, and nothing is printed before that is known. It is stated by
positions (`EndsWith`: the n-th character from the end of a text is the n-th
byte of its level from the end of wire and FIFO), which says the same as a
suffix of the bytes filtered by level and can be reasoned about without
induction.

`FormatIsPrinted` (`PrintsFormat`) and `DecimalsFit` (`OnlyBinarySpills`) hold
for every format, argument, width of an int and `INT_MAX`, and whatever a number
that spilt turns into. `CallsAssumption`
restricts no call: `args` is what `va_arg` would return in turn, passed or not,
and the assumption says only that the list is long enough for any format of
that length.
`BufferAssumption` says that `buf` has a place for every digit of an int in base
16, and one more than that in base 10 for the sign; 16 characters for 32 bits do.
The specification of a text, `Renders`, goes through a format character by
character and writes a number by the powers of its base (`Numeral`); the code
takes runs of literal characters and divides. Three arguments join them.
`DigitsAreNumeral`: the digits the loop of `printint` leaves are the numeral, by
induction over the number (`DigitsExist`), because the digit at a power of the
base is the same digit of the quotient one place lower (`DivisionTwice`).
`LiteralRun`: what a run prints is what its characters print one by one.
`TextOK`, the inductive invariant: what a level has printed, what is pending and
what `Renders` says of the rest of its format are together the text of its call,
and `written` counts the first two; or the level has stopped before
the end of a text longer than `INT_MAX`; or it has written behind `buf`, and
nothing is said of it any more. `PrintsFormat` alone says nothing of what remains. The
number of arguments left is part of it (`n <= 2 * m + 1`), so that `va_arg`
always finds one.

`ElfProofs` (`ElfAssumption`, `FilesAssumption`): `CountersWithinTables`,
`NoBssIsLoaded`, `AppliedInOrder` and the action property
`WritesReachTheTarget`, for any file, any number of tables and relocations and
any width of a word. `RelocatedInOrder` speaks of the end of stage 2; `WordsInv`
says for every turn of its loops that memory is what the relocations up to `i`
and `idx` leave (`Position`), and until then that it is the file's. `BssInv`
says that stage 1 has passed only sections that need no memory, and that a file
with another is never beyond it. That one turn of the loader does the job the
specification asks for joins four lemmas: `SymvalFacts`, what `elf_get_symval`
returns for a symbol that is listed and for one that is not; `UsualFacts`, that
the value of an ordinary one is never taken for an error; `PatchedIsReloc`, that
the switch writes what `Patched` says; and `DoesItsJob` puts them together. The arithmetic of
wrapping addresses is in lemmas (`WrapsOnce`, `AddAdd`), and so is that a list which has failed stays as it is (`RowSticks`,
`ThroughSticks`). `Row` and `Through` are recursive functions; that each is
what its defining equation says, and that an invariant of a fold holds
throughout, needs induction over the length of a list (`Recursion`, `Fold`).
The library's induction theorems take an operator, which cannot be
instantiated here, so `Induction` says it of a set of numbers instead and rests
on the theorem that a well-founded relation has minimal elements.

What the proofs found in the models: `KeyboardAssumption` admitted a key whose
break code is the prefix; `ModifierKeys` did not let the two alt keys share a
flag, as the code does; neither was in the small instance of the run. Both are
as the code has them now. The invariant of `Entry` had to say that an interrupt
without an error code finds 0 where a code would be, which is what the stub
pushes.

Every invariant and every action property that a passing run checks is stated
by a theorem. Only model-checked, and why:

- Liveness (`KeysAreRead`, `IrqsReturn`, `PrintfReturns`) is outside the
  prover's reach, as is `ENABLED`.

## 6. Plan

1. Done: the allocator, the process table, interrupts, terminal, keyboard,
   formatted output with the serial port, interrupt entry, the ELF loader; the
   proofs above.
2. Proofs: liveness, once the prover has `ENABLED`.
3. Models: boot, processes and interrupts composed, so that the assumption
   `context = "page"` of `InterruptsLive` is an effect of `CreateProc0`; a
   scroll cut into lines, once the kernel says what must survive it.

## 7. Running

    tlc -config Heap.cfg MCHeap.tla          # the MC module of every run but
    tlc -config Terminal.cfg Terminal.tla    # Terminal and Keyboard
    tlapm ProcessesProofs.tla

`PROJECT.json` lists the runs with their modules, the mutants, the source
lines each definition stands for, and the hazards with the properties that
cover them.

## 8. Not modelled

- Fonts, register dumps and CPU identification: constant data or printing. The
  same holds of most lines of `include/elf.h`, `limine.h` and `fonts/font.h`:
  the constants of the ELF format for every machine, the bootloader's protocol
  and the bits of a font, which together are two thirds of the sources.
- What `elf_load_stage1` does with a block: `malloc` of `vmem.c` is not
  implemented and panics (`Malloc` in `Elf`), so those lines are not reached. The
  run queue and user programs are stubs or embedded binaries.
- Code nothing calls: `switch_context`, `create_entry`, `check_apic`,
  `read_serial`, `elf_check_supported`, `pic_disable_all`, `irq_set_mask`,
  `memmove`, `memcmp`, `abort`.
- The TSS: it has no stack, no gate uses it, and its length is one too large.
- Wording and layout of messages. In `Terminal` what a handler prints is left
  open, in `Console` it is one of a few formats.
- The pixels of a glyph, and a scroll line by line: a draw and a scroll are one
  step of `Terminal`. A handler that scrolls in the middle of a scroll repeats a
  line and loses another.
- A framebuffer of fewer than two lines, where `terminal_height - 1` wraps
  below zero; `ScreenAssumption` excludes it.
- The absence of a framebuffer, which skips the screen and changes no modelled
  state; in `Console` nothing depends on it.
- Bytes a serial port receives from outside: nothing reads them.
