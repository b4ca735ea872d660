# A TLA+ model of the zonix kernel

zonix is a small 32-bit x86 teaching kernel in C.  These modules model the parts
of it that keep state over many steps: the page allocator, processes and the
scheduler, demand paging and swapping, the IDE driver with the block layer, the
console, traps, the lists underneath, and the way from the boot sector to the first
free page.  TLC checks each on small instances; TLAPS proves every safety property that
the runs check, for every size.  `PROJECT.json` holds the map from definitions
to source lines, the runs, the mutants, the hazards and the findings.

## 1. The system

| Part | State | Operations | Talks to |
|---|---|---|---|
| Page allocator (`mm/pmm.c`, `mm/pmm_firstfit.c`) | free list of blocks, `nr_free`, `property` and flags of every `PageDesc` | `init`, `init_memmap`, `alloc`, `free` | called by everything that needs memory, with interrupts off |
| Processes (`sched/sched.c`, `switch.S`) | `proc_list`, hash table, family pointers, `state`, `current`, saved contexts | `do_fork`, `do_exit`, `wakeup_proc`, `schedule`, `proc_run`, `switch_to` | allocator (two pages per task); `ps` reads the table from the keyboard interrupt |
| Interrupt flag (`drivers/intr.h`) | EFLAGS.IF | `intr_save`, `intr_restore` | processes, allocator |
| Virtual memory (`mm/vmm.c`, half of `mm/pmm.c`) | page directory, page tables, TLB, `ref` | `vmm_pg_fault`, `get_pte`, `page_insert`, `pgdir_alloc_page`, `tlb_invl` | allocator, swap |
| Swap (`mm/swap.c`, `mm/swap_fifo.c`) | FIFO of resident pages, slot counter `swap_offset`, swap area | `swap_in`, `swap_out`, `swapfs_read/write`, FIFO callbacks | page tables, disk |
| Disk (`drivers/hd.c`, `drivers/blk.c`) | devices found, devices registered, channel registers, drives | `hd_init`, `hd_read_device`, `hd_write_device`, `hd_test`, `blk_init` | swap, shell commands |
| Console (`cons/shell.c`, `drivers/kdb.c`, `drivers/cga.c`) | `cmd_buffer`, `cmd_pos`, screen and cursor | `irq_kbd`, `shell_handle_char`, `execute_command`, `cga_putc`, `cga_scrup` | every command; runs inside the keyboard interrupt |
| Traps (`trap/`, `arch/x86/idt.c`, `drivers/pic.c`) | frames on the kernel stack, `irq_mask`, `ticks`, CR2 | stubs, `_trap_entry`, `trap`, `forkret`, `pic_enable` | page faults, keyboard, timer, new processes |
| Lists (`include/list.h`, `mm/archived/`) | `next` and `prev` of every element | `list_add_*`, `list_del`; LRU and clock | allocator and replacement algorithm share `page_link` |
| Boot (`boot/`, `init/head.S`, `arch/x86/e820.c`, `page_init()`) | memory map, memory contents, descriptors | probe, `readseg`, clearing of the bss, `page_init` | hands regions to the allocator |
| Formatted output (`cons/stdio.c`) | flags and width of the directive being read | `cprintf` and its print routines | console |

What is hard in it:

* **Interrupt handlers do real work.**  The whole shell, and each command, runs in
  the keyboard interrupt.  Its gate is a trap gate and the PIC ends interrupts by
  itself, so the next key can interrupt the handler of the last one.
* **Lists are unlinked under their iterators**, in `free()`, on a list not sorted by
  address, and removed elements keep their links.
* **Traps nest at any instruction**, also inside the entry and exit code, and what the
  frame does not hold (CR2, a counter half incremented) belongs to whoever came last.
* **Arithmetic of mixed width** on a memory map of any order and alignment, and
  whole-sector reads over the ends of segments.
* **State crosses a stack switch**: an interrupt flag saved by one process is
  restored by another path.
* **One channel has one set of registers** for two drives and for nested calls, and a
  drive may answer after the driver has given up.
* **One link, two lists**: `page_link` serves the free list and the FIFO.
* **Counters wrap or drift**: `swap_offset`, `nr_free`, `ref`, `crt_pos`.

What makes the parts correct: no page is lost or owned twice, and an allocation
fails only for want of memory; the process table is sound whenever somebody can
look at it, and the dead stay dead; a page keeps its contents wherever it is; a
disk call that reports success did its work; the line that is seen is the line that
runs; interrupted code never notices; the allocator is given the usable pages, all of
them and no others.

## 2. The modules

| Module | Models | Checked by |
|---|---|---|
| `PageAllocator` | what callers rely on: a set of free pages, runs handed out and given back | refinement target of `FirstFit` |
| `FirstFit` | `pmm_firstfit.c` and its callers in `pmm.c` | `MCFirstFit` |
| `Sched` | `sched.c`, `switch.S`, `intr.h` | `MCSched` |
| `VirtualMemory` | what paging promises a program: a page reads what was last stored to it | refinement target of `Swap` |
| `Swap` | `vmm.c`, `swap.c`, `swap_fifo.c`, page tables of `pmm.c` | `MCSwap` |
| `BlockDevice` | what the block layer's clients rely on: a device that serves one request after the other | refinement target of `Disk` |
| `Disk` | `hd.c`, `blk.c` against ATA drives | `MCDisk` |
| `Console` | `shell.c`, `kdb.c`, `cga.c` | `MCConsole` |
| `Format` | `stdio.c` | `MCFormat` |
| `Links` | `list.h` under `pmm_firstfit.c`, `swap_fifo.c`, `archived/swap_lru.c`, `archived/swap_clock.c`; composes `FirstFit` with a replacement algorithm | `MCLinks` |
| `Trap` | `vectors.S`, `trapentry.S`, `trap.c`, `idt.c`, `pic.c`, `forkret` | `MCTrap` |
| `Boot` | `bootasm.S`, `bootload.c`, `head.S`, `e820.c`, `page_init()` | `MCBoot` |
| `MemoryProofs` (`FirstFit`, `Links`), `SchedProofs`, `SwapProofs`, `DiskProofs`, `ConsoleProofs`, `FormatProofs`, `TrapProofs`, `BootProofs` | the theorems about these modules (section 4) | TLAPS |

**FirstFit.**  A descriptor is its index in `pages`; the circular list is the
sequence of block heads, the list header being the place before the first.  `alloc()`
is one step with its three outcomes (`AllocFail`, `AllocExact`, `AllocSplit`).
`free()` is `FreeStart`, then one step per iteration of its loop (`MergeNext`,
`MergePrev`, `Keep`), then `FreeDone`; no other operation comes between, because the
callers hold interrupts off.  `held` and `ret` are history variables: what callers
own, and the last result.  Callers give back any run of pages they hold, not only
whole allocations.  `property` starts with arbitrary values, since nothing clears the
descriptor array before `init_memmap()`.

**Sched.**  Only the current process moves.  `do_fork()` and `do_exit()` are split
at the points where the interrupt flag is set and an interrupt handler could look.
`switch_to()` saves the place (`pc`) of one process and continues another: a new one
at `forkret`, whose `iret` loads a flag image with IF set, an old one after its own
`switch_to()`, where the two `intr_restore()` calls follow.  Today only
`init_proc_init()` calls `do_fork()`, and no process exits; the model lets any process
call both, except that idle and init never exit and idle never forks.  A NULL from the
allocator, which `do_fork()` does not test, ends in endless faults (`hung`).

**Swap.**  One address space.  User addresses, then the kernel's direct map, which
`find_vaddr_for_page()` searches too.  A fault is one step; `swap_out()` is one step
per victim.  The TLB is part of the state: the processor fills it (`Walk`), drops
entries at any time (`Evict`) and writes through it (`Write`), so a missing
`tlb_invl()` would show.  Reads and writes of the swap area may fail half-way and
leave garbage.  The in-kernel clients are the tests that the shell command `swaptest`
runs: they empty the FIFO (`SwapInitMm`), map pages and make them swappable
(`MapPage`), and at the end free a page that `swap_in()` has mapped and put on the FIFO
(`FreeSwappedIn`).  That page is then on two lists through one `page_link`; the model
records it (`misfreed`) and follows no list operation after it.  `page_insert()` without
memory for a page table, whose result the tests do not look at, is left out.  The
allocator below is the abstract one, for single pages.  `written` is a history
variable.  What a process reads in a page, through TLB, tables and swap area
(`Contents`), is the memory of `VirtualMemory`: faults come and go without a trace
there.  The one exception is part of that specification: once the swap area's slots
have all been used, a write to it may change pages that are swapped out, never one that
is mapped.

**Disk.**  Two drives share the registers of a channel.  Each poll, register write
and transfer is a step, and a poll looks at the *selected* drive, as the hardware
does.  A timeout may come whenever the condition polled for does not hold.  Drives
are external: busy as long as they like, then data phase or error; after they took
the data of a write, they store it or fail to (`MediaErrors`), which `failed`
remembers; `asked` remembers which data callers have asked to write where.  An absent drive
reads as 0/0xFF ("none"), or as an idle drive on emulators that keep registers for
it.  Calls form a stack, because `disktest` can run in the keyboard interrupt; its
reads and writes are separate calls in the model.  Without nesting the running call is
the request of `BlockDevice`, which has no registers, drives or polling: a request
fills its buffer sector by sector, stores settle at any time (those of a request that
failed, too), and success means that everything is in place.

**Console.**  Handlers of keys form a stack for the same reason.  The test of
`cmd_pos`, the store with its advance, and the echo are steps of their own.  The
screen is the visible cells of `crt_buf`, which are the only ones the code reads, and
`crt_pos`, a number of 16 bits that nothing checks.  `cga_putc()` scrolls on a newline
only, so a character written in the last visible cell takes the cursor off the screen;
from there a newline takes back one row at most, and more such characters move `crt_pos`
on, past the end of video memory and at last through its overflow to the top of the
screen.  The model follows it all the way.  `full` (something was written in the last
visible cell) and `over` (`crt_pos` has overflowed) are history marks.  A store that is
not visible changes no state of the model: 2^16 cells of two bytes from 0xB8000 end below
the kernel, in adapter memory and ROM.  Command texts are abstracted to one cell and a
newline, an unknown command's message repeats the line; the names keep the one thing
dispatch depends on, that one name can begin another.  The model starts after the first
prompt.

**Format.**  `cprintf()` reads its format as a state machine, one character a step.
The format is chosen while it is read, among the directives the kernel uses: flags,
width, `l`, conversion.  Arguments are words of `WordBits` bits, two of them for `l`.
`PrintsAsC` compares the result with a reference that defines C's digits (small letters
from ten) by position and a field by its width, not by the recursion of the code.  In two
respects `cprintf()` is not C's `printf`, and the property says so: hexadecimal digits
are capitals, as C's `%X` has them; and a `0` inside a width is taken for the padding
flag, so what is printed for `%-10s` (`shell.c:36`) is what C prints for flags `-` and
`0` and width 1.

**Links.**  Extends `FirstFit`: each of its actions is taken together with the stores
it makes to `next` and `prev`, which are computed from the pointers alone, so the
sequence `free_list` and the index `prev` are compared with the pointers and never
used for them.  Beside it one of three replacement algorithms (`mgr`) puts pages that
callers hold on its list, through the same `page_link`, and takes victims off again.
`queue` is a history variable: the pages in their order.  `list_del()` leaves the
removed element's links alone, which matters twice: `free()` goes on from an element
it has just removed, and LRU takes links for membership.  Callers may free any page they
hold, one of the replacement list included, as the swap tests do; when that `free()` has
linked its block, the two lists are mixed up.  Then, and when LRU unlinks a page by
stale links and changes some list by it, or by what it finds in a page that was never
linked, `torn` is set and the model stops.

**Trap.**  Each instruction that moves the stack pointer is a step; the stack is a
sequence of words, each a pair of what was meant and a number, and an instruction
takes the word it finds.  The general registers are one value, as `pushal` saves them
together.  Gates are trap gates and the controllers end interrupts by themselves, so
an interrupt may come at every instruction with IF set.  `ticks++` is a load and a
store.  Kernel code outside handlers changes registers and IF at will; it and shell
commands may fault.  `FirstRun` is the start of a new process by a frame made by hand;
`iret` to the same privilege level leaves the frame's `esp` and `ss` on the stack.
`saved`, `timers` and `overlap` are history variables: the interrupted contexts, the
timer interrupts, and whether one came inside another's `ticks++`.

**Boot.**  Memory is a row of cells, a few to a sector and to a page; `W` cells stand
for 4 GiB, and the rounding macros work modulo `W` while the map's addresses are wider.
The BIOS reports entries in any order and alignment and may fail.  The kernel file is
one of several layouts that the linker script allows (`LinkerAssumption`); `readseg()`
reads sector by sector, and cells remember where they come from.  `page_init()` counts
pages, marks descriptors and registers entry by entry.  Where the kernel would leave
the memory the boot page table maps, or walk over what is no map entry, the model ends
(`lost`).

In every module an operator marked "Mutant" is a plausible bug; no specification
uses it.  It exists to show that the property it is paired with would notice.

## 3. The runs

| Run | Result | Distinct states | Shows |
|---|---|---|---|
| `firstfit` | pass | 68 thousand | allocator: no page lost or owned twice (`Partition`), `FreeCount`, `ReservedMarksHeads`, complete merging (`Coalesced`), no false failure, refinement of `PageAllocator`, `free()` ends |
| `sched` | pass | 3.7 thousand | process table sound wherever a handler can look (`FamilyTree`, `TableConsistent`), one RUNNING process, interrupts on after each switch, children handed over, zombies never run again |
| `sched_round_robin` | violation | | a runnable process starves |
| `swap` | pass | 668 thousand | frames accounted for, `page_link` on one list (both but for a page a test has misfreed), TLB coherent, contents kept until the slot counter wraps, `Swap` implements `VirtualMemory` past the wrap, too |
| `disk` | pass | 826 thousand | commands reach idle drives, only requested sectors change, to requested data, success means the data is there unless the drive failed to store it, each call ends, `Disk` implements `BlockDevice` when calls do not nest |
| `disk_nested` | violation | | a nested call makes the outer one succeed without its data on disk |
| `console` | pass | 2.2 million | what is visible before the cursor is prompt and buffer, and all of it is visible until the last cell of the screen is written; Enter runs what was typed; clear clears |
| `console_nested` | violation | | a key inside a key's handler moves `cmd_pos` out of the buffer |
| `format` | pass | 2.1 million | `cprintf()` prints what C's `printf` would (capitals in hexadecimal), directive by directive, and what it makes of a width with a 0 in it |
| `links` | pass | 2.5 million | until a queued page is freed or LRU tears a list, both rings are the sequences other modules take them for, although they share `page_link` (`RingsSound`); `free()` iterates correctly over elements it removes (`IterationInStep`) |
| `trap` | pass | 4.9 million | a handler finds the cause of its own trap, ticks are exact up to overlaps, `iret` restores the interrupted context |
| `boot` | pass | 1.2 million | the kernel in memory is the kernel as linked; the regions are exactly the usable pages |

### Bounds, and why they are enough

* `firstfit`: two regions of 4 and 2 pages around a hole, requests of 1 to 4 pages.
  A merge involves at most three blocks (before, freed, after); four pages in one
  region give all orders of them on the list, and the second region shows that
  nothing merges across the hole.
* `sched`: 6 PIDs beyond idle, 11 pages, so memory runs out while the last child is
  made.  Three generations and three siblings fit, which are the cases of the four
  sibling pointers.  `sched_round_robin` needs one process beside init.  `calls`
  is a parity bit, so that calls of `schedule()` that change nothing else are steps.
* `swap`: three user pages over two page tables, three frames (fewer than pages plus
  tables), two slots, batches of two, four pages swapped out: memory runs out,
  frames are reused while their former page is on disk, the counter wraps, and the third
  and fourth page swapped out meet slots that may still be in use.  Values are
  symmetric: the code never looks into a page.
* `disk`: both drives of a channel, two sectors, calls of one or two sectors, all four
  combinations of fitted drives, drives that fail a store.  One datum is enough to tell
  a sector that was written from one that was not; that a late store brings *which*
  data is left to the proof, which is for any set of data.
* `console`: a line of up to 4 characters on rows of 3 cells, so that lines wrap;
  10 keys, so that a line is edited, run and followed by another.  `crt_pos` has 13
  values on a screen of 9 cells: it leaves the screen and overflows within these keys.
* `format`: all words of four bits and all pairs of them (values up to three decimal
  digits, negative ones included), two directives in a row, widths 0, 3, 33 and 30,
  every set of flags.
* `links`: regions of 3 and 1 pages, requests of 1 and 2.  Rings of up to four
  elements, every order of them, removal at both ends and in the middle, two removals
  in a row by one `free()`, and pages that go from one list to the other and back.
* `trap`: vectors with and without an error code (3, 17, 14, 128), lines of both
  controllers, an open and a masked one among them, three handlers on the stack, four
  traps in all.  A handler sees at most what one nested trap leaves; the third level
  shows that nesting in a nested handler adds nothing.
* `boot`: layouts with shared and separate pages, with and without bss, segments that
  start inside a sector; up to two entries that are aligned and not, RAM and not, below,
  across and above the kernel and across 4 GiB.

`CHECK_DEADLOCK FALSE` appears where the system may really stop: `Sched` (the machine
hangs when memory is gone), `Disk` (no drive found), `Console` (no more keys), `Format`
(end of the format), `Links` (a list is torn) and `Boot` (booted, or lost).

### Fairness

* `FirstFit`: weak fairness of the steps of `free()`'s loop only: a call that has
  begun goes on.  No caller is obliged to allocate or free.
* `Sched`: weak fairness of the steps inside `do_fork()` and `do_exit()`, of the boot
  code's one fork, and of `schedule()`, which the loops of idle and init call for
  ever.  Nobody is obliged to fork or exit.
* `Disk`: weak fairness of the driver's steps.  Drives get none: `CallsEnd` holds for
  a drive that never answers.
* The other modules state no liveness.

## 4. What is proved

Each theorem holds for every value of the constants that the module's `ASSUME`s
allow: any number of pages, processes, drives, keys, any screen, memory map, set of
vectors and depth of nesting.  A property named in the second column is the one that
the run of the module checks on a small instance.

| Module | Theorem | Property | Says |
|---|---|---|---|
| `MemoryProofs` | `TypeCorrect` | `TypeOK` | types; callers hold pages of registered regions only |
| | `PartitionHolds` | `Partition` | free blocks, the block in `free()`'s hands and held pages partition the managed pages |
| | `FreeCountHolds` | `FreeCount` | `nr_free` is the number of pages on the list, except inside `free()` |
| | `ReservedHolds` | `ReservedMarksHeads` | exactly the heads of free blocks carry `PG_RESERVED` |
| | `CoalescedHolds` | `Coalesced` | free blocks are never adjacent outside `free()` |
| | `NoFalseFailure` | `FailsOnlyWhenFull` | `alloc()` returns NULL only when no free run is long enough |
| | `Refinement` | `ImplementsPageAllocator` | `FirstFit` implements `PageAllocator` |
| | `RingsAlwaysSound` | `RingsSound` | the pointers of both lists are rings, until a queued page is freed or LRU tears one |
| | `IterationAlwaysInStep` | `IterationInStep` | `free()` meets each block once |
| `SwapProofs` | `TypeCorrect` | `TypeOK` | types |
| | `FramesAccountedAlways` | `FramesAccounted` | each frame is free, a page table, or mapped once; one that a test misfreed is free and mapped |
| | `FifoOwnsLinksAlways` | `FifoOwnsLinks` | faults and `swap_out()` never put a page on the FIFO and the free list; only one that a test misfreed is on both |
| | `TlbCoherentAlways` | `TlbCoherent` | no stale translation survives |
| | `DataIntactBeforeWrap` | `DataIntactUntilWrap` | contents survive until the slot counter wraps |
| | `Refinement` | `ImplementsMemory` | `Swap` implements `VirtualMemory`, past the wrap too |
| `SchedProofs` | `TypeCorrect` | `TypeOK` | types |
| | `TableAlwaysConsistent` | `TableConsistent` | list, hash table and counters agree |
| | `FamilyTreeAlways` | `FamilyTree` | sibling chains hold exactly the children |
| | `RunningIsAlwaysCurrent` | `RunningIsCurrent` | one RUNNING process, the current one |
| | `InterruptsAlwaysRestored` | `InterruptsRestored` | interrupts come back on, across stack switches |
| | `NeverOrphans` | `NoOrphans` | no child of a zombie that is gone |
| | `ExitNeverPanics` | (part of the next) | the panic in `do_exit()` is unreachable |
| | `ZombiesAlwaysDead` | `ZombiesStayDead` | no step revives a zombie or takes it to the panic |
| `DiskProofs` | `TypeCorrect` | `TypeOK` | types; calls stay inside their buffers and sectors, however deep they nest |
| `DiskProofs`, one call at a time | `CommandsAlwaysHeard` | `CommandsAreHeard` | no command goes to a busy drive |
| | `OnlyAskedSectorsAlways` | `OnlyAskedSectors` | only sectors to be written ever change, to what was to be written |
| | `ReadAlwaysDelivers` | (part of `Refinement`) | a read that succeeds filled its buffer |
| | `WriteAlwaysLands` | `WriteLands` | a write that succeeds is on the disk, unless the drive failed to store it |
| | `Refinement` | `ImplementsBlockDevice` | `Disk` implements `BlockDevice` |
| `ConsoleProofs`, one key at a time | `TypeCorrect` | `TypeOK` | nothing is stored outside `cmd_buffer`; of `crt_pos` only its width |
| | `EchoAlwaysFaithful` | `EchoFaithful` | what is visible before the cursor is prompt and buffer; all of it, until the last cell of the screen is written |
| | `AlwaysRunsWhatWasTyped` | `RunsWhatWasTyped` | Enter runs the line as edited, and the longest name that fits it |
| | `ClearAlwaysLeavesPrompt` | `ClearLeavesPrompt` | `clear` leaves nothing but the prompt visible, until `crt_pos` has overflowed |
| `FormatProofs` | `AlwaysPrintsAsC` | `PrintsAsC` | each directive prints what C's `printf` would, but for capitals in hexadecimal and a 0 inside a width, and takes its own arguments |
| | `PrintDigitIsPadded` | | `print_digit()`, padding as it recurses, prints the numeral in a field of the right width |
| `TrapProofs` | `HandlerSeesCauseAlways` | `HandlerSeesCause` | a handler reads its own trap's vector, error code and address |
| | `TicksExactAlways` | `TicksExact` | ticks are exact up to overlaps |
| | `ContextAlwaysRestored` | `ContextRestored` | `iret` restores what was interrupted |
| `BootProofs` | `KernelAlwaysIntact` | `KernelIntact` | the kernel in memory is the kernel as linked |
| | `RegionsAlwaysSound` | `RegionsSound` | the regions are exactly the usable pages |

### Assumptions

* `FirstFit`: `NPages` is a natural number; regions lie within the descriptor array,
  are not empty, and are pairwise disjoint with at least one page between them (two
  touching regions of one e820 map would be merged by a later `free()`, not by
  `init_memmap()`, so `Coalesced` would not hold for them); requests are positive;
  `Null` is no page.  `Links` adds only that the two list headers are
  two and neither is a page or `Null`.
* `Swap`, `Sched`: sizes are natural numbers, and `Null`/`None` is none of the
  things it stands for the absence of.  The slots fit the 24 bits a swapped-out entry
  has for them.  The bounds on batches and swap-outs may be any number.
* `Disk`, `Console`: the theorems other than `Disk`'s types assume `MaxNest = 1`.
  This is no convenience: with
  2 such properties are false, and the runs `disk_nested` and `console_nested` show how.
  What is proved is that without nesting nothing breaks them.
* `Console`: the prompt holds no control character; `crt_pos` can number at least one row
  more than is visible; no name
  in the table comes before one that it begins in whole words.  `shell.c:117-129` keeps
  that order ("uname -a" before "uname"), and `AlwaysRunsWhatWasTyped` is false
  for a table that does not.
* `Format`: a word has at least one bit; argument words are words; strings are sequences
  of characters; a width is spelled with any of the ten digits and does not begin with 0.
* `Trap`: page faults are not among `Exceptions`, as they have an action of their own.
* `Boot`: `LinkerAssumption` is what `tools/kernel.ld` gives: ascending segments,
  addresses and offsets that agree within a page, bss last.  The kernel ends a page or
  more below the 32-bit limit, so that the loader's rounding does not wrap.

### The arguments

None of the properties is inductive.  Each module of proofs defines `IInv`, in named
parts, proves one lemma per action, with a step for each part the action disturbs, and
derives the properties from it.  TLC checked every `IInv` on all reachable states of
an instance before it was proved (`Swap` 668 thousand states, `Trap` 471 thousand,
`Disk` 5.2 million, `Boot` 1.2 million, `Links` 2.5 million, `Console` 2.2 million,
`Sched` with four PIDs).

*FirstFit.*  `Partition` and `Coalesced` are not inductive: while `free()` runs,
`Coalesced` is false, and whether it is true again at the end depends on what the
loop has already passed.  `IInv` therefore speaks of blocks pairwise:

* `ListInv`: heads on the list are distinct, their blocks are non-empty and managed,
  no page of one is held, and any two are `Apart` (disjoint and not adjacent);
* `ScanInv`: inside the loop, the block `base..base+n-1` is `Clear` of
  (disjoint from) every block, and `Apart` from those up to `prev`.  That is why one pass is
  enough on an unsorted list: the block grows only by swallowing a neighbour, and
  the other blocks were `Apart` from that neighbour, so nothing already passed can
  become adjacent;
* `CoverInv`: a managed page is held, in a block of the list or in `free()`'s hands;
* `BootInv`: nothing has been allocated before all regions are registered;
* `ReservedMarksHeads`, `FreeCount`, `FailsOnlyWhenFull` and `TypeOK` themselves.

`FailsOnlyWhenFull` follows from `Apart`: a run of free pages lies within one block.
The refinement maps the free set of `PageAllocator` to the pages of the list, and every
loop step other than the last to a stutter.

*Swap.*  Frames are accounted for by counting in the property, and by entries in the
invariant: a mapped frame is not free and mapped once (`MapInv`), page tables are
private (`TableInv`), nothing is lost (`CoverInv`).  `DataIntactUntilWrap` needs
`SlotInv`: until the wrap every slot in use is below `swap_offset`, so the next page out
meets an unused one.

The refinement of `VirtualMemory` needs no invariant about slots: `ReadsInv`, which
follows from `IInv`, says that a page reads its frame when mapped and its slot when not,
because a cached translation is the table's (`TlbCoherent`).  A fault that allocates is
`Appear`; `swap_in()` moves what is read from slot to frame; `swap_out()` writes one
slot, and every page that reads differently afterwards is another one in that slot,
which before the wrap does not exist.  A step that touches neither the page's entry nor
what it points to (`SameReads`, `OtherReads`) is a stutter for it.

*Sched.*  `FamilyTree` walks the `optr` chain with a recursive function and is false in
the middle of `do_exit()`'s loop.  `FamilyInv` says instead that each process has a
sequence of children that the four pointers lay out, but for the head's `yptr` while the
loop runs; moving a child is then `Tail` on one sequence and a new first element on
another.  That the walk returns the sequence is proved by a least counterexample on
the distance to the end.  `PlaceInv` (everybody but `current` is parked inside
`switch_to()` or has never run) and `IntrInv` (whoever is parked there saved an
enabled flag) carry the rest.

*Disk.*  `PhaseInv` ties the program counter of the call to the drive: which drive is
selected, what its register holds, whether it may be busy.  `DriveInv` is what makes
late answers harmless: a drive that is not selected is idle, and a write a drive may
still store was asked for, with these data.  `DoneInv` holds the sectors behind the
loop index.  In the refinement a poll, a register write or a drive's answer is a stutter,
`insw()` fills one sector (`Fill`), a drive's store is `Settle`, since `DriveInv` says
that somebody offered the data for that sector, and the end of the loop is `Succeed`,
since `DoneInv` then covers the whole buffer.  Types hold for any nesting by an invariant
of their own, `NestedInv`: each call of the stack keeps its place in its buffer, and what
it leaves in the registers for another is still a sector and a drive.

*Console.*  `EditInv` says what the buffer lacks of the line the user means in every phase
of a handler.  `EchoInv` is stated from the cursor backwards, since the cursor may be
anywhere: of the cells before it those that are visible hold the end of the prompt and of
what was echoed (`Before`), and while nothing was written in the last cell (`full`) there
is room for all of it.  That is what survives scrolling, a cursor off the screen, and an
overflow.  `Good` is why the cursor is on the screen until then, and why nothing is
visible behind it until `crt_pos` overflows (`over`), which `clear` needs: a newline
shifts all cells, so the lemmas follow the blank region row by row (`ScrolledBlank`,
`NewlineRow`, `NewlineGood`), and `clear` is an induction on newlines (`Newlines`).
`PosInv` puts the cursor at the beginning of a row while a command runs.
`FirstIsLongest` is the fact about the command table.

*Format.*  `FInv` adds to `PrintsAsC` what the state machine knows in the middle of a
directive: `width` is the number its digits spell so far and each flag is set exactly if
its character has been read (`DirectiveInv`).  The rest is arithmetic on the print
routines, by induction on the number: dividing by the base takes off the last
digit of the positional numeral (`NumeralDivided`), so `print_digit_no_pad()` prints the
numeral, `get_num_digits()` counts it and `print_digit()` fills it up to the width; the
cases of sign, alignment and padding follow (`PrintSignedNumIsField`).

*Links.*  On top of `FirstFit`'s invariant: the links of each list's nodes are a ring
(`RingInv`), the two rings share no page, because queued pages are held or being freed (`QueueInv`),
and `le` and `prev_le` are the two sides of the gap where the loop stands (`LoopInv`).
Nothing is said of links outside the rings; that is how stale links may be kept.

*Trap.*  `StackInv` describes the whole stack: how many words of its frame each handler
has there at each instruction, and what they are.  `TickInv` counts the handlers
between the interrupt and the store of `ticks` (`Pending`), level by level.

*Boot.*  `ReadInv` is that the sector to read next belongs at `va`: the distance of file
and memory is the segment's.  A sector that reaches into a neighbour segment's page
brings the right bytes, since two segments share a page only with the same distance.
`CountInv` and `RegionInv` carry `page_init()`'s two loops.

Induction over data is done through the well-ordering of the naturals: a set of
counterexamples would have a least member (`NatMin`, `UpTo`).  The recursive functions
of `Format` are unfolded by one lemma, `Recursion`: what is defined by its values at
smaller numbers exists.

### Only model-checked

* `FreeTerminates`, `ExitLeaves`, `CallsEnd`: liveness is out of the prover's reach.
* The three properties that the code violates (section 5) have counterexamples, of
  course, and no proof.

## 5. Findings

Where code and documentation disagree, a run shows it:

* `sched_round_robin`: every search of `schedule()` starts at the head of the list.
* `disk_nested`: register sequences of two calls interleave.
* `console_nested`: `cmd_pos` is tested and changed with interrupts on.

Some properties hold up to a named exception, and the exception is a defect of the
code that the model reaches:

* `DataIntactUntilWrap`: once `swap_offset` has wrapped, a slot is reused while a
  swapped-out page is still in it (`DataIntact` alone is false), against
  `kern/mm/swap_test.c:465`, "Data integrity verified".
* `WriteLands`: the wait after a write tests BSY and DRDY only, so a store the drive
  reports as failed returns 0, against `docs/DISK_GUIDE.md:151`.
* `FifoOwnsLinks`, `FramesAccounted`, `RingsSound`: the swap tests free a page that is
  mapped and on the FIFO (`kern/mm/swap_test.c:239`, `:471`, `:540`).
* `EchoFaithful`: a character in the last cell of the screen does not scroll, and the
  lines that follow are typed out of sight; `ClearLeavesPrompt`: a `crt_pos` that has
  gone on from there overflows at last.
* `PrintsAsC`: a 0 inside a width is taken for a flag; `%-10s` in `shell_help()` is read
  as width 1.
* `RingsSound`: `swap_lru.c` takes links for membership ("If it's already in the list,
  remove it first").  Allocate two pages and give the first to LRU: its stale links
  still name its former neighbours, and unlinking it again takes a block out of the
  free list.  `archived/README.md:37` calls the file "fully functional and tested".
* `HandlerSeesCause`: `pg_fault()` reads CR2 after printing the frame with interrupts
  on; a fault of a shell command in between makes it map the wrong address.
* `TicksExact`: two timer interrupts that overlap in `ticks++` count once.
* `RegionsSound`: an entry of RAM without a whole page behind the descriptors gives
  `limit < addr` after rounding and a huge count; RAM at or above 4 GiB is cut to 32
  bits (`Handled` names both).

Met while reading, without a run: `blk_init()` takes the count of drives for a highest
number, so drives after a gap are not registered, against the comment at
`kern/drivers/blk.c:31`; a failed e820 probe leaves 0xFFFF as the number of entries;
`bootasm.S:77` and `:81` load OCW3 from memory, for want of a `$`; RAM beyond the
direct map is registered too; nothing limits how deep interrupts nest; zombies and
their stacks are never reaped, as there is no `do_wait()`; `get_pte()` may return NULL,
which the fault handler does not test; `secno + nsecs` in `hd.c:166` can wrap for sector
numbers no caller uses; `PG_RESERVED` marks heads of free blocks, not
reserved pages as `docs/STRUCTURES.md` says; `ref` is never decremented; a failed
write counts in the result of `swap_out()`; the fault handler maps address 0, which
`docs/MEMORY.md` says is never mapped;
`hd_read_device()` and `hd_write_device()` poll the drive selected last before they
select their own, so with a master and no slave, where `hd_init()` leaves the absent
slave selected, they give up (an absent drive reads as 0, never as ready).

## 6. Abstractions worth knowing

* Lists are sequences (which `Links` justifies for the two in memory management), the
  hash table is a set, a page's contents one value.
* Addresses are page numbers.  Flag bits of page-table entries other than P are left
  out; with CR0.WP clear, the kernel writes read-only pages too.
* `Swap` and `Disk` are not composed: a transfer of a slot succeeds or fails as a
  whole with the target in an arbitrary state.  `BlockDevice` allows more in one case: a
  store of a write that failed may still land later.  The slot of a failed write is the
  slot of the next one, which may then find it changed before its own data arrive.
* The allocator in `Swap` and `Sched` is that of `PageAllocator` for single pages
  (a set, or a number).  The proved refinement is what justifies it.
* A character printed is one step; processes that print while the shell echoes are
  left out.

## 7. Plan

1. `FirstFit`, its abstract specification and proofs: done.
2. `Sched`, `Swap`, `Disk`, `Console`, `Format` and their runs: done.
3. `page_init()` and what comes before it (`Boot`): done.
4. `list.h` at pointer level (`Links`): done for the allocator and the replacement
   algorithms; `proc_list` and the hash table use the same operations.
5. Traps (`Trap`): done.
6. An abstract memory that `Swap` implements (`VirtualMemory`) and an abstract device that
   `Disk` implements without nesting (`BlockDevice`): done, with proofs.
7. Proofs for all modules: done (section 4).
8. Left: printing character by character, with processes and the echo writing to one
   `crt_pos`; a composition of `Swap` with the device of `BlockDevice`, eight sectors a
   slot.

## 8. Not modelled

* A20, the descriptor tables and the switch to paging in `bootasm.S` and `head.S`:
  straight-line register programming without a state that anything below reads again.
* The CMOS clock and the timer's divisor in `pit_init()`: the time read is not used.
* `inb`, `outb` and the other wrappers of `io.h`, constants of the hardware headers,
  structures nothing uses (task state segment): no behaviour of their own.
* The self test of the allocator, `panic.c` and most of `swap_test.c`: read for what
  callers do and what is asserted.  What the swap tests do to pages and lists is in
  `Swap`; what allocations and swap-outs do once a page is on both lists is not.
* What a store beyond video memory does.
* Texts of messages, `print_pgdir()`, `lsblk`: output only.
* User mode: there are no user processes; system calls enter and return in `Trap`.

## 9. Running

    tlc -config MCSwap.cfg MCSwap
    tlapm SwapProofs.tla

The modules of proofs are `MemoryProofs`, `SwapProofs`, `SchedProofs`, `TrapProofs`,
`DiskProofs`, `BootProofs`, `ConsoleProofs` and `FormatProofs`; each is checked on its
own.
