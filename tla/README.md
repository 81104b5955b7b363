# A TLA+ model of CrabOS

CrabOS is a small x86-64 kernel in Rust: preemptive tasks written as futures, page
contexts and kernel objects with handles, a FAT16 file system over an IDE disk, a
heap with fallible allocation and a B-tree map that reports when memory runs out.
It runs on one processor. This directory holds TLA+ modules that model the kernel,
TLC configurations that check them on small instances, and proofs, checked by
TLAPS, for every value of the constants. `PROJECT.json` lists components, runs,
mutants, the lines each definition models, findings, hazards and theorems.

    tlc -workers 2 -config MCScheduler.cfg MCScheduler     # a run
    tlapm SchedulerProofs.tla                              # the proofs

Paths below are relative to `kernel/src` unless they start with `alloc_collections`.

## 1. Inventory

| component | state | operations | what makes it correct | module |
|---|---|---|---|---|
| task scheduler (`task.rs`) | `TASKS`, `TASK_STATES`, `TASK_FUTURES`, `CURRENT_TASK`, `NEXT_TASK_ID` | `spawn`, `switch`, `run_loop`, `TaskResume::poll`, `dispatch_syscall` | each task behaves as if it had a processor to itself; the three maps agree; nobody starves | `Scheduler`, `VirtualCpus` |
| traps (`interrupt.rs`, `isrs.asm`) | the saved frame, interrupt flag, PIC | timer, keyboard, system call, exception | a switch never mixes registers or address spaces | `Scheduler` |
| keyboard (`device/keyboard.rs`) | buffer of 32 scancodes | interrupt, `read_scancode` | bounded, in order, delivered | `Scheduler` |
| physical pages (`mem/phys.rs`) | reference counts, free list, bump pointers, regions | `phys_init`, `alloc`, clone and drop of `Phys` | counts are exact; what is free is unused; every page has a counter before it is counted | `Memory`, `Boot` |
| page tables (`mem/page.rs`) | four levels of tables, `cr3`, the TLB | `map`, `unmap`, `modify`, `set_ctx`, new and drop of `PageCtx` | what programs allocate is theirs alone, the kernel half is the same everywhere; no stale translation is used | `Memory`, `Boot` |
| memory system calls (`syscall.rs`, `mem/user.rs`) | none of their own | alloc, release, modify, map_physical, contexts, handles | validated ranges stay valid; a failure half way loses nothing | `Memory` |
| file system (`fs/fat16.rs`, `fs/vfs.rs`, `device/mbr.rs`) | volume geometry, position of an open file | mount, open, read, write | a read delivers the next bytes of the file; an open finds what is there; nothing outside the volume is read | `Fat16` |
| disk driver (`device/ide.rs`) | open flags, I/O ports | open, drop, `read_sectors`, `detect` | ports are used in turn; every wait ends | `Ide` |
| async mutex (`sync/async_mutex.rs`, `util/atomic_list.rs`) | flag, lock-free list of wakers | `lock`, drop of the guard | exclusion; no lost wake-up; the list survives reuse of blocks | `AsyncMutex` |
| heap (`mem/kvirt.rs`, `mem/kalloc.rs`, `sync/arc.rs`) | next page, free lists of nine size classes, counts | `alloc`, `free_layout`, `Box`, `Arc` | blocks tile the pages and never overlap; a block fits its value | `Heap` |
| objects (`object.rs`) | a table of handles for each task | `put`, `get`, `release` | counts are exact; a handle keeps its object; what a failed insert loses is bounded | `Objects` |
| B-tree map (`alloc_collections/src/btree`) | nodes, root, height, length | `get`, `insert`, `remove`, `range`, iterators, `into_iter`, drop, `clone`, `split_off`, `append` | shape, order and contents after every split, merge and steal; iterators return each key once, from both ends; nothing leaks | `BTreeMap`, `BTreeBulk` |
| critical sections (`critical.rs`, `sync/mutex.rs`) | the interrupt flag, `locked` of each mutex | `begin`, `lock`, drops | no path and no interrupt meets a locked mutex; interrupts are enabled again | `KernelLocks` |
| interrupt controller (`interrupt.rs`, `isrs.asm`) | requests and interrupts in service | delivery, acknowledgement | it is told of the right interrupt at the right time | `KernelLocks` |
| console (`console.rs`, `console/vga.rs`, `util/mod.rs`) | pixels, row and column | `print`, `write`, scrolling, `utf8_valid_parts` | the screen shows the last lines of the text | `Console` |
| user ranges (`mem/user.rs`) | none | `PageRange::new`, `containing`, `validate_map`, `validate_available`, borrows | covers exactly the bytes asked for, in user space; a borrowed buffer stays | `UserBuffers` |
| boot (`start.asm`, `mem/phys.rs`, `main.rs`) | page tables, regions, counters | `map_kernel`, `phys_init`, `console_init`, `init_ref_counts`, `init_kernel_pml4_entries` | it leaves the state that allocator and page contexts start from | `Boot` |
| boot loader, B-tree set, syscall argument conversion, `EarlyInit`, derive macro | none, or set once | | | not modelled (section 6) |

How they interact. The timer and the system call instruction enter `interrupt`, which
calls `task::switch` or `dispatch_syscall`; `switch` polls futures, and a polled future
runs a system call, which uses pages, handles, files or spawns a task. Everything
that allocates goes to the heap, which takes pages from `phys` and maps them with
`page`. Tasks and handles are kept in B-tree maps. Shared state is protected by
critical sections; the only thing that waits is the read of the console, polled
at every switch, and the `AsyncMutex`.

What is hard here: the timer preempts user code at any instruction; a task that waits
is only represented by its future and its entry in a map; every allocation may
fail, between any two steps of an operation, and the code must undo what it did; a
drive changes its state between two reads of a port; the lock-free list reuses
addresses; handlers run with interrupts enabled and nest; numbers of programs can
wrap around the address space; the kernel changes page tables of its own half while
any context may be loaded.

## 2. Modules

Every module starts with a comment on what it abstracts. `MCx` extends `x` and only
defines values for its constants (`MCBTreeMap` also has the scripts of calls). Operators that begin with `Bug` are mutants: each
is a plausible mistake in the definition after it, and shows that a property can fail.
No specification uses them.

**Scheduler** has one action for each thing the processor can do next. `kpc` says where
it is: `User`, `Save` (start of `switch`), `Find` (the next work item), `Run` (a poll), `Panic`.
`UserStep`, `PitInterrupt`, `DispatchSyscall`, `CpuException`, `KeyboardInterrupt` are the
interrupts and `Kernel` collects the steps of the kernel. Registers are a pair of an
abstract program counter and `rax`. A future is the place it is suspended at
(`Start`, `TaskResume`, `ReadScancode`) with the frame it carries. System calls that change the
scheduler are actions (`set_page_context`, `create_task`, `read_stream`, `exit`); the
others only return a result.
`spawn` has five allocations, and any of them may be the first to fail (`Spawn`, `SpawnTask`). An insert
that cannot split a leaf changes nothing else and is rolled back. One that fails further up
(`alloc_collections/src/btree/map.rs:2180`) has already cut the node, and the entries from some id on are gone from
this one map: `cut` chooses the id, `SplitKeeps` and `SplitLoses` are how many entries at least stay and go.
The `Arc::new` at `task.rs:85` does not fail but panics (see KernelLocks). The history variable `lost` has the ids of which
entries were lost or left behind; a caller that has lost its own state panics in `run`.

**VirtualCpus** is what the scheduler promises: every task has registers of its own; the
one that runs executes, enters a call and gets exactly one answer. `Scheduler` maps
`regs[t]` to the processor's frame, the saved state or the future, whichever has them,
and `EveryTaskHasItsOwnCpu` says that this implements the abstract specification. Its step `Lose` is what running out of memory
may do: tasks other than the init task vanish, and those that stay keep their registers.

**Memory** names a page context by its PML4 page. `rc`, `free` and `bump` are the
allocator; `tables` and `entries` what the page tables hold; `strong` counts the
references of a page context object; `tlb` the cached translations of the current
context; `held` the `Phys` the running call has in a local variable. Calls that loop
over pages take a step for each page and for each level of table (`LoopAlloc`,
`MapTable`, `MapTableFails`, `MapEntry`), so that an exhausted memory meets them
everywhere. `map_physical_memory` maps a page of a device or any other page, with low bits that
may be odd flags (`LoopPhysical`); an entry remembers which call made it, for the properties. When the page is one the
kernel itself uses (a page table, a PML4, a link of the free list), a program can change the kernel's data: "all bets are off anyway",
as `syscall.rs:188` says, and the behaviour ends (`LoopExposes`). What programs write
through their mappings is not followed otherwise. `leaked` is a history variable: `PageCtx::drop` frees a PML4 without
its tables, and the count must be exact up to what is lost that way.

**Fat16** reads a disk of abstract sectors. Byte `i` of sector `l` is the pair
`<<l, i>>`, so what a read delivers says where it came from. Steps: the partition
table, the boot sector, one path segment, one sector of a directory with all its entries, one sector of a read;
each sector read may fail and each allocation may. Both builds are modelled: the sector of cluster 0 panics or wraps.
`hist` counts the bytes delivered since the open and the reads that failed because of the FAT. The expected results (`Contents`,
`Lookup`) are computed from what the disk was written as, not by following the code:
a disk `d` lists the cluster chains it was written with, and every sector has a tag
that says what was put there (sector `s` of cluster `c`, sector `i` of the root directory).
`WellFormed` says what ties the two together: the geometry and the FAT lead to the sectors with the
right tags, and directories name chains or empty files; they may hold deleted entries and names that cannot be decoded.
It is an assumption on `Disks`, which TLC evaluates.

**Ide** interleaves the driver, one port access at a time, with drives that finish,
fail or are missing. The drives are external and follow the ATA standard as far as
the commands the driver uses. A port holds values below `ByteSize`, so that the
three bytes of an address can be told apart. `read_sectors` is never called without a buffer: a count of 0
would ask the drive for 256 sectors that nobody reads.

**AsyncMutex** takes one step for each atomic operation of `lock`, `push_front`,
`take_iter` and the iterator. All tasks interleave, which is more than this
kernel does today (it polls with interrupts off) and what the `unsafe impl Sync`
promises; properties that hold only without overlap say so (`overlapped`).

**Heap**, **Objects**. `Heap` defines pages, classes and the operations of `Box` and `Arc`;
`Objects` has the handles and the next-state relation. The insert of `put` may fail in three ways: without a trace, with the loss of the
greatest handles of the task (`PutLoses`), or, in the map of the tables, with the loss of the tables of the tasks with the greatest
ids (`PutLosesTables`). The first value of the lost half is dropped (`dying` is a table that is being dropped, one handle
at a time), the others are never dropped (`leaked`). The map then counts an entry it does not have (`miscounted`); when it becomes empty, `put`
reads the number of the next handle from in front of a leaf, any number or a panic. `Arc::drop` frees a block with the
layout of a pointer, and the model does the same: the block goes to the smallest
class and the rest of it is not used again.

**BTreeMap**, **BTreeBulk**. `BTreeMap` keeps nodes in a function from identities to records with keys, edges, parent
and index, as `node.rs` does, and takes one step for each node on the way down and
up. `BTreeBulk` adds a second map and what is done with whole maps. Handles and
iterators are pure operators over the nodes and are compared, in every state between
two calls, with the sorted keys the map should have; taking a map apart (`into_iter`,
drop), which frees nodes behind itself, and `append` are loops of actions. `B` is 6 as in the code.
An iterator that trusts a wrong `length` and leaves the tree goes to `undefined`, the
`unreachable` of `remove_kv` to `panic`.

**Console**, **KernelLocks**. `KernelLocks` writes the paths of the kernel that lock (timer from user
and from kernel mode, keyboard, the polls of a task switch with every system call in them, each with and without memory,
the first poll, which loads init from the disk, and the mutex and the status loop of the disk) as sequences of steps on the flag, the
mutexes, the keyboard buffer and the
controller, and interleaves them with interrupts: the stack has the unfinished paths,
each with the flags its guards have saved. A failing `kalloc::alloc` drops its value before its guard, so a value that owns a block
locks `ALLOCATOR` a second time and panics. Left out are `main` before `task::start`, where interrupts are off, and what the `expect`s
of the first poll say when memory runs out at boot. `begin` is two steps, the read of the flag and
`cli`, as an interrupt can come between. `Console` has what happens
under the lock of the console: one step for each byte of text or each valid part of a
program's buffer. A cell holds all glyphs drawn on it since it was blank, as drawing only
sets pixels; so text drawn over text is a difference.

**Boot**, **UserBuffers**. `Boot` runs `start.asm` from `map_kernel` on, `phys_init`,
`console_init`, `init_ref_counts` (a page at a time, as `ensure_rc_page` allocates and
maps while it goes) and `init_kernel_pml4_entries`. There are two levels of
tables instead of four, `Fan` entries in each, the last one recursive. `UserBuffers` adds
the system calls that take a range, on addresses of `WordPages` pages: checked operations
fail, plain ones panic in a debug build and wrap in a release build. A call that
waits has its borrowed pages in `job`, and other tasks run meanwhile. `HeapGrows` maps
kernel pages in whichever context is loaded.

**Memory** begins after the boot and is about counts and failures in the user half, a level of tables
at a time; **Boot** is about the kernel half and what contexts share. The two overlap in `alloc`,
`map` and the drop of a `Phys`.

## 3. Runs

| run | instance | states | shows |
|---|---|---|---|
| `sched_calls` | 3 tasks, 2 page contexts, the calls that change contexts, create tasks and exit, spawns failing at each allocation, splits that keep 1 entry and lose 1 or more | about 921 000 | `MapsAgree`, `ContextIsOwn` |
| `sched_live` | 3 tasks, blocking reads and failing spawns, buffer of 2, 3 keys | about 524 000 | `TrapNotLost`, `KeysInOrder`, refinement of `VirtualCpus` (`EveryTaskHasItsOwnCpu`), `PitSwitchReturns`, `EveryTaskRuns`, `KeyIsDelivered` |
| `mem_calls` | 2 tasks, 4 pages in two regions, ranges of one and two pages below two shared levels of tables, two flags and an odd one, a device page, pages of other tasks and of the kernel, TLB | about 2.2 million | `RefCountExact`, `PagesAreSeparate`, `ValidationHolds`, `TlbCoherent` |
| `fat_volumes` | 45 volumes with 2 sectors per cluster: files of 1 to 3 clusters in every order, a directory of two clusters, an empty file, hidden and deleted entries; up to 2 failures of the FAT on an open file | about 274 000 | `ReadsNextBytes` over reads of 0, 3 and 9 bytes and failures, `OpenIsLookup`, `StaysOnVolume`, `CallReturns` |
| `ide_operations` | 2 drives that may be missing, 2 clients, 1 to 3 sectors of which 3 are too many, addresses at both ends | about 320 000 | `OneOwner`, `PortsUsedInTurn`, `ReadsWhatWasAsked`, `OperationReturns` |
| `async_mutex` | 2 tasks, 3 blocks | about 172 000 | `MutualExclusion`, `ListIsSound`, `NoLostWakeup`, `WakesOnlyWaiters`, `EverySleeperWakes` |
| `heap_objects` | pages of 4, classes 1, 2, 4, 3 pages, 3 tasks with 2 handles, splits that lose 1 or more entries, 1 lost reference to an object | about 314 000 | `HeapIsTiled` (with values that fit), `RefsExact`, `HandleKeepsObject` |
| `btree_calls` | `B` = 6; scripts that build trees of up to three levels, split, clone, append and drop them, then any 3 calls, memory running out | about 215 000 | `TreeShape`, `HoldsTheKeys`, `IteratorsExact`, `BreaksOnlyAfterFailure` |
| `kernel_console` | screen of 2 by 2 cells, keyboard buffer of 1, up to 4 traps on the stack, 4 buffers with every kind of byte, with and without memory and a drive | about 169 000 | `NoRecursiveLock`, `HandlersNest`, `ScreenShowsText`, `InterruptsComeBack` |
| `boot_and_buffers` | 4 memory maps, 2 tasks, contexts as memory allows, 10 addresses and 16 lengths at every limit, both builds | about 43 000 | `KernelPagesCounted`, `KernelHalfShared`, `RangesExact`, `BorrowHolds` |
| `fat_small_directory` | directory of one cluster | | *violation* of `FirstClusterIsSearched`: its entries are not found |
| `boot_stack_guard` | as `boot_and_buffers` | | *violation* of `StackGuardFaults`: the guard page is mapped |

Why the bounds are enough. A scheduler error needs a task that is preempted or waits
and another one: two tasks and two contexts; starvation at the wrap-around of the
round robin needs a task before and one after the current: three. With `B` = 6 a table loses entries from 12 of them on; the runs
use smaller halves (`SplitKeeps` and `SplitLoses`, 1 and 1 for tasks, 0 and 1 for handles), so that three tasks and two handles are enough for a split
that keeps some entries and loses others, and the proofs are for any halves. A page count
is wrong after one failing step between two successful ones: two-page ranges, memory for
only some of the tables, tables that two pages share. The position of a file is normalised at sector and cluster
boundaries: two-sector clusters, chains of two clusters and reads shorter and longer than a sector
reach each of them. Addresses 0, 5, 25 and 26 are the ends of a three-digit number to
the base 3 with a carry. For the list, two tasks and three blocks are enough for a block
to be taken, freed, reused and pushed between a load and an exchange. The heap splits a
page into each class and frees large blocks into small classes. The B-tree runs use
the real `B`; scripts reach every kind of split, steal and merge but one (the merge of two
internal nodes below a parent that is not the root, which needs four levels).
Two lines and two interrupts below a system call are all that this controller delivers
inside each other; a fourth trap is a handler that has acknowledged and not yet returned.
The screen wraps and scrolls within four characters. With eight entries in a table and
twice the addresses that the tables translate, every sum of `user.rs` can reach the end
of the user half, the hole between the halves, the kernel half and the end of the word;
the counters of one memory map cross into the next kernel slot and one map has more regions than fit.

Named bounds: `MaxTaskId`, `MaxKeys` (Scheduler), `MaxRefs`, `CachedVirt` (Memory), `MaxRepeats` (Fat16),
`MaxPages`, `MaxBoxes`, `MaxHandle`, `MaxLeaks` (Heap, Objects), `MaxHeight`, `SpareCalls`, `SmallMap` (BTreeMap),
`MaxTraps` (KernelLocks), `MaxRegions` (Boot, 8 in the code).

Fairness. `Kernel`, `Driver`, `Running` and the steps of an operation are weakly fair: the
processor keeps executing. `PitInterrupt` is weakly fair, because `device/pit.rs`
programs a periodic timer and user mode has interrupts enabled. `Device(d)` is weakly
fair: a drive does not stay busy for ever. In `AsyncMutex` a task inside `lock` or with
the guard continues, and a task that was woken is polled. `KernelLocks` assumes only
that the kernel's paths go on, not that a device raises its line. Nothing is assumed of
programs, of the keyboard, or of polls without a wake-up. Deadlock is checked in all
passing runs; a halted kernel stutters explicitly (`Halted`, `Halt`).

## 4. Proofs

Eight modules prove, for every value of the constants, every invariant and every safety property of steps that
the passing runs check on an instance, but for `btree_calls`, which has no proofs.

| module | theorems | for any |
|---|---|---|
| `SchedulerProofs` | `TypeCorrect`, `MapsAgree`, `ContextIsOwn`, `TrapNotLost`, `KeysInOrder`; `Spec => EveryTaskHasItsOwnCpu` | tasks, contexts, registers, results, keys, capacity |
| `AsyncMutexProofs` | `MutualExclusion`, `ListIsSound`, `NoLostWakeup`, `WakesOnlyWaiters` | tasks, blocks |
| `IdeProofs` | `OneOwner`, `PortsUsedInTurn`, `ReadsWhatWasAsked` | drives, clients, size of a byte, addresses, counts |
| `ObjectsProofs` | `HeapIsTiled`, `RefsExact`, `HandleKeepsObject` | pages, classes, layouts, tasks, handles |
| `MemoryProofs` | `RefCountExact`, `PagesAreSeparate`, `ValidationHolds`, `TlbCoherent` | regions, virtual pages, table paths, tasks |
| `KernelLocksProofs` | `NoRecursiveLock`, `HandlersNest`, `ScreenShowsText` | nesting, keyboard buffer, screen, text |
| `Fat16Proofs` | `ReadsNextBytes`, `OpenIsLookup`, `StaysOnVolume` | well formed disks, paths, read sizes |
| `UserBuffersProofs` | `KernelPagesCounted`, `KernelHalfShared`, `RangesExact`, `BorrowHolds` | size of tables and words, kernel image, memory maps, tasks, contexts, addresses, lengths, flags |

Each theorem follows from one inductive invariant of its module. None of the properties is inductive by itself;
what has to be added is the argument.

**Scheduler.** That user code runs in its own context depends on what the steps between a trap and
the return can be in the middle of. `IInv` adds `EntriesFit` (which pairs of state and future a task may have: a future that
waits for a trap has a state `User` or `SyscallEntry`, a new one has `Wake`; a task in `lost` lacks one of its
entries),
`FreshIds` (ids from `nextId` on are absent from all maps, so `spawn` cannot overwrite a
task, and the init task is never lost, as a left half keeps at least one entry) and `ProcessorFit` (for each `kpc`, what `current`, `cr3` and the states are). Each action
has a lemma; `Invariance` puts them together. For the refinement, each action of the kernel is shown to be the
abstract step it stands for or a stutter, with `IInv` before and after. The order of keys needs only
that the buffer and what was read are increasing and that all of what was read is before the buffer.

**AsyncMutex.** Exclusion is inductive with the types. The list is not: a block can be taken, freed, reused
and pushed between the load and the exchange of another task. `MutexInv` says for each block that it is in
one place: free, not yet published, on the list, or on the private list of one drop (`OnePlace`), where a list
is the least set of blocks that contains its head and is closed under `next` (`Chain`).
Being least is what replaces induction over the list: pushing, taking and advancing change a
chain by one block. `WakeInv` says where the waker of each sleeper is, or that somebody will still take
the list; `StrayInv` that without overlaps only tasks that use the mutex have wakers.

**Ide.** Whether a port may be used depends on what the drives have left to do. `DevicesFit` says that only the drive of
the operation in progress has work left, whatever the previous operation ended with, `Addressed` that the three
bytes in the ports are the address (an address below `MaxLba` is put together again from its digits), and
`OnTheWay` that the drive has exactly what the buffers lack.

**Objects and Heap.** The heap is a set of blocks, free or in use. Taking from a list and freeing a box do not change the set, carving
a page adds blocks that tile it, dropping an `Arc` shrinks a block. `Apart` and `Covers` are
stated for that set. The counts are cardinalities of the sets of references, changed by one element at a time, or, when an insert loses entries, by the
references that move from the handles of a task to `leaked` (`LoseCounts`).

**Memory.** A count is exact only if what the allocator gave out has one role: `UsedOnce` says that a page is mapped by `alloc_page` in one place, or is
one table of one context, and not both; `PagesOK` that a page that is offered by the allocator has no other use, that one `map_physical_memory` has
mapped is neither a table nor a PML4, and that the count is the number of entries, whichever call made them, of tables and
of other references. The sets of entries are finite, and a step changes the count of one page by one;
`AllocatorOK` that the free list and the fresh pages offer nothing twice; `HoldersOK` counts the references of
a page context; `JobOK` what the call has in hand at each step, so that every failing step returns it.

**KernelLocks and Console.** A path is a sequence of steps put together by `critical`, `lock` and the functions between. `Safe`
is the largest set of situations (remaining steps, mutexes held, saved flags, flag) from which each step
is allowed and leads into the set again. So a path is shown safe by giving a set that is consistent, and
safe parts can be put one after the other: one lemma for each function of the kernel, as the code is written. `Safe` lets a path also end in the panic, at the two places of `Recursive` and nowhere else, and `Runs`, `RunsOff` and `Balanced` say of a part that it
leaves mutexes and saved flags as it found them, with interrupts on or off. The invariant says that every path on the stack is safe
where it stands, or that the kernel has panicked at one of the two places. `HandlersNest` also needs where the acknowledgement of each path is (`Shapes`). The text on the
screen is proved step by step for glyph, new line, wrap and scroll, and then for a whole string.

**Fat16.** A position is a cluster, a sector and an offset; `PositionPart` says which byte of the file it is, for a position in the chain and behind
its last cluster. This byte is the number of bytes delivered less one cluster for each failure of the FAT.
`GotPart` and `PositionPart` give `ReadsNextBytes`. For a look-up, `WalkPart` says that the segments
read so far lead to the current directory in the tree as written, and `ScanPart` that the entries before the current sector
have neither the name nor an end mark. That no access leaves the volume comes from `WellFormed`.

**Boot and UserBuffers.** All four follow from `Inv`, which holds from the tables of `start.asm` on.
A *cell* is a place that refers to a page: an entry of a user half, an entry of the kernel half (of the first PML4
only, because the others have copies), or an entry of a page table. `CellsOK` says that a page that is counted
is in one cell at most, so the contexts are trees that share the kernel half and nothing else, and a write to one entry is seen through
one address only (`LeafWrite`). `PagesOK` gives the counter of a page from this, and that what the allocator
offers has no cell. `PhaseOK` says what each phase of the boot has reached:
counters are mapped before they are counted in, and `init_kernel_pml4_entries` fills the kernel half while there is one
context; later `map` never needs a table there, which is why contexts stay equal.
That `init_ref_counts` finds the right numbers is a count of cells (`CountIs`).
For `RangesExact`, a range of a release build that has wrapped contains the last page of the address space, which is mapped (the recursive
entry), and the last one before the recursive slot, which is not; so it fails both validations. For the second the heap must not reach
that page: each of its pages has a physical page of its own and there are not enough of them (`HeapBound`).
`BorrowHolds` is in `Inv` as it stands: a call changes the user half of its own context only (`CallStep`). The loops
over a range are proved by induction on the number of pages.

Assumptions on constants are named in the module that declares them, and TLC evaluates them on the instances:
`SchedAssumption`, `NoCtxAssumption`, `NullAssumption`, `NoneAssumption` (values that stand for nothing are different
from the others); `IdeAssumption` (a byte has at least two values, a read asks for at least one sector); `HeapAssumption` (as in `kalloc.rs`, class sizes
divide each other and the page, every layout fits some class and a fitting class respects the alignment; a pointer is in the smallest class);
`ObjectsAssumption` (finitely many tasks); `MemoryAssumption` (regions are in order and disjoint, as no two of
the BIOS map overlap; the code does not check this; device pages are outside of them; page 0 is in none);
`ScreenAssumption` (at least one cell beside the crab); `TextAssumption`; `LayoutAssumption` (entries divide a sector) and
`DisksAssumption` (disks are well formed); `BootAssumption` (a table has an even number of entries, the word is a multiple of
what two levels address, image and VRAM fit in one table), `MapsAssumption` (usable regions of a memory map do not overlap, VRAM is in none of
them, and the kernel half is larger than physical memory: 128 TiB in the code) and `BuffersAssumption` (addresses and lengths are
not negative). `DisksAssumption` excludes `..` entries with cluster 0, which mean the root and which the code takes for an empty file's cluster.
Deleted entries and names that are not UTF-8, on which a look-up panics, are allowed.

Only model-checked, and why:

- Liveness (`PitSwitchReturns`, `EveryTaskRuns`, `KeyIsDelivered`, `CallReturns`, `OperationReturns`, `EverySleeperWakes`,
  `InterruptsComeBack`): fairness and `ENABLED` are out of the prover's reach.
- The B-tree (`TreeShape`, `HoldsTheKeys`, `IteratorsExact`, `BreaksOnlyAfterFailure`): the tree is read by recursive operators,
  which the prover cannot reason about.

Induction over data is used where it can be stated without an operator as a parameter: for a *set* of numbers
that contains 0 and with each number the next (`SetInduction`, from the well-foundedness of `<`). The
string of `print`, the walk along a path and the loops over a range of pages are proved this way.

## 5. What the models show of the code

Two disagreements are runs that end in a violation (see `findings`):
`cluster_chain` (`fs/fat16.rs:121`) drops the last cluster of every directory;
`map_kernel` (`start.asm:113`) stores the entry of the page before for the guard page it
says it does not map.

Some properties hold only with an exception that they name:

- `BreaksOnlyAfterFailure`: a failed insert (`map.rs:2158`) counts the key it has not inserted
  and loses the keys of the split half; an iterator that consumes such a map leaves the tree. A failed `append`
  leaves nodes without keys, on which a later `remove` panics.
- `OperationReturns`: `detect` (`device/ide.rs:241`) waits for a ready drive before it asks whether there
  is one ("drive does not exist", line 245), so it never returns for a missing drive (action `Spin`).
- `InterruptsComeBack`: a write whose buffer ends inside a character makes `utf8_valid_parts`
  (`util/mod.rs:47`) return empty parts without end, with interrupts off; and so does the status loop (`device/ide.rs:153`)
  when there is no drive to load init from.
- `NoRecursiveLock`: a failing `kalloc::alloc` (`mem/kalloc.rs:14`) drops its value while the guard of `ALLOCATOR`, a temporary, lives. In `spawn`
  (`task.rs:85`) and `open_file` (`syscall.rs:314`) the value owns a block, whose drop locks `ALLOCATOR` again: "recursive mutex lock!".
- `MapsAgree`, `EveryTaskRuns`, `EveryTaskHasItsOwnCpu`: a `spawn` that runs out of memory above a leaf loses the newest tasks of one map (`lost`).
- `RefsExact`, `HandleKeepsObject`: the same for handles. Lost references keep their objects for ever (`leaked`), and the numbers
  of lost handles are given out again.
- `PagesAreSeparate`: `map_physical_memory` maps any page for any program (the check of capabilities is a TODO, `syscall.rs:172`), so
  a page may have further mappings, though it is not free while it has one; and a page of the kernel ends everything.
- `ReadsNextBytes`: when the FAT cannot be read, the position is back at the start of the cluster (`fs/fat16.rs:324`), which is delivered again.
  A read of an empty file (cluster 0) is left out: it panics in a debug build and delivers other sectors in a release build.
- `StaysOnVolume`: a look-up that meets a deleted entry (`0xe5`) or another name that is not UTF-8 panics; the read of an empty file leaves the volume.
- `BorrowHolds`: only for a task that does not share its page context. The comment at `mem/user.rs:135`
  relies on a critical section, which does not keep another task from running while the call waits.
- `HandlersNest`: handlers that have acknowledged may pile up before `iretq`; `MaxTraps` bounds them.
- `RangesExact`: `containing` of an empty range inside a page is that page. Sums that wrap in
  a release build are refused by the validation only because of what the kernel half has mapped and what not.

Others were met while the code was translated. The models have this behaviour, no run
states it as a property:

- `map_physical_memory` panics when there is no page for a table, although the
  comment at `syscall.rs:194` says that the map never fails.
- An entry for physical page 0 looks present to `validate_map` and absent to `unmap`: releasing it panics.
- The directory filter drops names that begin with `0xef`; FAT marks deleted entries with `0xe5`.
- `map_physical_memory` does not align the address it is given: low bits that `PageFlags` knows become flags, and one that it
  does not know makes the next use of the entry panic.
- Writing to a FAT file and opening a path that is not UTF-8 panic.
- An empty path opens the root although `vfs.rs:40` says that the path starts with `/`.
- `read` ignores the size in the directory entry and delivers whole clusters.
- After an ATA error `read_sectors` fails until the next `IDENTIFY`, as it tests the old error first.
  Address `0xffffff` is refused although the message says greater than.
- `Arc::drop` frees blocks with the layout of a pointer; the remainder is lost to the heap.
- A page table of a context that is dropped is not freed.
- A split of a B-tree leaves `B - 2` keys on the right, fewer than `MIN_LEN`; this is sound for
  `B >= 4` (`BTreeAssumption`).
- `phys_init` pushes a ninth memory region before the `try_push` whose failure it handles, and panics.
- A waiter of the `AsyncMutex` pushes a waker at every poll; when memory runs out and `lock` fails, its wakers
  stay in the list and later wake a task that does not wait.
- `drop_all_for_task`, `free_page` and `borrow` have no caller; `borrow` would multiply by the size twice.
- `pic_init` restores the masks from `bx`, which it never saved (`isrs.asm:184`).
- Regions of the memory map are neither aligned nor checked for overlaps.
- Scrolling moves the crab along with the text.

## 6. Not modelled

- The boot loader: sixteen bit code over BIOS calls. What it leaves is the initial state of `Boot`. Of
  `start.asm` the change of processor mode, the descriptor tables and the TLS area have no
  state that anything modelled reads.
- `panic.rs` and `mem/fault.rs`: what they print. That they halt is a final state of the models.
- The B-tree set and `Recover`: its module is commented out and does not compile. The entry API
  of the map does what `insert` and `remove` do.
- The conversion of system call arguments (`crabapi`, `syscall.rs`), `EarlyInit` and `kernel_derive`:
  no state, or written once before a second actor exists.
- Pixels of glyphs, the crab, the debug port and the decoding of the model string of a drive.
- Dropping a table of handles that counts entries it does not have, which leaves the tree (`BreaksOnlyAfterFailure` has this
  for maps): `Objects` drops tables whose count is right. What programs write through mappings of `map_physical_memory`.
- Volumes with cyclic chains or damaged directories: `Fat16` assumes well formed volumes (`DisksAssumption`).

## 7. Plan

Done, in this order: Scheduler with VirtualCpus and proofs; Memory; Fat16; Ide; AsyncMutex
with a proof; Heap with Objects; BTreeMap and BTreeBulk; Console and KernelLocks; Boot and UserBuffers; proofs for
Ide, Objects, Memory, the rest of AsyncMutex, KernelLocks with Console, Fat16, and UserBuffers with Boot.

Left: the B-tree, whose properties could be proved only of a model that reads the tree without recursive operators, and liveness,
which stays with TLC.
