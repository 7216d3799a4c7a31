# DucreuOS in TLA+

DucreuOS is a small multi-hart operating system for 64-bit RISC-V, in C: a machine-mode SBI (`src/sbi/`), a
supervisor-mode kernel (`src/src/`), some assembly (`src/asm/`) and user programs (`src/user/`). This directory holds a
specification of its core: TLA+ modules translated from the source, the TLC configurations that check them on small
instances, and proofs checked by TLAPS that hold for every instance. `PROJECT.json` is the machine-readable index: which
definition stands for which lines, which run checks which property, which hazards of the code are covered.

Contents: [the system](#the-system) · [modules](#modules) · [runs](#runs) · [fairness](#fairness) · [proofs](#proofs) ·
[findings](#findings) · [what is not modelled](#what-is-not-modelled) · [plan](#plan)

## The system

| Component | State | Operations | Talks to | What is hard | What makes it correct |
|---|---|---|---|---|---|
| SBI hart control (`sbi/src/hart.c`, `main.c`) | `sbi_hart_data[h]`: status, target address, frame; a lock per hart; the CLINT's msip bit | boot, `hart_start`, `hart_stop`, `hart_handle_msip` | called by the kernel through `ecall`; interrupts the target hart | the target acts later, on its own; the boot code writes its entry without the lock | one owner per lock, status = what the hart does, start at the address asked for, no transition is left hanging |
| SBI devices (`clint.c`, `uart.c`, `plic.c`, `ctrap.c`) | timer compare registers, a ring of characters | set timer, push and pop characters, hand interrupts on | traps from every hart | ring at its limits, one PLIC claim at a time | no character lost below the limit, timer interrupts arrive |
| Scheduler (`src/sched.c`) | run queue, sleeping list, `sched_mutex`, pid counter | `sched_init`, `sched_invoke`, `sched_walk_sleeping_list`, `sched_add`, `sched_sleep`, `sched_get` | entered from the timer trap and from system calls on every hart, and from the console | several harts at once; the console adds to the run queue without `sched_mutex`; the walk edits the list it walks | no process lost, doubled or on the wrong record; sleepers wake, and not early |
| Processes (`src/process.c`, `asm/spawn.S`) | `process_current[]`, `process_idle[]`, a frame, state and run time per process; the lists' mutexes | create, free, spawn on a hart, list insert/remove | pages, page tables, SBI, scheduler | `process_spawn` on another hart ignores a refusal | the record of a hart names the process it runs |
| Locks (`src/lock.c`) | one word | `mutex_try`, `mutex_wait` (spin), `mutex_post`, semaphores | everywhere | no owner, no fairness, spinning with interrupts off | mutual exclusion, every path posts |
| Page allocator (`src/page.c`) | two bits per page, four pages to a byte | `page_init`, `page_znalloc`, `page_free` (also of the end of an allocation) | kernel heap, MMU, processes, ELF loader | `page_lock` exists and is never taken | no page given out twice, the bits say what is held |
| Kernel heap (`src/kmalloc.c`) | a list of chunks in pages, `kmalloc_lock` | allocate (split, grow), free, coalesce, shrink | pages, MMU | an interrupt handler that allocates while the console holds the lock; fences of one hart only | chunks are disjoint, free returns the space |
| MMU (`src/mmu.c`) | three-level tables, `kernel_mmu_table_lock` | map, set, free, translate | pages | partial failure when no page is left | translate finds what was mapped |
| Traps and system calls (`src/ostrap.c`, `src/syscall.c`) | the trapped frame | timer, external interrupt, EXIT, SLEEP, CONSOLE, draw, input | scheduler, drivers | pending interrupts meet the next process | see the scheduler |
| Console (`src/main.c`) | a line buffer | `elfread`, `schedinvoke`, `stop`, file commands … | everything | runs on hart 0 with interrupts on | see its callees |
| ELF loader (`src/elf.c`) | – | `elf_load` | file system, pages, MMU | failure after the process was created | a failed load leaves nothing scheduled |
| Virtio drivers (`src/block.c`, `rng.c`, `gpu.c`, `virtio.c`) | descriptor table, driver ring, device ring, `requests_idx`, `acknowledged_idx` | submit, poll, acknowledge in the interrupt | devices; the heap | completions in any order, the interrupt between any two instructions, 16-bit indices | a poll returns, and only after completion |
| Input (`src/input.c`, `ring.c`) | a ring of events with an overflow policy | interrupt pushes, system call pops | virtio | full and empty ring | order kept, policy respected |
| Minix3 file system (`src/minix3.c`) | inode and zone bitmaps, inodes, zones on disk | touch, rm, mkdir, rmdir, append, read | block driver | full disk, indirect zones, one step of several failing | bitmaps = what inodes reach |
| VFS cache (`src/vfs.c`) | a tree of cached paths | mount, cd, touch, rm, mkdir, rmdir | Minix3 | cache after a failed or repeated operation | cached = on disk |
| PCI and PLIC (`src/pcie.c`, `plic.c`) | drivers, BARs, handlers by line | scan, register, claim, complete | all drivers | devices found by kind, lines shared and turned at bridges | each driver reaches its device and line, a claim is completed |
| Regions, user programs, libc | – | – | – | sequential | – |

Interactions that matter here: the kernel's lock order is `sched_mutex` → list mutex → `kmalloc_lock` →
`kernel_mmu_table_lock`; traps run with supervisor interrupts off, the console with interrupts on; machine-mode software
interrupts are never masked in the kernel, so a `stop` can hit a hart anywhere.

## Modules

| Module | Models | Uses |
|---|---|---|
| `ProcessList` | the sorted process lists of `process.c` as sequences: `process_insert` (whose `kmalloc` of a node is taken to succeed), `process_remove`, `process_remove_lowest` | – |
| `Sched` | the scheduler, its callers and the hart's timer | `ProcessList` |
| `PageTable` | the two bits per page, first-fit search, where a free stops | – |
| `PageSpec` | what a page allocator promises (abstract) | `PageTable` |
| `PageAlloc` | `page.c`, one action per call | `PageTable`, `INSTANCE PageSpec` |
| `PageSteps` | `page.c` bit by bit and byte by byte on several harts | `PageTable`, `INSTANCE PageAlloc` |
| `Mmu` | `mmu.c`: three-level tables that live in the allocator's pages | `PageTable` |
| `KHeap` | `kmalloc.c`: the chunk list over the kernel's page table, with each hart's TLB | `Mmu` |
| `ProcessMemory` | `process_init_new`, `elf_load`, `process_free` between other users of the heap | `KHeap` |
| `Minix3` | `minix3.c`: bitmaps, zone walker, files, directories, on one disk | – |
| `FileSpec` | what a file system promises (abstract) | – |
| `Vfs` | `vfs.c` and the console's file commands: the cached tree over the disk | `Minix3`, `INSTANCE FileSpec` |
| `VirtQueue` | requests, polling and interrupts of `block.c`, `rng.c`, `gpu.c` against a device | – |
| `Pci` | `pcie.c` and the drivers' set-up: the scan, BARs, handlers | – |
| `Devices` | `plic.c`, `input.c`, `ring.c`, `gpu.c` at run time: console, process and interrupt together | `Pci` |
| `SbiHart` | boot, `hart_start`, `hart_stop`, `hart_handle_msip`, store by store | – |
| `SchedProofs`, `PageAllocProofs`, `PageStepsProofs`, `VirtQueueProofs`, `DevicesProofs`, `SbiHartProofs` | theorems and proofs | the module of the same name |
| `MemoryProofs` | theorems and proofs about heap, page tables and processes | `ProcessMemory` |
| `LeastNumber` | the least-number principle, induction and loops, for the proofs | – |
| `MC_*` | constants for TLC | the module of the same name |

Mutations (`Name_Mistake`) stand in front of the definition they change. They are not used by the specifications; they
record, for each property, one plausible mistake in the code that the property's run catches.

Some of the code leaves its own state wrong: on those paths no invariant can hold. The modules follow the code into them
and note it in a history variable `mishap`, and the invariants say "unless one of these happened": so what is checked is
that the named paths are the only ones. `Vfs` stops at a mishap outside `Tolerated`; the runs tolerate none.

### Sched

The state is the kernel's: `sched_mutex`, the two lists, `process_current`, and per process its state, hart, run time,
remaining sleep and whether it has a pid. Per hart there is a program counter, the process it *really* executes
(`running`, to be compared with the record `process_current`), the argument of `sched_invoke`, its local `new` (`held`),
and the timer (`mtimer`: a finite `mtimecmp`; `stip`: a pending interrupt). One action is one stretch of code between
two points at which another hart can observe or disturb it:

- `TimerFires` (machine trap), `TimerTrap`, `SyscallExit`, `SyscallSleep` lead to `EnterSched`;
- `SchedLock` spins for `sched_mutex` and reads the clock; `WalkWake` and `WalkSkip` are one round each of
  `sched_walk_sleeping_list`, with the loop's restart exactly as the code does it; `SchedPut` puts the outgoing
  process to sleep, frees it or queues it; `SchedPick` takes the lowest and posts the mutex; `SpawnSelf` is
  `process_spawn` on the own hart;
- `ConsoleCreate`, `ConsoleLoadFails`, `ConsoleAddBegin`, `ConsoleAddEnd` are `elfread`. `sched_add` is not under
  `sched_mutex`, so its critical section is two steps: reading the list and linking into what was read. The
  scheduler's own uses of the list mutex wait for it; they are single steps, since nothing they do under the mutex can
  be seen before it is posted. The console's insertion outside `sched_mutex` is also why the list mutex is needed at
  all, a question the comment at `process.c:401` leaves open;
- `ConsoleSchedInvoke(t)`, `SpawnOther`, `ConsoleStop` are what an operator can also type (`OperatorSpec`). They reach
  into other harts, and the invariants do not hold with them (see the finding).

Time is relative: `Tick` lowers every remaining sleep by one, to −1 for "in the past". A dispatch charges one unit of
run time; `MaxVruntime` bounds it by no longer letting the timer preempt a process at the bound. `SleeperWakes` leaves
out only the behaviours that this stops for good (`NoMoreCalls`: from some point on every hart is in a process at the
bound, or is the console): with any scheduler calls going on, on whatever hart, a sleeper that one walk missed has to be
woken by a later one, also after the process woken in its place has run up to the bound. A process slot is
reused after it was freed. A failed `elf_load` leaves the process allocated and unscheduled, as in the code.

### PageTable, PageSpec, PageAlloc, PageSteps

A table is two sets of page numbers. `FirstFit` is the search with its limit (`total_pages/10` for the first page of a
run), and `Need(0) = 1` because the counter is compared after it was incremented. `FreeStop` is where the loop of
`page_free` ends. `PageAlloc` has one action per call; `live` is the history of what callers hold, and callers free what
they hold (`Free`), the end of it (`FreeTail`: `heap_shrink`), or a free page (`FreeAgain`). `PageSpec` knows `live` and
the last answer only. `PageSteps` splits the calls at every access of the table: a bit is updated by loading and storing
a byte that holds four pages' bits.

### Mmu, KHeap, ProcessMemory

Memory is one record: the allocator's bits, the entries of the pages that are page tables, and whether a hart has
faulted in `mmu_set`. `mmu_set` descends two levels and allocates tables on the way; a table it cannot get is an access
behind NULL, which ends in the trap handler's loop on that hart, with `kernel_mmu_table_lock` taken (`Fault`). Whatever
the call had done by then stays: a run of pages may be taken and partly mapped behind the heap's end, a process may have
its object, its root table or part of its image. The hart joins `stopped` and keeps `kmalloc_lock` if it had it. The
other harts go on until they come to one of these locks; then they stop too, with what they have done so far (`Outcome`,
`StopsAtLock`; a shrinking heap stops after its first `page_free`). `KHeap` is the list of free nodes behind
`kmalloc_head` in bytes: first fit, split, growth by contiguous pages, insertion in address order, coalescing and
shrinking at every `kfree` (both intervals are 1 in the code). A call runs under `kmalloc_lock` and is one step.
`tlb[h]` is the most a hart may have cached of the heap's mapping; `sfence.vma` empties the TLB of the hart that
executes it, and `behind` are the harts since whose last fence another one changed the mapping. `ProcessMemory` adds the
kernel's boot, processes with their object, page table, stack and image, and `orphans`: the pages that nobody can give
back any more, the tables that `process_free` leaves allocated and what a call had taken when its hart stopped. A
process in the state "left" is an object only, one that is "stuck" stopped in the middle of `elf_load` and never runs.
Assumed is that an image does not overlap stack, frame or trampoline; `elf_load` itself refuses only the pages of
`asm/spawn.S` (`elf.c:107`). `TlbSound` exempts the harts in `behind`: with a second hart the fence of `common_alloc` is
not enough, and the code has no other.

### Minix3, FileSpec, Vfs

The disk is a value and every routine a function from disk to disk. Sizes are counted in directory entries (64 bytes); a
zone holds `BlockSize` of them, or `PPZ` pointers. `Slot` says where the pointer to zone *i* of a file is kept, and
`add_pointer_zones` what `minix3_zone_walker` allocates on its way there. A search that does not end is recorded in
`hung`, and nothing after it is written. `Vfs` has one action per console command. The cached tree is a graph of nodes
with the newest child first. `FileSpec` knows a set of files, each a sequence of units; a directory is a file of
entries.

The mishaps: `rm` of a file with doubly indirect zones frees the number behind the end of the buffer (`StrayZone`) and
leaks the pointer zones ("freed a stray zone"); `rmdir .` ("removed itself"); `mkdir` of a path that is cached ("cached
twice"); `append` to a name that is no file, which writes to an inode number nobody set ("wrote to no file"). Assumed
of the image: the bit of inode `num_inodes + 1`, which the range check lets through, is set, and so are the bits behind
the last zone. Triply indirect zones are in the model but out of reach of a disk of 8 MB, and of the run.

### VirtQueue

The console submits (`block_read_write`, `rng_fill_poll`, `gpu_request_poll`), copies `acknowledged_idx` (`Snapshot`)
and polls (`PollStep`); the device completes outstanding requests in any order (`Complete`, external); the interrupt
handler acknowledges everything up to the device's index. Indices wrap at `IdxMod` (65536 in the code). Only `block.c`
has an `int lookahead_idx`: when a poll is running while the 16-bit indices wrap, it counts on past the end, differs
from the device's index for ever and may return on an old entry. `PastEnd` is that state, and the one exception of the
two polling properties. A request is named by its first descriptor. The driver takes descriptors round robin and never
checks that they are free; the model assumes the device keeps up (`DescriptorsFree`). `IdxMod` is a multiple of
`QueueSize`, as it is for block and rng; the gpu's queue of 12 (`gpu.c:58`) does not divide 65536, a wrap the model
leaves out.

### Pci, Devices

`Pci` is sequential: each routine maps a state of the bus to the next. The scan visits functions in order of bus and
slot, gives bridges their bus numbers, enters BARs into the list that drivers then search from its end by vendor and
device id, and registers handlers by line. How lines are really wired (`Wired`) and which function answers at an address
(`Decodes`) are the machine's, and marked external. `Layout` says which machines the code is made for: a function is met
once (`MetOnce`), has its structures in one BAR (`OneBar`), the n-th root port is in slot n modulo 4 as in the Makefile
and what is driven is on the root bus or behind a port (`BehindPorts`), and an rng or gpu that can be used is the last
of its kind: those drivers keep a single structure and point it to a device before that has agreed (`Pointed`), so one
that is given up behind it would leave the driver with the wrong registers and line. `DevicesAssumption` asks it of
every machine.

`Devices` puts the console (hart 0), a system call (another hart) and the interrupt handler of hart 0 next to each
other; while the handler runs the console stands still, and device interrupts come to hart 0 only, where the PLIC has
them enabled. `kmalloc_lock`, `gpu_mutex` and `ie_ring_mutex` are spin locks. `ie_ring_buffer_pop` is six steps, one for
each access of the ring (test of `occupied`, element, load and store of `start`, load and store of `occupied`), for the
system call, which holds `ie_ring_mutex`, as for the console, which holds nothing: the kernel is built without
optimisation, the interrupt can come between any two of them, and so can a pop on another hart. The mishaps: an init,
draw or resize in the middle of another ("overlapped"), a display that is off during an init ("display off"), `gpu init`
of a gpu that is set up ("init again"), and a torn ring ("torn"): two pops at a time, which may take one event twice and
count `occupied` below zero, or a push by the interrupt after the console's pop has moved `start`, or one that empties
the ring under a pop that has found an event. "wild" and "disorder" are what the properties forbid.

### SbiHart

Every store that another hart can see is a step: the boot code's status, address and frame; `hart_start`'s and
`hart_stop`'s try of the lock, check, address, frame, interrupt with post; the handler's lock and its outcome. `asked`
remembers the argument of the last `hart_start`, `raced` the harts whose boot code was not over at the time. A call's
address and frame are one token. Any running hart may call for any hart, itself included. The error branch of
`hart_handle_msip` has no action: it is proved to be unreachable.

## Runs

| Run | Instance | Shows |
|---|---|---|
| `sched` | 2 harts, 2 processes, sleeps 0 and 1, run time ≤ 3; 260 000 states | all safety properties of the scheduler, `LockReleased`, `SleeperWakes` |
| `sched_operator` | 2 harts, 2 processes, operator commands | **violated**: record and hart disagree |
| `pages` | 9 pages, requests of 0 to 3 | the bits, exclusivity, refinement of `PageSpec` |
| `page_steps` | 1 hart, 6 pages, 5 calls | bytewise `page.c` refines `PageAlloc` |
| `page_race` | 2 harts, 6 pages, 5 calls | **violated**: a held page is reported as a double free |
| `mem` | 25 pages, 24 of them searched, tables of 3 entries, heap ≤ 4 pages of 8 bytes; three scenes; 30 000 states | heap, mappings and page ownership |
| `fs` | 4 inodes, 11 data zones, 2 direct zones, 2 names, 4 commands that change the disk; 13 000 states | bitmaps, tree, readers, cache, refinement of `FileSpec` |
| `fs_hang` | the same | **violated**: a search hangs although zones are free |
| `virtq` | queue of 6, indices modulo 12, three drivers; 310 000 states | `RingFresh`, `PollSeesCompletion`, `CompletionNotMissed`, `PollFindsCompletion` |
| `virtq_hang` | the same | **violated**: a poll may never return |
| `devices` | five machines, ring of 2, queue of 2; 350 000 states | binding, event order, the gpu, interrupts complete |
| `sbi` | 3 harts, 3 calls; 140 000 states | all of hart control's properties |

The properties, and what would break them:

- `MutualExclusion`, `AtMostOnePlace`, `NeverLost`: an unlocked path, or the console's insertion racing the scheduler,
  loses a list node or links it twice. `NeverLost` also says that no hart runs or queues a freed process.
- `CurrentIsRunning`: a trap saves registers into the frame of `process_current[h]`; if that is not the process that
  ran, two processes are destroyed. `StateMatchesList`: a stale mark would free or park a process at its next
  preemption. `ListsAscending`: the head is the process that ran least, although run times change while lists are kept.
- `AlwaysPreemptible`: a hart in user code has a timer running or an interrupt pending, also when the interrupt came
  during a system call. `NoEarlyWake`, `SleeperWakes`, `LockReleased`: sleep and lock. The walk of the sleeping list
  restarts one node too far after each wake (`sched.c:127`), so one walk may leave a due process asleep; `SleeperWakes`
  says that it wakes all the same. The run time of 3 lets a process that was woken in its place be preempted after its
  dispatch, so that the next walk on the same hart is in the run too.
- `Exclusive`, `BitsEncodeLive`, `ImplementsPageSpec`, `ImplementsPageAlloc`: the page bits after any sequence of calls;
  `ImplementsPageSpec` includes that a request fails only when there is no room where the search looks, and that "double
  free" is reported exactly for pages nobody holds.
- `PollSeesCompletion`: the ring keeps old entries with the same descriptor numbers; returning on one of them would free
  a request the device still uses. `RingFresh` is why it does not: what a poll and the handler have in front of them are
  completions of this round, each once. `PollFindsCompletion`: a poll that began at or before its completion finds it;
  `CompletionNotMissed` is its safety half, that neither the loop nor the device loses the entry on the way. The
  exception for `block.c` is `PastEnd`, above.
- `HeapTiled`, `ContiguousForDevices`: split, insert, coalesce and shrink leave no gap and no overlap, and what is given
  to a device by one physical address has physical pages in a row. `PagesOwned`: every page of the allocator has exactly
  one owner, also when a call stops in the middle with its pages taken and some of them mapped, and others go on. The
  pages that the code leaks, by `process_free` and by such calls, are counted as orphans: that they are lost is no
  violation, that someone else gets one would be. `ProcessSeesOwnPages`: the page table of a process reaches its pages
  and no others, while others come and go.
- `ZonesAccounted`, `TreeSound`, `ReadersAgree`, `CacheFollowsDisk`, `ImplementsFileSpec`: the disk after any sequence
  of commands; in the refinement, what was appended is read back in order, whatever else was created, grown and removed.
- `DriversBound`: although BARs are found by kind, and lines computed from bus and slot. `EventsInOrder`: each event is
  taken at most once, each device's in order, through a full ring, slots that are reused, pushes in the first half of a
  pop and a reader on another hart; a torn ring is its exception. `GpuSound`: the frame buffer drawn into exists and is
  the one shown. `IrqCompletes`: the handler waits for ever only for a lock of the console it interrupted, which can
  happen with `kmalloc_lock`: `kmalloc` does not mask interrupts, and the resize handler allocates.
- `LockOwner`, `MsipOnlyInTransition`, `StatusIsReal`, `EntryUnlessRaced`, `TransitionEnds`: hart control under every
  interleaving of stores, with the interrupt taken arbitrarily late. The exception in `EntryUnlessRaced` is a hart that
  is started while it boots, the race that the comment at `sbi/src/main.c:122` expects.

Why the bounds are enough to meet the cases: of two harts one holds the scheduler lock or inserts from the console while
the other waits; two processes let a list have a first and a second node and the walk miss one (insertion into the
middle of a longer list, and more harts, are covered by the proofs, which have no bound); run times up to 3 give
different orders; sleeps of 0 and 1 give sleepers that are due and not due. Nine pages hold three allocations of
different sizes with gaps between them; the six of `PageSteps` are more than a byte of the table. The scenes of `mem`
are the heap alone used by two harts with requests of less and of more than a page, two processes alive at a time, and
two harts that make processes between requests of more than a page; the pages run out in every part of a call: growth of
the heap with part of the run mapped, no object, no root table, no tables while a process is furnished or its image
mapped, no image, a shrinking heap and a `process_free` that meet the locks of a hart that has stopped. The disk of `fs`
has room for a file that needs the doubly indirect zone and is small enough to fill; four inodes let inodes run out. In
`virtq` every poll meets old entries of the ring, and the behaviours go through the wrap. The machines of `devices` have
the Makefile's root ports; ring and queue are small so that both overflow, and two resizes let one meet the other. Three
harts in `sbi` are a caller, a competing caller and a target. Where a bound stops the system (`calls < MaxCalls`, `did`)
or the system really may stop (a poll that hangs), the configuration turns the deadlock check off.

## Fairness

- `Sched!Fairness`: every hart goes on executing kernel code (`SchedStep`, `TimerTrap`), its timer fires when set, the
  clock advances, and `elfread` goes on once begun. Nothing is assumed of user code (it may never make a system call),
  of the operator, or of the spin locks: weak fairness of a step that waits for a mutex does not give the mutex to
  anyone in particular. `SleeperWakes` asks for infinitely many states out of `NoMoreCalls`, because the bound on run
  time stops preemption, which the code does not; an idle process on one hart is enough for that.
- `VirtQueue!Fairness`: the hart executes, the device serves what it has, pending interrupts are taken.
- `Devices!FairSpec`: the console and the system call go on with what they have begun, and hart 0 takes pending
  interrupts and goes on in its handler. Nobody has to call, send an event or resize, and no lock is given to anyone in
  particular.
- `SbiHart!Fairness`: harts execute and take pending interrupts; nobody has to call. `TransitionEnds` needs no more,
  since callers use `mutex_try` and leave after finitely many stores.

## Proofs

All proofs are for arbitrary constants under the named assumptions of the modules: `Harts` a set of naturals with 0;
`Idle`, `NULL` and the processes distinct; sizes and bounds naturals, at least one bookkeeping page, and no more of them
than pages; a queue of at least three descriptors whose size divides the range of the indices; a ring and input queues
of at least one entry; a layout of virtual memory without overlap. Two theorems have a hypothesis more, named below.

**Scheduler** (`SchedProofs`): `TypeCorrect`, `SchedulerMutualExclusion`, `ProcessInOnePlace`, `ProcessNeverLost`,
`RecordIsCorrect`, `ListsMatchStates`, `QueueInOrder`, from `Invariance == Spec => []IInv`. None of these is inductive
alone. `IInv` adds `LabelsOwnState` (which label owns which lock, which hart may be where, that a hart between putting
and spawning has no record, and that the list the console has read is still the list: the content of the list mutex) and
`PlacesMatchState` (a process on a hart knows its hart and is not dead, a process in flight is runnable, a process being
loaded has no pid yet). The step lemmas are one per action; those that change a list rest on the lemmas
`LinkAtList`, `UnlinkAtList` and the order and no-duplicate lemmas, and `ProcessInsert`, that `process_insert` adds
exactly one node and keeps the order. `LeastNumber` has the least-number principle they need.
`HartsStayPreemptible` (`AlwaysPreemptible`) needs the types only: every way into user code sets a timer or keeps the
pending interrupt. `SleepsAreLongEnough` (`NoEarlyWake`) needs `WalkIsFresh`: the walk decides by a clock that was read
before it began, which is sound because a process that is asleep stays asleep, with less and less to go, until the walk
comes to it.

**Page allocator** (`PageAllocProofs`): `PageInvariance` (`IInv` = types, `Exclusive`, `BitsEncodeLive`), `PageTypes`,
`PagesExclusive`, `BitsAreRight`, and `PagesImplementSpec`: every step of `PageAlloc` is a step of `PageSpec` or
stutters. The key lemmas are `HeldIsTaken` (the abstract allocator's pages are the taken ones) and `FreeOfHeld`, that
`page_free` inside an allocation stops exactly at its end: the last bit of that allocation is the first one met because
allocations are disjoint.

**`page.c` in steps** (`PageStepsProofs`): `OneHartIsAtomic`, that with one hart (`Harts = {h}`, the hypothesis) the
calls split at every access of the table implement `PageAlloc` under the mapping `TakenSeen`, `LastSeen`, which shows
the table as it will be once the call in progress is over. `StepInv` says for each place in a call what has been done so
far: the pages before the scan do not fit (`WhileScanning`), the marked part of the run and the bits still to be set
(`WhileMarking`), the freed part and that the loop has not passed the end (`WhileLooping`, `WhileFreeing`), and that a
byte that was loaded is still the byte in memory (`ByteCurrent`). The last is what fails with a second hart, which is
the finding of `page_race`.

**Virtio queues** (`VirtQueueProofs`): `QueueTypes`, `EntriesStayFresh` (`RingFresh`), `OnlyBlockRunsPast`,
`PollIsSound` (`PollSeesCompletion`) and `PollMissesNothing` (`CompletionNotMissed`), from `QInv == TypeOK /\ RingFresh
/\ WrappedUnlessBlock`. The argument is a count: entries in front of an index are different slots and none is
outstanding, so they are fewer than the queue as long as a request is still to be completed (`RoomForOne`), and the
completion that the device writes lands in a slot that nobody has still to read. Everything about indices is modular
arithmetic (`SameRemainder`, `AheadOfAfter`, `SlotsDiffer`). `PollMissesNothing` assumes `QueueSize < IdxMod` (256
against 65536): with equal sizes a full ring and an empty one have the same indices.

**Devices** (`DevicesProofs`), for any machine, any sizes and any number of calls, resizes and events:

- `GpuStaysSound` (`GpuSound`), from `GpuInv`: as long as no excuse applies at most one actor is in a gpu call
  (`Alone`), and `GpuAt` says what gpu and device look like at each place of a call: before the resource is made, with
  and without its backing, while it is shown, after the unref. `HandlerIdle` (without a claimed line the handler does
  not run) makes the interrupt's entry one from outside; it rests on the lines `plic_init` enables not including 0,
  which the claim register returns for "nothing pending".
- `EventsStayInOrder` (`EventsInOrder`), from `GpuInv /\ EvInv`. `EvInv` looks at one queue that reaches from the device
  to the reader: the event a pop is taking, the ring, then for each device what it has written and the driver has not
  fetched (`Items`, `Queued`); each part is in order, each comes before the next, and all are newer than what readers
  had. `Pops` has what each place of a pop relies on: what it has loaded is still in the ring, and nobody else is
  popping. Two pops at a time, or a push where it hurts, are the mishap "torn".
- `DriversStayBound` (`DriversBound`), from `BusInv`: the bus is what the scan left. The scan is a loop, so the argument
  is an invariant of its rounds, `ScanInv(L, n, p)`: addresses are given to one function each (`ScanRegs`), the bridges
  met so far are numbered from 1 (`ScanBuses`), each device structure belongs to one of the first n functions, whose
  handler is registered for the line the driver computed, no two have one address, and no usable function met is without
  one (`ScanDevices`). A driver finds its own BAR although it searches by kind because the function it runs for was
  entered last (`DeviceMade`). `LineIsWired` needs the layout: the code adds the number of the bus to the slot where the
  machine adds the slot of the bridge, which is the same line only if the n-th bridge met is in slot n modulo 4.

**Memory** (`MemoryProofs`), for any number of pages, entries per table, harts, processes, sizes and requests:
`HeapTiledAlways`, `ContiguousAlways`, `PagesOwnedAlways`, `SeesOwnPagesAlways`, `TlbSoundAlways`, from
`MemoryInvariant == Spec => []MemoryInv`. The five are not inductive one by one: that `kfree` leaves page tables alone
needs that no page of the heap is a table, which is `PagesOwned`; that `page_free` frees one page and not its neighbours
needs to know where allocations end; that a process still sees its frame needs the heap below it. `MemoryInv` is
`StateOK` of the whole state, the conjunction of

- `HeapWF`: the head, the free nodes and the allocations are disjoint, each ends where another one begins or at the end
  of the heap, and the list ascends. `CarveKeeps`, `AllocKeeps` and `FreeKeeps` follow `common_alloc` and `kfree`;
- `Sound`: below the kernel's root and each process's root the tables are a tree (`Tree`: no table is linked twice, so a
  write changes the translation of one virtual page, `WriteStep`, and a new table none, `LinkStep`); the taken pages are
  a `Partition` among `Owners`; and the end bits are exactly those the owners' allocations need (`EndBits`), except at
  the joints of the heap: a page with the next page of the heap right behind it may lack the bit, since the heap grows
  by runs and `heap_shrink` gives back single pages from the end;
- `ProcsOK`, `AllSee`, `Contiguous`, `TlbOK`: processes have distinct objects in the heap, see their own pages, devices'
  memory is consecutive, and a hart that is not `behind` caches what the table holds.

A hart that stops in the middle of a call leaves a state in which all of this holds as well: the pages the call had
taken are the orphans' from there on, mappings it made behind the end of the heap or in a process that never runs are
part of the trees but of nothing else, and the lemmas on operations have a second outcome for it (`Obtained`,
`LoadOutcome`). The invariant looks at `Shape(proc)`, in which a process that is an object only is none.

Each operation has a lemma that says what it does to all of this at once (`GrowSound`, `ShrinkSound`, `NewProcessSound`,
`LoadSound`, `FreePagesSound`), and each action a step lemma. Loops (`mmu_map_multiple`, `coalesce_free_list`,
`heap_shrink`, the trap stacks) are functions of the number of rounds. The library's induction theorems cannot be
instantiated, so `LeastNumber` derives what they need from the least-number principle: `InductionUpTo`, for a property
given as a set of numbers, and `LoopHasValues`, that a loop has a value after every round. `InitMemory` shows that the
boot finds its pages. The assumptions are about layout: a page holds more than two headers, header and page are whole
words, the heap, trampoline, stack and image have different virtual pages (`HeapAssumption`, `MemoryAssumption`), and
there is memory for the kernel's table, the first page of the heap and its tables.

**Hart control** (`SbiHartProofs`): `SbiTypes`, `LockHasOneOwner`, `HandlerSeesTransition`, `StatusSound`,
`StartsAtTarget`, from `SbiInvariance`. `IInv` adds `Locations` (where a hart can be in each status, and that a pending
interrupt means a transition), `Callers` (a caller past the check still finds its transition, with the argument it was
asked for) and `Entries` (a starting hart that was not raced has the right address unless a caller is still about to
write it, the same for the frame). `StartsAtTarget` then follows because the handler and such a caller would both own
the hart's lock.

Only model-checked:

- liveness (`LockReleased`, `SleeperWakes`, `PollFindsCompletion`, `PollReturns`, `TransitionEnds`, `IrqCompletes`),
  which is out of the prover's reach; of `PollFindsCompletion` the safety half is proved;
- the file system's invariants (`ZonesAccounted`, `TreeSound`, `ReadersAgree`, `CacheFollowsDisk`) and
  `ImplementsFileSpec`: the zone walker and the scans of directories recurse over the disk, and what they compute for
  every disk needs an induction over data for each. Nor do they hold for every value of the constants: a file that
  reaches the triply indirect zones, where the walker goes on in the doubly indirect one, loses a pointer zone there, so
  that a theorem would have to bound the files, as the size of the disk does for the real one.

## Findings

Each has a run whose counterexample shows it.

1. `sched_operator`: `schedinvoke` for a running hart records a process on it that never starts.
2. `page_race`: without `page_lock`, updates of one byte by two harts undo each other.
3. `virtq_hang`: notifying the device before copying `acknowledged_idx` can lose the completion; this matches the
   "async bug" in the repository's notes, which slow polling made disappear. `PollFindsCompletion` shows that the order
   is the only cause, apart from the wrap: a poll that starts early enough always returns.
4. `fs_hang`: `minix3_get_available_zone` never comes back once it has passed the last zone, although there are zones
   free in front of it.

Met on the way, and written into the models as the exceptions above: the walk's skip, the `int` index of `block.c`, the
boot race, the four mishaps of the file system and the four of the devices (the notes of 2022-04-19 in `src/README.md`
describe one: "interrupted to init the GPU in the middle of init-ing the GPU"), the page tables that `process_free`
leaks and the pages of calls that could not go on, the gpu's and rng's structure that is pointed to a device before it
has agreed, the pops that tear the ring of events, the stale TLBs of other harts, the interrupt handler that waits for
`kmalloc_lock` on its own hart.

## What is not modelled

Page contents, addresses and the mapping from page numbers to them (including that the numbers at the end of the table
lie behind the heap); the registers in a frame; 16-bit pids (only whether one was assigned); permission bits of page
table entries beyond valid, branch and leaf, and the kernel's identity mappings; `mmu_free`, which nobody calls; ELF
headers, the copying of segments and images that overlap stack or frame; a `kmalloc` of a list node that fails, and one
whose result a driver or the console does not look at; descriptor contents, pixels and the geometry of drawing; the
reuse of a request block that `block_read_write` has freed while the device still has it; the CONSOLE system call, a
second, preemptible console that can be stopped with locks held; system calls made after an operator command has made a
hart's record wrong; `hart_start` for hart numbers beyond the table; semaphores and the ring's other two overflow
policies, which the kernel does not use; a machine without an input device, whose ring mutex stays locked for ever; the
UART's ring in the SBI; a crash in the middle of a file command (nothing in the code recovers from one); several disks;
regions, printing and user programs.

## Plan

What is left, in order of importance:

1. Proofs about the file system: `ZonesAccounted` and `TreeSound`, with the zone walker stated by what it leaves.
2. The request block's lifetime in `block.c` on `KHeap`; the stopped hart that holds `sched_mutex`; the preemptible
   console.
3. The UART ring and the PLIC of the SBI; an abstract process life cycle refined by `Sched`.
4. Pids at their width; `Regions`.
