# A TLA+ verification of the NYCU-OSC kernel

The repository is a small single-core AArch64 kernel for the Raspberry Pi 3: a
UART bootloader, a buddy page allocator with a chunk allocator on top, a
round-robin thread scheduler driven by the core timer, system calls (fork, exec,
exit, kill, signals, file operations), an interrupt-driven UART and a virtual
file system with tmpfs, initramfs and two devices.  This directory holds TLA+
modules translated from its C source, the TLC runs that check them on small
instances and TLAPS proofs for every value of the constants.

## 1. Inventory

| Component | State it keeps | Operations | Interacts with |
|---|---|---|---|
| Page allocator, `mm.c` | `free_list[MAX_ORDER]` (doubly linked through `page_list`), per page `order` and `entry_in_list` | `mm_init`, `reserve`, `_alloc`, `_free` | called by `alloc.c` and at boot by `main.c` |
| Chunk allocator, `alloc.c` | bump pointer; per size class a free list and a page | `simple_alloc`, `kmem_cache_init`, `kmalloc`, `kfree`, `alloc`, `free` | takes pages from `mm.c`; called from threads *and* from interrupt handlers |
| Scheduler, `sched.c`, `exec.c` | `ready_queue`, `zombie_queue`, the current task (in `tpidr_el1`), per task state, pid, stacks | `thread_create`, `schedule`, `_exit`, `_kill`, `kill_zombies`, `idle`, `_exec`, `sys_fork` | timer interrupt, system calls |
| Timer and deferred tasks, `timer.c`, `tasks.c` | sorted timer list, priority-sorted task list | `add_timer`, `core_timer_handler`, `keep_schedule`, `add_task`, `execute_task` | drives `schedule`; allocates with `alloc` inside interrupts |
| Exceptions, `exception.c`, `exception_table.S` | trap frames, DAIF | `irq_entry`, `el0_sync_entry`, `syscall_entry` | enters every other part |
| Signals, `signal.c` | per task a *mask* of pending signals, a handler per signal, one saved context | `sys_signal`, `sys_sigkill`, `sys_sigreturn`, `check_pending_signals`, `handle_signal` | task structure, scheduler |
| UART, `uart.c` | RX and TX rings with head and tail, interrupt enables (no caller uses the asynchronous half at present) | `uart_async_getc/putc/gets/puts`, `rx_handler`, `tx_handler`, `uart_irq_handler` | interrupt handler against threads |
| VFS, `fs_vfs.c` | mount tree, per task `cwd` and `fd_table` | `vfs_open/close/read/write/lseek64/mkdir/mknod/mount/lookup` | tmpfs, initramfs, devices, system calls |
| tmpfs, initramfs | nodes with children or data | create, mkdir, lookup, read, write, lseek64 | VFS |
| Devices `dev_uart.c`, `dev_framebuffer.c` | frame buffer, file position | read, write, ioctl, lseek64 | VFS, mailbox |
| Bootloader `bootloader/` | magic/size/kernel bytes received | `load_kernel` | UART |
| Device tree, CPIO, shell, mailbox, power, string, utils | input parsing, hardware access | traversal, listing, commands | boot |

### What is hard here

* One processor, but two kinds of concurrency: the timer interrupt switches
  threads (`schedule`), and interrupt handlers allocate and free memory.  System
  calls run with interrupts *enabled* (`exception.c:67`), nothing in the kernel
  takes a lock, and `preempt_count` is never read.
* Long histories: the buddy lists depend on every earlier call; the scheduler has
  a current thread that may or may not be in the ready queue, depending on how it
  was started.
* Limits: page 0 is `NULL`, the largest order, the last chunk of a page, full
  tables, an empty ready queue.
* Liveness: idle must come round to free zombies; the timer re-arms itself.

### What makes each part correct

| Part | Properties |
|---|---|
| Page allocator | no page in two blocks; lists and `page_list` agree; a run of free pages is one block; exactly the boot regions are withheld; every call returns; it implements an atomic allocator |
| Chunk allocator | no byte has two owners; a chunk is large enough, is never lost and returns to its own cache; cache pages stay; `NULL` means full |
| Scheduler | a task is linked once; nothing is freed while in use; no thread is lost; an exited one never runs; idle is always there; FIFO; every thread runs; every zombie is freed |
| Timer, tasks | the list is sorted; the timer is armed while it is not empty, never early; timers and tasks are freed once; preemption goes on |
| Signals | a signal that was sent is handled; a handler returns to where it interrupted the thread, with the registers as they were unless it was switched away or used files; the handler's stack is freed |
| UART | the rings are FIFO queues that lose nothing accepted; what was put is sent |
| VFS | a path names at most one node; mounts and `..` are inverse; an open reaches what its path names |
| tmpfs, initramfs | a file fits its buffer; a write changes its own bytes only; a read that returns, returns what was written last |
| Bootloader | what is jumped to is what was sent |

## 2. Plan

Done, in this order:

1. `Buddy`, `PageAllocator`, `BuddyRefinement`, `BuddyProofs`.
2. `Sched`, `SchedProofs`; a queue operation is one step.
3. `Kmem`, `KmemProofs`, over the abstract page allocator.
4. `Vfs`, `VfsProofs`: nodes, lookup, mounts, descriptors, `cwd`, fork, and the system
   calls on top.
5. `FileIO` with `ByteFile`, `FileIOProofs`: reads, writes and seeks.
6. `Timer`, `TimerProofs`: timer list, deferred task, re-arming.  It replaces the
   assumption that the tick goes on by a property, and names its conditions.
7. `Signal`, `SignalProofs`: delivery at the end of a system call and of an interrupt,
   in user mode or in a call, and the return from a handler.
8. `UartRing` with `Fifo`, `UartProofs`: the rings against the interrupt handler.

Left:

* `SchedList`: the ready queue as linked structures, so that a switch in the middle
  of `add_thread_task` is visible; `FreeList`, the buddy lists likewise.
* `Bootloader`: the transfer of the kernel image.
* Proofs: every invariant and every action property of a passing run is a theorem;
  what is left is liveness, which the prover does not cover, and to lift conditions
  (`Guarded`, `Interruptible`, `Nested`) as far as the properties still hold.

## 3. Modules and how they correspond to the code

**`Buddy`** (`mm.c`).  Variables `free_list`, `order` and `entry_in_list` are the C
data; the doubly linked lists are sets, so `_alloc` may take any listed block where
the code takes the front one.  `pc`, `cur`, `ord` and `want` are the locals of the
function that runs.  One action per loop iteration: `ReserveCall`, `SplitStart`,
`SplitEnd`, `SplitDone`, `Take` (reserve), `Alloc`, `AllocSplit`, `AllocReturn`,
`AllocNull`, `Free`, `FreeMerge`, `FreeInsert`, `FreeMaxOrder`, `FreeIgnored`.
`held`, `resv`, `orig` are history variables.  **`PageAllocator`** is the atomic
specification, **`BuddyRefinement`** the mapping, **`MCBuddy`** the instances.

**`Kmem`** (`alloc.c`).  Addresses are numbers, so the header arithmetic and the
division that finds a page are the code's.  A slot is a pointer variable of a
caller.  `kmalloc` is three steps (refill, read the head, pop); `alloc`, `free`,
`kfree`, `simple_alloc` and an iteration of `kmem_cache_init` are one each.  Pages
come from an `INSTANCE` of `PageAllocator`, the specification that `Buddy` is shown
to implement.  `MCKmem` holds the instances.

**`Sched`** (`sched.c`, `exec.c`, `sys_fork`, `create_shell_thread`, the tick).
`pc[t]` is the place in the kernel where a thread is or will resume; the table is
at the top of the module.  `_exit` and `_kill` are three steps each, `exec` two,
kill_zombies one per statement that matters, because interrupts may strike between
them.  `irq` is the interrupt mask, which `cpu_switch_to` does not restore.
`Windows` says at which places inside a system call the timer may strike.
`MCSched` holds the instances.

**`Vfs`** (`fs_vfs.c`, the trees of `fs_tmpfs.c` and `fs_initramfs.c`, the file calls
of `syscall.c`).  `node` is the memory of all vnodes, `mnt` the `struct mount`s.  A
path is the sequence of its components, empty ones included, because the code's
treatment of `/`, of a trailing slash and of a name without a slash differs.  The
steps of a call are one component of the walk, the check and the insertion of a new
name, and the three parts of a mount: the points between which another thread can
run.  `boot` steps through `vfs_init`.  Three places leave memory as it was: `sys_fork`
sets neither `cwd` nor `fd_table` of the child, `handle_signal` copies registers over
those of the thread (`Scramble`, `life` is then "astray"), and `initramfs_setup_mount`
sets no field of its root's node (`RawRoots`).  A pointer found there is `NULL`, a
vnode of `Stale` or `WILD`.  A `NULL` or wild pointer that is followed sets `panic`
(`Stray`, `WalkAstray`, `BootAstray`; each of the last two may also go well, if the
memory held zeros); what the kernel does then is not modelled (`Halted`).

**`FileIO`** (`tmpfs_read/write/lseek64`, their initramfs and device counterparts,
`sys_read`, `sys_write`, `sys_lseek64`).  `data[n]` is the node's buffer, `size[n]` the
file in it.  `size_t` and `long` have a width, and the doubling loop of `tmpfs_write`
takes a step per doubling, so it may wrap to 0 and stay; everybody else runs on.
`sys_read` passes a count of 64 bits, so its sum with the position may wrap and the cut
at the end of the file fails (`readable_len`): the copy then never ends inside the
memory, and the model stops (`ReadRunsAway`, `overrun`).  `tmpfs_write` has the same
sum, but its count is an `unsigned int`, and a position is a `long`: that sum cannot wrap.
**`ByteFile`** is what a file promises.

**`Timer`** (`timer.c`, `tasks.c`, `irq_entry`).  Times are relative to now.  `frames[t]`
is the stack of calls a thread has in the kernel: `add_timer` between its read of the
tick count and its insertion, and `core_timer_handler` with its loop.  `cval`,
`enabled` and `irq` are the hardware timer, its mask and the processor's.  `mem` counts
free blocks, so `add_timer` and `add_task` can fail.

**`Signal`** (`signal.c`, `sys_signal`, `sys_sigkill`, `sys_sigreturn`).  `ctx[t]` is the
context in which a thread runs: the program or a handler, how far it is, whether its
registers are whole and whether it was interrupted inside a system call.  `sig_frame[t]`
is the saved context.  The trap frame that `handle_signal` copies there is 272 bytes long
and covers `sig_frame`, `cwd`, `fd_table` and `next`; `intact[t]` says that nothing was
written over it since (a switch writes `next`, a file call the others).  `fp[t]` says
that `cpu_context.fp` still is the handler's stack; after a switch it is not, and
`sys_sigreturn` frees some other page (`FreeStack`, `misfreed`), maybe another thread's
handler stack.  A call takes effect at once and may be interrupted until it returns
(`pc` "call"); signals are checked at the end of a call ("check"), of an interrupt
of the program ("check") and of an interrupt of a call ("kcheck"), one step per signal.
A handler that starts at a "kcheck" leaves the call behind on the kernel stack, and its
sigreturn goes on in kernel code with the wrong stack pointer: `panic`, where the model
stops.  `interrupted`, `owed`, `disturbed` and `misfreed` are history variables.

**`UartRing`** (the asynchronous half of `uart.c`).  Heads, tails and buffers are the C
data; the program's calls are split where the handler may run, the read and the write
of `AUX_MU_IER_REG` included.  **`Fifo`** is a bounded queue whose reader never stops.

`MCVfs`, `MCFileIO`, `MCTimer`, `MCSignal` and `MCUartRing` hold the instances.

In every module the operators introduced by a comment "Mutant" are faulty variants
of the definition that follows; they are used only to show that a property notices
the fault (`PROJECT.json`, "mutants").

## 4. Runs

| Run | Shows |
|---|---|
| `buddy_serve` | boots that reserve one to three regions, then all histories of `_alloc` and `_free` on 8 pages: exactly the regions are withheld, no page twice, coalescing, termination, refinement of `PageAllocator` |
| `sched` | main(), idle and three more threads, five pids, the timer striking outside system calls and inside `_exit`: all safety properties, FIFO, every queued thread runs, every zombie is freed |
| `sched_lost` (violation) | a thread preempted in `_exit` before its mark is in no queue |
| `kmem` | all histories of alloc, simple_alloc and free by three callers until memory is exhausted |
| `kmem_race` (violation) | an interrupt inside `kmalloc`: one chunk, two owners |
| `vfs` | boot, then two threads that fork, handle signals, exit, open, create, mkdir, mount and chdir until memory is full, one call at a time; what forks, signals and initramfs roots leave in memory does not get into the tree |
| `vfs_race` (violation) | two threads create the same name at once |
| `file_io` | two handles on files of both file systems, a directory and both devices: files fit their buffers and implement `ByteFile`, up to a read whose position and count wrap |
| `timer` | two threads that set timeouts, yield and kill each other until memory runs out: the timer is armed, never early, no block is lost, preemption goes on |
| `timer_nested` (violation) | a handler nested in `keep_schedule` finds nothing expired and gives up with timers in the list |
| `signal` | two threads that fork, install handlers, signal each other, in handlers and in calls too, use files and die of it: a signal that was sent is handled, handlers return to where they interrupted the thread and free their stacks |
| `uart` | one program that puts and gets, interrupted anywhere: both rings are queues and what was put is sent |

**Bounds.**  Buddy: 3 orders and 2 top blocks are the least in which a block is
split twice, merged twice, has a buddy in another state and a neighbour in another
top block; 2 bytes per page give regions that end inside a page.  Kmem: pages of 96
bytes hold 3 chunks of 16 and 2 of 32 bytes, so three callers run a cache dry; the
sizes lie on both sides of each limit; two top blocks of two pages are available,
any part of which may be reserved.  Sched: `MaxThreads` bounds the pids ever used,
not the threads alive; three structures beside main() and idle allow a victim, a
killer and an exiting or newly forked thread at once, and structures are reused
after they are freed.  Vfs: `MAX_VNODE` and `MAX_MOUNT` leave room for two files or
directories and one mount beyond those of `vfs_init`, so that directories fill up, a
mount covers a non-empty place and creation fails for want of memory; `Stale` is the
second vnode that programs make, a directory, a file or a mounted root.  FileIO: a
buffer of one byte doubles twice before `MAX_ALLOC` refuses it; offsets reach past the
end; with `LONG` 8 the sum of a position and an offset wraps, and so does a read of 15
bytes at any position but 0.  Timer: timeouts of 0,
below and above the time slice; five blocks are used up by two timeouts, the task and the
next time slice.  Signal: two signals, one of them the deadly one, and a custom handler
for the other (`Installs`; the theorems cover any handler for any signal); `MaxStacks`
bounds how many stacks of a thread are counted, not the handlers: a second one exists
only where `HandlerStacksFreed` says nothing.  UartRing: three slots hold a carriage
return with its line feed and wrap.

**Fairness.**  Buddy: a loop that can go on does (nothing else runs at boot).
Sched: `WF(Step)`, code that runs goes on; `SF(Tick)`, the timer keeps interrupting
whenever interrupts are enabled again and again: the interrupt stays pending, and
`keep_schedule` re-arms the timer from its own callback, which the `timer` run shows
for as long as there is memory.  Timer: the processor goes on with the handler and
with `add_timer`, takes a pending interrupt, and time passes.  Signal: `WF` of the loop of
`check_pending_signals`, code that runs goes on, and `SF` of the timer interrupt that
switches to each thread, which the `timer` run (it comes again) and the `sched` run (every
queued thread has its turn) show.  UartRing: the
handlers' interrupts are taken and a call that has begun ends; nothing is assumed of
the program's next call or of the line.

**Deadlock** is checked in every run.  Where the kernel stands still for good the model
says so with a step of its own: `Halted` in `Vfs` (a `NULL` or wild pointer was
followed), `Timer` (a `NULL` pointer) and `FileIO` (a read left its buffer), `idle` in
`Signal` (no thread is left, or `panic`), and the doubling loop of `FileIO`, which goes on
at 0.

### What the runs assume

Some things the code allows are excluded by a constant, a guard or a history
variable, because a property fails there and the failure says no more than the
sentence here:

* Sched: the timer strikes in no system call but `_exit` after its mark.  Inside
  `_kill` a victim can be freed between the lookup and the mark; `kill(0)` removes
  idle, and the next `_exit` returns; `exec` in the first time slice starts the caller
  over in kernel mode.
* Kmem, Vfs, FileIO: one call at a time.  `kmem_race` and `vfs_race` show what a
  switch inside a call does; two writers that grow the same file lose one buffer.
* FileIO: a write at a position beyond half of `size_t` never leaves the doubling
  loop (it does not in the run either; the caller's thread is lost, no file is).
* Vfs: a relative `chdir` clears `cwd` before it reads it, so it starts nowhere and
  leaves the thread without a working directory; this is in the model.
* Timer: handlers do not nest (`timer_nested` shows why that matters).
* FileIO: a read whose position and count wrap leaves the buffer; `SizeFits` says that
  no other does.
* Vfs: a thread that was forked or has had a signal may follow a wild `cwd` or
  descriptor, and a walk or an open may fall into the bytes of an initramfs root's node;
  `OnlyFailedCreateIsNull` says that nobody else follows a wild pointer.  A stale pointer
  that looks like a vnode is followed, in the run and in the theorems.
* Signal: `pending_sig |=` is one step; as a load and a store a signal can be lost.
  `PendingIsHandled` leaves out a thread to which lower signals come again and again,
  because the loop starts from signal 0 and a custom handler ends it.
  `ResumesInterrupted` leaves out a handler that was interrupted by a signal, which
  overwrites the only saved context (`interrupted` is then `NONE`), and the registers x1
  to x18 of one that was switched away or made a file system call, for which the code
  does not restore them (`disturbed`).  `HandlerStacksFreed` ends with the first
  sigreturn after a switch in a handler, which frees a page that is not the
  handler's stack (`misfreed`).
* UartRing: `CrFits`.  A carriage return put when one slot is free runs the head over
  the tail, and the whole ring is dropped.

## 5. Proofs

All proofs hold for every value of the constants that satisfies the named
assumptions.

* **`BuddyProofs`**, from `SizeAssumption`, `Pow2Assumption` and `RegionAssumption`.
  First what aligned power-of-two blocks have in common: buddies are disjoint, halves
  partition a block, aligned blocks are nested or disjoint; which pages a byte range
  touches.  `NoOverlap` alone is not inductive: a merge is sound because the buddy's
  list mark and order can be trusted (`ListConsistent`), an owned block is unmarked
  (`HeldIntact`), every block is aligned (`Aligned`), the locals of the running call
  describe a block in no list (`CallState`), and during boot every region still to
  come lies in listed blocks cut at its ends (`BootState`, `Cut`).  `IInv` is their
  conjunction; one lemma per action.  Theorems: `TypeCorrect`, `NeverTwice`,
  `ListsAgree`, `AllocationsIntact`, `ReserveExact`.
  That nothing is lost is a second invariant, `RInv`: no two listed blocks below the
  largest order are buddies, except where the running call explains it (`Coalesced`, `Pending`),
  and a page is known or lies in a block of the largest order of which no page is.
  From it follow `RunsAreListed` (a run of free pages that spanned two listed blocks
  would contain two buddies) and `NothingSmallerLost`.  `Refinement`: with `RInv` each
  step of `Buddy` is one atomic step of `PageAllocator` or changes neither the pages
  that are available nor the blocks that are held; a failing `_alloc` finds no block
  because the run would be listed.
* **`SchedProofs`**, from `TaskAssumption` and under `Guarded`: the timer strikes in
  no system call but `_exit`, nobody kills idle, no thread calls exec before it was
  interrupted once.  Each condition is needed (section 4, what the runs assume).  The
  argument: `schedule` decides by the state whether to queue the thread it leaves, so
  READY must mean queued (`StateMatchesQueue`), with the exceptions that the points
  inside a call explain (`CurrentInv`); idle is current or queued, and is masked when
  anything else could run (`IdleInv`, `ReapIsMasked`), hence `_exit` finds somebody
  and kill_zombies is alone; main() shares pid 0 with idle but is gone once another
  thread can call kill (`BootInv`); who waits in the queue waits at a resumable point
  (`WaitingInv`).  `SInv` is the conjunction.  Theorems: `TypeCorrect`,
  `QueuesDisjoint`, `FreeIsSafe`, `StateAgrees`, `ExitIsFinal`, `IdleIsThere`,
  `ReapingMasked`, `UserMode`; `FirstInFirstOut`, an action property: a step appends
  to the queue, takes its head or removes one element, and `LinkedOnce` makes the places
  of two threads in it unique.  `NothingForgotten` needs one condition more, that the
  timer does not strike `_exit` before its mark: a thread that exec has entered is then
  off the queue and still READY, and `schedule` puts it nowhere, as `sched_lost` shows.
  A victim that `_kill` has taken off the queue is its killer's (`OneKiller`).
* **`KmemProofs`**, from `KmemAssumption`.  `CachePagesStay`, interrupted or not:
  `_free` gets only blocks whose first page carries no cache mark.
  `KmallocFailsOnlyWhenFull`, for calls that are not interrupted: between the refill
  and the read of the list the call is alone (`KmallocInv`), every size has a cache
  (`CacheExists`, by the smallest order that fits), and a page carved for it has a
  chunk although the last one is not used.
  Also for calls that are not interrupted: no byte has two owners
  (`NobodySharesMemory`), what alloc returned is large enough (`EveryoneFits`), no
  chunk is lost (`NoChunkLost`).  First where things lie: a chunk is inside its page
  and PageOf finds that page, two chunks are a stride apart, a page
  off the heap is before or behind it.  `NoSharedMemory` alone is not inductive: the
  free lists must hold chunks of their own cache, each once (`ListsInv`), marks must
  be of pages the caches hold (`MarksInv`), available pages must be in no held block
  (`PagesInv`), every pointer must be heap memory, a chunk that is not free or a block
  without chunks (`OwnersInv`), and `entry` must still be the head of the list at the
  pop (`CallsInv`), which is what an interrupt breaks.  `MemoryInv` is the conjunction;
  one lemma per action.  Requests of 0 bytes are left out: `alloc(0)` changes nothing
  and `simple_alloc(0)` hands out no byte.
* **`VfsProofs`**, from `VfsAssumption` and `StringsAssumption`, if one system call
  runs at a time (`~ Interruptible`; `vfs_race` shows what a second call in the middle
  of a first one does to `DirectoryOK`).  Every theorem comes from one invariant,
  `VInv`.  Of the tree: each vnode but the first has a parent, a root and its mount
  point know each other (`RootOK`, `MountsOK`).  Of the calls: one at a time
  (`OneCall`), and what each knows at each point, such as that the name it is about to
  insert is still absent and the directory still has room (`CallsOK`).  Of the boot:
  `vfs_init` checks no result, so that it follows no `NULL` takes the exact tree after
  each of its calls (`Built`, `Stage`, `BootOK`).  Of the lookups: what a walk has found
  so far is the vnode that the whole lookup passes after as many components (`Trail`,
  `FindInv`), which an insertion does not change but at its own end.  Theorems:
  `PointersAreVnodes`, `DirectoriesAreMaps`, `DotDotGoesBack`, `NullOnlyAfterCreate`,
  `OpenedIsNamed`.  They hold whatever forks, signals and initramfs roots leave in
  memory: a thread whose pointers are garbage can only stop at a wild one (`StrayKeeps`,
  `WalkAstrayKeeps`, `BootAstrayKeeps`) or use a vnode that exists, while a thread that was
  created and has had no signal has none (`Tidy`).  The assumptions say what the code needs and does not check: the
  files of the archive have different names and fit into a directory, `/initramfs` and
  `/dev` do too, and memory lasts until `vfs_init` is done.
* **`TimerProofs`**, from `TimerAssumption`.  `BlocksAccounted`, however handlers nest:
  each block in use has one owner, the calls on the stacks and what they hold can be
  counted (`BlocksInv`, `InUse`), and every step moves a block or leaves it.
  `HardwareIsArmed` and `HandlerResets`, if the timer does not interrupt its own
  handler: at most the current thread is in the handler, once, and only `add_timer` runs
  on top of it (`Calm`, `Stacked`); a handler that has removed nothing yet finds an
  expired timer (`Coming`), so it will reset the hardware timer; the tick counts that
  calls have read are never ahead (`Late`), so what they set it to is not early; and
  the list is in order (`InOrder`, `InsertFacts`).  With nested handlers `Coming` fails,
  which is what `timer_nested` shows.
* **`SignalProofs`**, from `SignalAssumption`, for any handlers.  The properties speak of
  threads whose handler no signal interrupted; to be inductive they need what holds of
  the others: such a thread goes from handler to handler for ever (`NestedInv`).
  Otherwise it is in one handler, which interrupted the program, and what
  `handle_signal` saved is still there unless a switch or a file call wrote over it
  (`FrameInv`); its stack is the only one, as long as every sigreturn freed its
  handler's (`StackInv`); a structure that is not in use is in no handler (`DeadInv`).
  `SigInv` is the conjunction.  Theorems: `ReturnsToInterrupted`, `StacksReturned`.
* **`FileIOProofs`**, from `FileIOAssumption`, for every width of the integers, reads
  that wrap included.  `FilesFit`: before the copy the buffer has room, before the move
  the new one has (`WriteInv`), also when the doubling wraps; a position is a `long`
  (`Below`), so the sum in `tmpfs_write` does not wrap (`NoWrap`), and the one in a read
  wraps only for a count that the theorem names (`SumWraps`, `RunsAwayInv`).
  `FilesAreByteArrays`: every step is a step of `ByteFile` or invisible; the growth of a
  buffer is invisible because `Move` keeps the first `size` bytes (`MoveKeeps`), the copy
  is the write (`CopyBytes`), and a read that returns was cut at the end of the file.
* **`UartProofs`**, from `UartAssumption`, for every size of the rings.
  `RingsAreQueues`: with the remainders resolved (`Wrap`), a put appends and a take
  removes the head (`PutRing`, `TakeRing`); the handler never takes away the room that
  `uart_async_putc` found (`RoomInv`).

**Only model-checked**: liveness (`CallsReturn`, `EveryThreadRuns`, `ZombiesReaped`,
`KeepsScheduling`, `PendingIsHandled`, the fairness of `Fifo`) and everything else under fairness, which
the prover does not cover.  Under their conditions the theorems state every invariant
and every action property of the passing runs; the violations are shown by TLC.

## 6. Not modelled

* The linked lists as pointers, and with them a switch inside `add_thread_task`,
  `_alloc` or `_free`, and double frees; the pid counter as a load and a store;
  `thread_create` failing for want of memory, whose result `_exec` dereferences.
* Of the layout of the task structure, all that `Signal` and `Vfs` do not say.
  `handle_signal` copies a trap frame of 272 bytes over the pointer `sig_frame`: x0 falls
  on `sig_frame`, x1 on `cwd`, x2 to x17 on `fd_table`, x18 on `next`, and the rest lies
  behind the structure, in the same page.  `Signal` has what this does to the saved
  registers, `Vfs` what it does to `cwd` and the descriptors.  Not modelled: `next` of a
  thread that is in a queue while it runs (one that `exec` has started), where the copy
  breaks the queue; and `sig_frame` as a pointer, which nobody follows.
* What happens after a wrong pointer was used: in `Vfs` the kernel beyond a wild pointer
  (a close may free a foreign `struct file`, a read copy foreign memory), in `FileIO` the
  read that leaves its buffer, in `Signal` the kernel code that goes on with a wrong stack
  pointer and the owner of the page that `sys_sigreturn` frees, unless it is a
  handler stack.  `initramfs_setup_mount` frees an uninitialised `data` pointer when its
  vnode cannot be allocated (`fs_initramfs.c:42`).
* Signals: an interrupt in the middle of `check_pending_signals` or `handle_signal`; a
  program that calls sigreturn outside a handler, forks in a handler or calls exec;
  `handle_signal` with no memory for the handler's stack, which it does not check; the
  frames that each `eret` into a handler leaves on the kernel stack, which may fill it.
* `print_uptime`, which nothing calls; the `prev` pointers of the timer and task
  lists, which nothing reads.
* Device access: the mailbox, the ioctl that sets up the frame buffer, power, the
  polling half of the UART.
* The bootloader, the CPIO and device tree readers, the shell, and string and
  conversion helpers: sequential code that keeps no state another part uses.
  Printing.
