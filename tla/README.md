# WegOS in TLA+

WegOS is a small 32-bit x86 kernel: it boots into protected mode, sets up a
GDT, an IDT and paging, and runs tasks under a round-robin scheduler driven by
the timer interrupt, with semaphores, a sector file system and a text console.
This directory models the parts that keep state, checks them with TLC on small
instances, and proves with TLAPS, for every value of the constants, the safety
properties of the scheduler, semaphores, queues, memory, files, interrupts,
keyboard, console and disk driver.

## 1. The system

| Part | State | Operations | Interacts with |
|---|---|---|---|
| Process queues, `kernel/lib/data_struct.c` | `pid_queue_t`: head, tail, a ring of pids | init, enqueue, dequeue, find, delete | used by the scheduler and semaphores |
| Tasks, `kernel/proc/task.c` | `tasks[]`, TSS descriptors in the GDT | `create_task`, `task_init`, `get_pid_empty`, `set_task_state` | page allocator (a page directory per task) |
| Scheduler, `kernel/proc/sched.c` | `task_manager`: ready, blocked and sleeping queue, `pid_running`, `schdule_counter`; a task's `wakeup_counter` | `schedule`, `switch_to`, `check_schedule`, `check_wakeup`, `sys_sleep`, `sys_exit` | entered from the timer interrupt and from tasks |
| Semaphores, `kernel/proc/semaphore.c` | count, `blocked_pids` | `wait`, `signal`, `semaphore_init` | the scheduler's queues |
| Timer, `kernel/time/time.c` | `ticks`, never read | `time_init`, `on_timer` | programs the interrupt controllers; calls the scheduler, interrupts masked |
| Physical memory and page tables, `kernel/lib/bit_allocation.c`, `kernel/mm/memory.c` | bitmap, page directories and tables | `bit_alloc`, `p_malloc`, `set_mmap`, `load_memory`, `copy_pts` | tasks, swapping, program start |
| Swapping and program start, `kernel/mm/v_memory.c`, `execve.c` | swap sectors recorded in page table entries, next free swap sector | `swap_alloc`, `swap_in`, `on_page_fault`, `sys_execve` | disk, file system, tasks |
| File system, `kernel/fs/fs.c` | sector bitmap, sectors, FCBs; clients' `file_cached_t` | open, `sys_create`, `sys_read`, `sys_write`, seeks | disk |
| Disk, `include/comm/disk.h` | the disk's registers and its progress | `read_disk`, `write_disk` | file system, swapping |
| Interrupt controller and IDT, `kernel/interrupt` | 256 gates; masked, requested and served lines | `interrupt_init`, `set_idt`, `interrupt_enable`, `pic_send_eoi` | timer, keyboard, page faults |
| Keyboard, `kernel/dev/keyboard.c` | shift and caps lock state | `keyboard_init`, `on_keyboard`, `on_key` | interrupts; prints on the console |
| Console, `kernel/dev/console.c` | video memory; the cursor as a pointer, as row and column, and in the video controller | `cls`, `putchar`, `println`, `print_back`, `scroll_up` | called by tasks and by the keyboard handler |
| Boot sector, loader, `main` | none | straight line | set up the rest |
| String library, `kernel/lib/string.c` | none | `strlen`, `strcmp`, `get_parent_dir_name`, conversions | path names |

All kernel code runs in one address space. A task calls the kernel by calling
its functions; no trap masks interrupts on the way. A task starts with EFLAGS
0x202, so the timer interrupt may arrive between any two instructions of a
kernel call, and its handler may switch to another task. The handler itself,
and the page fault handler, run behind interrupt gates, with interrupts masked.
The build always defines `_DEBUG` and `FS_INIT`: an internal error ends in an
endless loop that prints a message.

What is hard here: the interleaving of kernel calls with the timer interrupt;
pids, which are indices of descriptors, being reused; the agreement of five
kinds of queue with the tasks' states; `check_wakeup`, which deletes from the
queue it walks; unsigned counters tested with `<= 0`; a task that exists before
its memory does; pages loaded long after they were written to the swap area;
copies of an FCB in several places, found again by path and index; arithmetic
at sector boundaries; one cursor and one disk used by everybody, in several
steps; a disk that is slower than its driver assumes; and the order in which
interrupts are set up, ended and enabled. The
list, with lines, is under `hazards` in `PROJECT.json`.

## 2. Modules

| Module | Models | Relation to other modules |
|---|---|---|
| `PidQueueSpec` | abstract: a queue of distinct pids is a list | uses `PidList` |
| `PidQueue` | the ring buffer of `data_struct.c` | implements `PidQueueSpec` |
| `PidList` | the queue operations on lists | used by `Sched` in place of the ring |
| `Sched` | tasks, scheduler, sleeping, semaphores, timer; a kernel call is one step | extends `PidList` |
| `Preempt` | the same calls statement by statement, interruptible | extends `Sched`; implements it if calls are masked |
| `Paging` | bitmap, page tables, page faults, `sys_execve` statement by statement | on its own; tasks are page directories |
| `FileSys` | the file system as clients use it, sector by sector, and the swap area beside it | on its own |
| `Paths` | directories and path names, `load_file_cached` character by character | on its own; a file's content is one sequence |
| `Disk` | `read_disk` and `write_disk` port access by port access, and the disk | on its own |
| `Interrupts` | `main`'s initialisation, interrupt controllers, gates, timer and keyboard handlers | on its own; which task is chosen is left to `Sched` |
| `Terminal` | abstract: what a text screen does | - |
| `Console` | `putchar` store by store | implements `Terminal` if it is not interrupted |
| `MC...` | constants and symmetry for TLC | extend the module they are named after |
| `...Proofs` | theorems about `Sched`, `Preempt`, `PidQueue`, `Paging`, `FileSys`, `Interrupts`, `Console`, `Disk` | extend the module they are named after |

### Queues

`PidQueue` has the ring's three fields as one record and one operator per C
function, with 16-bit arithmetic. The abstraction function `Contents` reads the
ring from head to tail. The kernel uses a queue in one of three ways, the
constant `Usages`: dequeueing (ready queue, semaphores), deleting by position
(sleeping queue), deleting what `pid_queue_find` returned (blocked queue).
`pid_queue_find` returns the pid and not its index, so the third use deletes at
an index that has nothing to do with the pid: `Dropped` in `PidList` says which
entry that is, and `ImplementsList` shows that the ring does exactly this.
A task's `pid_enqueue` is two steps, `EnqueueStore` and `EnqueueAdvance`,
between which, unless callers are `Masked`, the timer's handler may use the
queue.

### Scheduler

| Variable of `Sched` | In the code |
|---|---|
| `gdt` | the pids whose descriptor is not zero |
| `state`, `wakeup_counter` | fields of `tasks[pid]` |
| `ready`, `blocked`, `sleeping`, `pid_running`, `schdule_counter` | fields of `task_manager` |
| `count`, `blocked_pids` | fields of every semaphore |
| `free_pages` | what `p_malloc` has left for page directories |
| `irq`, `wake_i` | where the timer interrupt is, the `i` of `check_wakeup` |
| `panic` | the `_DEBUG` loop that was entered; nothing moves after that |
| `asked`, `slept` | history only |

`OnTimer`, `CheckWakeup` (one turn of the loop) and `CheckSchedule` are the
timer interrupt; `CreateTask`, `SysSleep`, `SysExit`, `Wait` and `Signal` are
calls of the running task, which is never one of the two idle tasks. `schedule`
and `switch_to` are operators inside them. `Init` is the state in which `main`
enables interrupts, with the two idle tasks and `BootTasks` others created.

`Preempt` splits the calls into the statements at which an interrupt makes a
difference, `count--` into a load and a store; `frame` holds every task's next
statement and its locals. `Masked = FALSE` is the kernel as it is. `Masked =
TRUE` is the discipline of disabling interrupts around calls; under it
`Preempt` is checked, and proved, to implement `Sched`, which is what justifies
`Sched`'s atomic calls. One assumption on timing is made (`Interruptible`): the time
slice that `schedule` has just renewed, 100 ticks, does not run out in the few
instructions before the switch. Queue operations are one step, so what fails in
`Preempt` fails in the kernel, but not the other way round.

### Memory

`Paging` represents physical memory as `mem.entry` (every page read as a page
table) and `mem.content` (what was loaded into it), and the bitmap as
`mem.used`. A directory entry or page table entry that is not present holds a
swap sector. `set_mmap`, `load_memory`, `swap_sector_of` and the others are
operators on `mem` with the names of the functions. `sys_execve` is five
actions: `ExecLoad` (read the file, `swap_alloc`, write it there), `ExecCreate`
(`create_task`), `ExecMap`, `ExecSetSwap`, `ExecStack`. A task first faults on
its code (`CodeFault`), then runs it (`RunsCode`), may push beyond its first
stack page (`StackFault`, a fault in the middle of a page, which also reads
over the next page), and exits, giving no page back. Memory is taken to be zero
at power-on, as it is in the emulators the disk image is made for: page tables
are not cleared by the code. `p_malloc` is one step.

### Files

`FileSys` has sectors of `BLOCK` cells and a next-sector field; a cell is a
byte of a file or an FCB of a directory. `handle` is every client's
`file_cached_t`: a copy of the FCB, the positions and the index in the
directory. `sys_write`, an insertion, is composed as in the code: growing the
file (which stores the FCB), reading the rest through the read position,
`covering_write`, putting both positions back, storing the FCB. `text` is the
history of what each file should hold. `Init` is the disk after `fs_init` and
`main`'s `fs_test`. `sys_execve` copies a program into the swap area, sectors
from a fixed one on, which `file_alloc` hands out as well.

The code is right only for clients that keep to some rules, which
`CarefulWrite` states: (1) the client's FCB is what the directory has at the
index it will be stored at; (2) the file has the sector after a full one that
`sys_write` counts on (the file `usr` made by `fs_test` does not); (3) the
write position is inside the file; (4) the write reaches no third sector
(`covering_write` stores data over the next-sector field of whole sectors);
(5) the file system still has sectors before the swap area.

### Paths

`Paths` is about finding files and finding the way back. A path is a sequence
of characters; `Walk` is the loop of `load_file_cached`, which changes the
caller's `file_cached_t` as it goes, so that a lookup that fails leaves a part
of it changed; `store_file_cached` looks the parent directory up by the path
`get_parent_dir_name` made. `disk` has the entries of every directory, `tree`
the history of what was created, by path. The rules for clients (`MayUse`) are
that the FCB is up to date, that the file has the right type (the code never
looks at `file_type`), and that a `file_cached_t` that was used for another
file is not used for the root. `Zeroed` says that it was zero before its first
use: `store_file_cached` looks up `parent_dir_name` for the root, too, which
`load_file_cached` does not set for it.

### Disk

`Disk` has the task file registers of an ATA disk, which remember the byte
written before (that is how four address bytes go through three registers),
the disk's state (idle, busy, asking for data) and the sectors. The driver's
`Setup` is the list of register writes, followed by the command, a polling loop
for every sector (`Poll`) and the words (`ReadWord`, `WriteWord`); `write_disk`
ends with a flush command (`SendFlush`). The disk's steps (`Fetch`, `Accept`,
`Commit`, `Flush`) interleave with them, and a disk that is busy ignores its
registers. Three constants state what the driver counts on: `Masked` (calls do
not interleave), `Prompt` (the disk is never still busy when the driver writes
to a register) and `Resident` (the buffer is in memory, or the page fault's
handler would call `read_disk` in the middle of `read_disk`).

### Interrupts and the keyboard

`Interrupts` begins with `main`: `interrupt_init`, `time_init` (which programs
the controllers a second time), `tty_init`, `memory_init`, `sti`. `stack` says
where every task is and what it interrupted, with the interrupt flag that
`iret` restores; `imr`, `irr` and `isr` are the controllers' registers as sets
of lines. `on_timer` and `on_keyboard` are split at the end of interrupt.
`check_task_affairs` goes on with any task, in whatever frame that task left.
Keys are pressed, repeat and are released; every scan code carries what its
user expects of it at that moment, and `echo` compares this with what `on_key`
does when the code arrives. The two characters of a key are "lower" and
"upper"; the table that has them (where the entry of `s` has a capital `B`,
`keyboard.c:65`) is not modelled.

### Console

`Console` has `putchar` store by store, with the cursor in its three
representations. `shown` is the screen and the position whenever `putchar`
returns, and this is what implements `Terminal`: the character that does not
fit is stored below the screen, in video memory that is not visible, and
scrolls in. Careful callers do not begin a new line when the position is below
the last row, and do not go back beyond the first cell.

## 3. What is checked

A run passes unless marked as a violation. The mutants in `PROJECT.json` show
for every property a plausible error in the code that breaks it.

| Run | Shows |
|---|---|
| `pid_queue` | `TypeOK`, `ImplementsList`: the ring is the list for all three usages, at every position of head and tail |
| `sched` | `QueuesMatchTasks`, `SchedulerNeverStuck`, `SemaphoreBalance`, `BlockedMatches`, `PidReuse`, `WakesOnTime`, `TypeOK`; `ReadyRuns` (no ready task starves), `SleeperWakes` |
| `preempt_masked` | `ImplementsSched`, `MutualExclusion` with interrupts masked in calls |
| `paging_safety` | `RunsItsProgram`, `PagesNotShared`, `KernelMapKept`, `TypeOK` with interrupts masked in `sys_execve` |
| `fs_safety` | `FilesKept`, `ChainsDisjoint`, `ReadsReturnText`, `SwapKept`, `TypeOK` for careful clients |
| `paths` | `PathsResolve`: exactly the files that were created are found, and the right error otherwise; `ParentHasEntry`, `OneEntryEach`, `TypeOK` |
| `disk` | `ReadsReturnSectors`, `WritesLand`, `CallsEnd` (no polling loop is endless), `TypeOK` |
| `interrupts` | `UnmaskedAreHandled`, `ServiceEndsInHandler`, `TasksInterruptible`, `EchoesWhatWasTyped`, `KeysAreRead`, `TimerNeverStops`, `TypeOK` |
| `console` | `ImplementsTerminal`, `CursorInStep`, `TypeOK` |
| `sched_two_semaphores` (violation) | with two semaphores `signal` deletes the wrong task from the blocked queue and a later `signal` hangs |
| `preempt_lock` (violation) | two tasks whose `count--` interleave both enter |
| `fs_stale_index` (violation) | writing to a file opened before another was created overwrites the new file's FCB |

### What the passing runs rest on

Many of the passing runs state a rule that the code does not enforce, as a
constant. Each is needed: the run is violated when that one constant of its
configuration is changed.

| Run | Change | What TLC then shows |
|---|---|---|
| `pid_queue` | `Masked = FALSE` | the timer's handler enqueues between store and advance: `ImplementsList` fails |
| `sched` | `CreateWhenFull = TRUE` | `create_task` without a free descriptor makes pid 65535 ready (`QueuesMatchTasks`), against the precondition at `task.c:20` |
| `preempt_masked` | `Masked = FALSE` | calls are not atomic (`ImplementsSched`); among others a task interrupted in `sys_exit` is ready without a descriptor |
| `paging_safety` | `Masked = FALSE` | the new task runs before its code's sector is recorded and executes the boot sector (`RunsItsProgram`) |
| `fs_safety` | `Careful = FALSE` | `FilesKept` as in `fs_stale_index`; with `SWAP_START = 6`, the code's value, files grow into the swap area (`SwapKept`) |
| `paths` | `Zeroed = FALSE`, or `Careful = FALSE` | the root's FCB is not stored, new files are lost (`PathsResolve`) |
| `disk` | `Masked = FALSE` or `Resident = FALSE` | a call goes on with the address and data of the one that came in between |
| `disk` | `Prompt = FALSE` | the flush command, and the next call's registers, are ignored by a busy disk: `write_disk` returns before its data is on the disk (`WritesLand`), though `disk.h:110` says that the flush makes sure of it; a later call may wait for ever (`CallsEnd`) |
| `interrupts` | `"shift"` in `Repeating` | every repetition of a held shift key inverts the shift state (`EchoesWhatWasTyped`) |
| `console` | `Masked = FALSE` | row, column and hardware cursor differ from the pointer (`CursorInStep`), which `console.h:12` says may never be |
| `console` | `Careful = FALSE` | a new line below the last row shows what the hidden row holds (`ImplementsTerminal`); a backspace on the first cell leaves video memory (`TypeOK`) |

`BlockedMatches` holds in `sched` because tasks wait on one semaphore
and fewer of them wait than the lowest pid of a task (7 in WegOS, 4 in the
instance): then the index `signal` deletes at lies beyond the list, which drops
the first entry, and that is the right one. With two semaphores, or eight
waiting tasks, it is not.

`WakesOnTime` holds for arguments other than 0; `sys_sleep(0)` sleeps 2^32
ticks, since the counter is decremented before it is compared with 0.

### Bounds

- `pid_queue`: a ring of 4 slots and 3 pids; every combination of head, tail
  and stale slots is reached, and the ring goes round many times. The ring may
  not be full: a queue holds distinct pids, and fewer tasks than descriptors
  exist.
- `sched`: descriptors for two idle tasks and three others, sleeps of
  1 and 2 ticks, slices of 2 ticks, two more tasks created: tasks due in the
  same tick at the head, middle and end of the sleeping queue, all tasks but
  the idle ones off the ready queue, pids used again. `MaxPages` bounds
  creation, `MaxCount` the count of a semaphore, `COUNTER_MOD` stands for 2^32.
- `preempt_masked`: two tasks at the start and two created, one lock.
- `paging_safety`: three programs started by two callers; 24 pages of 6
  entries, of which 4 directory entries are the kernel's. The number of calls
  is bounded so that memory does not run out (`PagingAssumption`), since the
  code does not handle that; the system then stops, so deadlock is not checked.
- `fs_safety`: sectors of 2 cells, files of up to 4 cells: positions before,
  at and after sector ends, a directory that grows by a sector, a file that
  grows by a sector twice. One sector of swap lies behind those of the files,
  and the program started is `usr` (`Programs`).
- `paths`: three files or directories, six paths of up to three names, one name
  being the beginning of the other; two clients.
- `disk`: bytes of two values, so that addresses 6 to 9 need all four bytes of
  an address and counts up to 3 both bytes of a count; sectors of two words.
- `interrupts`: two tasks, one letter, shift, caps lock and backspace, one
  scan code under way besides the one at the port (`MaxScan`).
- `console`: 3 rows of 2 cells and two characters; the position needs both
  bytes (of 4 values) of the hardware cursor.

### Fairness

`Sched!Spec` assumes `WF_vars(Timer)`: the timer chip interrupts periodically
and the handler runs to its end with interrupts masked. Nothing is assumed of
tasks, which may run for ever without calling the kernel.

`Interrupts!Spec` assumes that the processor goes on with `main` and with a
handler it is in, that the timer ticks, that the keyboard controller delivers,
and that an interrupt that can be accepted is. For the keyboard the last is
strong fairness: the timer's requests go first, but since a tick's handler
takes microseconds and the next tick comes 10 ms later (a guard of
`TimerTick`), the keyboard's turn comes again and again.

`Disk!Spec` assumes that the disk goes on with a command and that a caller in
`read_disk` or `write_disk` goes on with it: the scheduler is fair
(`ReadyRuns`), and a masked call is not interrupted. The other modules state
safety only.

## 4. What is proved

Every theorem holds for all values of the constants that the module's
`...Assumption` allows: any number of tasks, semaphores, pids, pages, screen
cells, sectors, files. "Under" lists what a theorem assumes beyond that; each of these
is a discipline the code relies on without enforcing it, and the table above
shows what happens without it.

| Module | Theorem | Property | Under |
|---|---|---|---|
| `SchedProofs` | `TypeCorrect` | `TypeOK` | |
| | `SemaphoresBalanced` | `SemaphoreBalance` | |
| | `QueuesConsistent` | `QueuesMatchTasks` | `~CreateWhenFull` |
| | `SchedulerAlwaysFindsATask` | `SchedulerNeverStuck` | `~CreateWhenFull` |
| | `PidsAreReusedSafely` | `PidReuse` | `~CreateWhenFull` |
| | `SleepersWakeOnTime` | `WakesOnTime` | `~CreateWhenFull`, nobody sleeps for 0 ticks |
| | `BlockedQueueConsistent` | `BlockedMatches` | `~CreateWhenFull`, one semaphore, always fewer than `SEGMENTS + 3` tasks blocked (`FewWait`) |
| `PreemptProofs` | `SemaphoresExclude` | `MutualExclusion` | `Masked` |
| | `PreemptImplementsSched` | `ImplementsSched` (refinement) | `Masked`, `~CreateWhenFull`, `InitCount <= MaxCount` |
| `PidQueueProofs` | `TypeCorrect` | `TypeOK` | |
| | `RingImplementsList` | `ImplementsList` (refinement) | `Masked` |
| `PagingProofs` | `TypeCorrect` | `TypeOK` | `Masked` |
| | `TasksRunTheirProgram` | `RunsItsProgram` | `Masked` |
| | `PagesHaveOneUse` | `PagesNotShared` | `Masked` |
| | `KernelMapStays` | `KernelMapKept` | `Masked` |
| `FileSysProofs` | `FilesConsistent` | the invariant `FileInv` | `Careful`, `BLOCK <= MaxSize`, `SWAP_START < NSectors` |
| | `FileTypes` | `TypeOK` | the same |
| | `FilesAreKept` | `FilesKept` | the same |
| | `ChainsAreDisjoint` | `ChainsDisjoint` | the same |
| | `ReadsAreRight` | `ReadsReturnText` | the same |
| | `SwapIsKept` | `SwapKept` | the same |
| `InterruptsProofs` | `TypeCorrect` | `TypeOK` | |
| | `InterruptsReadyWhenEnabled` | `UnmaskedAreHandled` | |
| | `ServiceEndsWithTheHandler` | `ServiceEndsInHandler` | |
| | `TasksStayInterruptible` | `TasksInterruptible` | |
| | `EchoIsCorrect` | `EchoesWhatWasTyped` | shift and caps lock do not repeat |
| `ConsoleProofs` | `TypeCorrect` | `TypeOK` | `Masked`, `Careful` |
| | `CursorStaysInStep` | `CursorInStep` | `Masked`, `Careful` |
| | `ConsoleImplementsTerminal` | `ImplementsTerminal` (refinement) | `Masked`, `Careful` |
| `DiskProofs` | `TypeCorrect` | `TypeOK` | `Masked`, `Prompt`, `Resident` |
| | `ReadsAreRight` | `ReadsReturnSectors` | `Masked`, `Prompt`, `Resident` |
| | `WritesAreRight` | `WritesLand` | `Masked`, `Prompt`, `Resident` |

Three of these are about sizes and not about discipline: a semaphore's initial
count does not exceed the bound of the model; a file may be as large as the
full sector that `fs_test` writes to `usr` (`BLOCK <= MaxSize`); and the disk
does not end before the swap area begins.

The inductive invariants, all model-checked before they were proved:

- `Sched`. `SchedulerNeverStuck` is not inductive: that a ready task exists
  follows from there being two idle tasks that never leave the ready queue
  except to run, and this needs the agreement of queues and states. `IInv` is
  `TypeOK /\ QueuesMatchTasks /\ IdleActive`, where `IdleActive` says that the
  idle tasks have descriptors and are ready or running: at most one of them is
  running, so the other is in the ready queue. `PidReuse` follows from it, as a
  pid without a descriptor is in no queue. `SleepInv` adds that a sleeper's
  counter and the ticks it has slept make up what it asked for, with a tick
  owed by the tasks `check_wakeup`'s loop has not reached. `BlockInv` says that
  with one semaphore the two queues of blocked tasks are equal; `signal`'s
  deletion then names a slot beyond the queue, and what is dropped is the head.
- `Preempt`. `HoldInv`: only the running task can be in a call; and at every
  label of `wait` and `signal` the holders, the count and the queue of the
  semaphore are related by how far the call has got (decremented but not
  enqueued, given up but not handed on). `RefInv`, for the refinement, adds
  `CallsTraced`: `before` is a copy of the variables at the beginning of the
  call, and at every label the current variables are those of `before` changed
  by the statements executed so far. When the call ends, what `Sched` sees jumps
  from `before` to the current variables, and these are then what the atomic
  call gives. One thing the statements themselves do not give, that a task that
  exits is in state `RUNNING`, comes from the theorem about `Sched`: `RefInv`
  contains `IInv` for the variables as `Sched` sees them.
- `PidQueue`. `ListInv`: the ring's contents are distinct pids, hence (by the
  pigeonhole principle) fewer than slots, so that it never becomes full; in the
  middle of an enqueueing the pid is in the tail's slot.
- `Paging`. `PagingInv`: every allocated page has one use; the shape of
  directories and kernel tables; for a `sys_execve` under way, what each label
  has built; for every other task, its code loaded or in its swap sector; and a
  count of pages, which shows that memory suffices.
- `FileSys`. `FileInv` is `Sound /\ Texts /\ Handles /\ Swapped`. `Sound`: the
  FCB of the root and every FCB in it describe a chain that has no cycle, ends
  in `last_sector`, has room for `file_size` and lies in the bitmap below the
  swap area; two chains have no sector in common. `Texts`: the entries'
  names are distinct and are those of `text`, and cell by cell each chain holds
  its text. `Handles`: the FCB of every open file is what the directory has at
  some index, or what it had before the file grew, and then it still counted
  the sectors its size needs, so that a read with an FCB that is out of date
  does not leave the chain; both positions are in the sector they belong to.
  `Swapped`: the pages of the swap area are as they were written. None of the
  five properties is inductive alone: a read is right because the position's
  sector is, a write damages no other file because chains are disjoint, and
  chains stay disjoint because every sector of a chain is in the bitmap.
  The proof goes from the bottom up: following a chain, `covering_write` (which
  rewrites the cells of one or two sectors), `file_expand` (which appends a
  sector), `store_file_cached`, and from these `sys_write`, described by `Step`:
  what may have changed on a disk when file `i` gets another FCB. `Created` is
  the same for `sys_create`, which shifts the directory's later entries, and
  `Elsewhere` for `sys_execve`, which changes only the swap area. The directory
  is a file whose cells are FCBs, so an insertion into it uses the same lemmas.
 every task is in its own code or in one handler
  that interrupted it, tasks off the processor are at the end of the timer's
  handler, and what `main` has set up at each of its steps. `TypingInv`: the
  scan codes under way lead from the shift and caps lock state of the driver to
  that of the keys, through a sequence of modes in which each does what its user
  expects.
- `Console`. `ConsoleInv`: the hidden row holds only the character that did not
  fit, at most one writer is in a call, and for this one how memory and the
  three cursors differ from what was last shown.
- `Disk`. `DiskInv`: at most one call; for it, the registers set so far
  (together address and count, reassembled from the halves by lemmas about
  quotients and remainders), the sector the disk is at, the words moved and the
  sectors stored.

Lemmas about lists, quotients, page table operators, cardinalities and frames
are stated once and cited.

Only model-checked:

- liveness (`ReadyRuns`, `SleeperWakes`, `KeysAreRead`, `TimerNeverStops`,
  `CallsEnd`), which is out of the prover's reach;
- `Paths`: a path is resolved character by character, by a recursive function
  that also changes the caller's `file_cached_t` on the way, and its
  properties say what this function computes for every path. The prover has no
  usable rule for induction over data (the library's rules take an operator as
  a parameter). In `FileSys`, where the recursion is only the step from one
  sector of a chain to the next, the induction is done by hand, from the least
  counterexample; for `Walk` this was not attempted.

## 5. What is not modelled

- The interleaving of the loads and stores inside `pid_dequeue`,
  `pid_queue_delete`, `p_malloc` and `swap_alloc` with interrupts; file system
  calls are single steps.
- Exhausted physical memory and a full disk, whose results the code uses
  unchecked (what a store to 0xFFFFF000 does depends on the machine); the wrap
  of a semaphore's 16-bit count.
- Access flags of pages, user mode (all tasks run in kernel mode) and the
  encoding of descriptors.
- An FCB that straddles two sectors, buffers that are too small for a file,
  names and paths that are longer than their arrays.
- Errors reported by the disk, which the driver does not look at; lost or
  spurious interrupts and scan codes.
- The characters of the keyboard's table and the attributes of the screen;
  `itoa` and `reverse`, which only feed debug output; `interrupt_disable`,
  `p_free`, `load_alloc_table` and `save_alloc_table`, which nothing calls.
- The ticket-selling tasks of `main.c`, which nothing starts.
- The boot sector and the loader: straight-line set-up without state of their
  own.

## 6. Plan

Done, in this order: queues; scheduler and semaphores; statement-level
interleaving; proofs about the scheduler; memory and program start; files;
interrupts and keyboard; console; disk driver; paths; the swap area beside the
files; the ring's enqueue under interrupts; proofs about semaphores, queues,
memory, interrupts, console and disk; the refinement of the atomic kernel calls
by their statements; proofs about files.

Left: proofs about `Paths`, beginning with what `Walk` returns for a path whose
directories all exist; the interleaving of the loads and stores inside
`pid_dequeue` and `pid_queue_delete` with the timer's handler; file system
calls of two clients interrupted between two sectors.
