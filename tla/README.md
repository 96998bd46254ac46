# GenOS: a verification development in TLA+

This directory models parts of the GenOS kernel (`src/`): the parts whose
correctness depends on an order of steps, of several CPUs, of a device, or of a
user program, that no test of the repository can enumerate. Every definition is
translated from the C source; `PROJECT.json` ("map") names the lines each one
stands for. Definitions keep the C names where they model one function.

Model-check a configuration with `tlc -config X.cfg Module`, check proofs with
`tlapm XProofs.tla`.

## 1. The system

GenOS is a small x86-64 kernel booted through UEFI/Limine. It runs ring-3
programs on one or more CPUs, with a shell, an in-memory file system, virtio devices
and a small crypto/keystore service.

| Part | Source | State it keeps | Operations | What makes it correct |
|---|---|---|---|---|
| Tasks and reaper | `kernel/task.c` | the task list, `state`, `cpu_id`, `pml4`, `thread_count`, `wait_target_pid`; per CPU `current` and `retiring` | create, fork, clone, exit, group abort, sleep, `wait_pid`, reap, context switch | nothing in use is freed, one CPU per stack, no lost or false wakeup, every dead task is reclaimed |
| Scheduler | `schedule()` in `kernel/task.c`, PIT and LAPIC timers | `priority`, `nice`, `quantum`, `ready_since`, `sleep_until` | tick, preempt, wake, nice | bounded overtaking, no starvation |
| Locks, TLB shootdown, SMP bring-up | `cpu/preempt.c`, `cpu/local_lock.h`, `cpu/irq_lock.h`, `cpu/tlb.c`, `cpu/smp.c` | recursive test-and-set lock with a per-CPU count, device and leaf locks, per-CPU mailbox and acknowledgement, AP gate | `preempt_disable/enable/try`, `tlb_shootdown`, `tlb_poll`, AP start | exclusion, no circular wait, no stale translation once a shootdown has returned |
| Physical and virtual memory | `mm/pmm.c`, `mm/vmm.c`, `mm/cow.c`, `mm/user_memory.c`, `mm/shm.c`, `mm/heap.c` | frame bitmap and reference counts, page tables, per-task ownership lists, segments, heap blocks | alloc/free/ref, map/unmap, fork clone, CoW fault, user alloc/free/realloc, shm create/attach/detach/destroy, kmalloc/kfree | no frame in use is free, none leaks, fork isolates, blocks do not overlap |
| System calls and faults | `cpu/syscall.c`, `cpu/isr.c`, `cpu/uaccess.c` | none of their own | dispatch, copy in/out, fault resolution, group abort | a killed task does nothing more; no unchecked user address |
| Asynchronous I/O | `drivers/io_request.c`, `drivers/block.c`, `drivers/net.c`, `drivers/virtio.c`, `drivers/virtio_irq.c` | one request per device with id, owner and waiters; queue indices; interrupt routes | begin, complete, abort, expire, cancel, submit, poll, collect, reset | a result belongs to the request that is collected; a late answer is not taken for another request's |
| Files | `fs/vfs.c`, `fs/tmpfs.c`, `fs/tar.c`, `fs/cache.c`, `fs/elf*.c` | file slots, descriptors per process, cache blocks | open, read, write, seek, unlink, cache read/invalidate, ELF check | a call through a valid descriptor acts on the file that has its slot, listings are exact, a loaded image is the file's; the cache agrees with the file |
| Input | `drivers/keyboard.c`, `mouse.c`, `ps2.c`, `input.c` | event ring, modifier and packet state | interrupt decode, push, peek, consume | events in order, dropped ones counted |
| Security | `security/cred.c`, `security/keystore.c`, `crypto/*` | credentials, key slots | check, login, store, load, hash, cipher | only owners reach their keys |
| User side | `shell/`, `desktop/`, `libc/`, `app/` | interactive programs | - | - |

How they interact. Every guarded section of the kernel runs under one global
recursive lock (`PREEMPT_GUARD`). User programs enter through `syscall_handler`,
which holds that lock from its entry check to its end; timer interrupts enter
through `isr_handler` and call `schedule()`, which only tries the lock. An edit
of a page table on one CPU interrupts the others and waits, with the lock held,
for their acknowledgement. Devices have a lock of their own, below the global
one, and are served by a kernel task.

What is hard here: CPUs interleave between guarded sections and inside the code
that is not guarded (the IRET, the acknowledgement of a shootdown, the first
instructions of an interrupt); a task can be killed by a sibling at any moment;
the reaper frees what other CPUs have just stopped using; devices answer after a
timeout; multi-step constructors fail half-way; counters and rings reach their
limits. `PROJECT.json` ("hazards") lists each at its line.

## 2. Modules

| Module | Models | Proofs |
|---|---|---|
| `TaskLife` | life of a task on any number of CPUs | `TaskLifeProofs` |
| `Scheduler` | which task a tick picks on one CPU | `SchedulerProofs` |
| `SchedulerTurns` | `Scheduler` with a history variable, for one finding | - |
| `Shootdown` | the mutation, device and leaf locks, TLB shootdown with its check of the VMM lock, the page-table editors that start one, copy-on-write, frame counts | `ShootdownProofs` |
| `BlockIo` | one disk: request slot, admission tickets, blocking callers, asynchronous client, service, device | `DevicesProofs` |
| `UserMemory` | who owns a frame: private pages, shared segments, fork, failing constructors | - |
| `PageFrames` | the frame allocator and its start from the firmware map | `MemoryProofs` |
| `PageTables` | the page-table trees and address spaces | - |
| `Heap` | the kernel heap, byte by byte | `MemoryProofs` |
| `ElfLoader` | ELF validation and loading | `MemoryProofs` |
| `UserCopy` | copies between kernel and user memory with faults | - |
| `SmpStart` | bringing up the other processors | `SmpStartProofs` |
| `FileTable`, `FileStore` | descriptors and tmpfs; what a store of named files promises | - |
| `BlockCache` | the read cache in front of the archive | `ServicesProofs` |
| `Ring`, `Fifo` | the event ring, access by access; a bounded queue | `ServicesProofs` |
| `Input` | decoding of keyboard and mouse bytes | `ServicesProofs` |
| `VirtQueue` | a virtqueue with wrapping indices, also against a faulty device | `DevicesProofs` |
| `Network` | one network interface with its callers and the service | `DevicesProofs` |
| `IrqRoutes` | virtio start and stop, the route table, the PIC | `IrqRoutesProofs` |
| `KeyStore`, `KeyMap` | the key store; what a map promises | `ServicesProofs` |
| `MemoryCore` | `Heap` with `PageFrames` and `ElfLoader` on variables of their own | `MemoryProofs` |
| `Memory` | `MemoryCore`, `PageTables`, `UserCopy` and `UserMemory` side by side | - |
| `Services` | `Ring`, `FileTable`, `BlockCache`, `KeyStore` and `Input` side by side | `ServicesProofs` |
| `Devices` | `BlockIo`, `Network`, `VirtQueue` and `IrqRoutes` side by side | `DevicesProofs` |
| `MCTaskLife`, `MCScheduler`, `MCShootdown`, `MCMemory`, `MCServices`, `MCDevices` | values for the constants of one module | - |
| `MCTaskLifeLive`, `MCDriverLive`, `MCUnanswered` | instances side by side, with fairness; `MCUnanswered` has the boot and a disk | - |

Four modules are shown to implement an abstract one, with the abstract
specification as (part of) a checked property: `FileTable` implements `FileStore`
(`ImplementsStore`), `Ring` and `VirtQueue` both implement `Fifo` (`ImplementsFifo`),
`KeyStore` implements `KeyMap` (`ImplementsMap`). The refinement mappings are next
to these properties.

A module states its safety invariants one by one, each with what it is about, and
together as `Safety`. The modules of a layer are checked in one run: `Memory`,
`Services` and `Devices` extend one of their components (`Memory` by way of
`MemoryCore`, which has its first three), instantiate the others, declare the variables
of all, and the initial state chooses the `part` that moves; the others stay as they
started, so that the states of the parts add up and do not multiply. The layers leave
their constants open, so that theorems can be stated about them; `MCMemory`,
`MCServices` and `MCDevices` give the values. `MCDriverLive` and `MCUnanswered` are
built in the same way, with fairness. Each of these runs has one property per component
(`HeapSafe`, `DiskSafe`, ...): its `Safety` with its action properties and its
refinement.

The modules fit together as follows. `TaskLife` takes a section under the global
lock as one step; `Shootdown` models the lock itself and shows that such
sections exclude each other (`MutualExclusion`) and that nobody waits in a circle
(`NoWaitCycle`). `TaskLife` leaves open which READY task is picked and assumes
that an eligible reaper is picked in the end; `Scheduler` models the choice and
shows `StarvationFree`. `TaskLife` destroys an address space when its last user
is gone; `Shootdown` covers what happens to its frames while it has users.
`BlockIo` takes a section under the device lock, one of the locks of `Shootdown`,
as one step, and the death of a caller from `TaskLife`.

Below `UserMemory`, which counts references to frames, `PageFrames` models how the
allocator keeps the counts and finds frames, and `PageTables` how a mapping is
entered, rolled back and pruned; `Shootdown` has the translations of one address
space on several CPUs, `PageTables` the tree without TLBs but with a CPU walking it.
`ElfLoader` builds the first pages a process owns. `UserCopy` uses the same
copy-on-write rule as `Shootdown` and looks at the bytes. `Network` takes its queues
as counts, `VirtQueue` has their indices; `Network` and `BlockIo` take an interrupt as
a signal to the service, and `IrqRoutes` shows that it arrives. `Input` takes its two
buffers as queues, which `Ring` shows them to be, and `UserCopy` has the reader's
peek, copy, consume.

### 2.1 TaskLife

State. `listed` is the task list (pids grow and are never reused, the list only
grows at its tail, so it is a set in pid order); `state`, `cpu`, `pml4`,
`threadCount`, `waitTarget` are fields of `struct task`; `current` and
`retiring` are fields of `struct percpu`. Two variables are not C variables:
`onStack` is the kernel stack the CPU really is on, which differs from `current`
between `schedule()` and the IRET, and `pc` is the place of a task between two
guarded sections (`run`, `block`, `exit`, `fault`, `halt`, `reap`, `park`). An
address space is named by the pid of the process that created it, so
`is_thread(t)` is `pml4[t]` being somebody else's.

Actions. One per system call that changes tasks (`sleep_current_task`,
`wait_for_pid`, `create_user_task`, `task_fork`, `task_clone`, `SyscallExit`),
each with the head of `syscall_handler` (`SyscallEntry`: DEAD check, running
mark, `task_context_enter`), and `SyscallOther` for the ones that change none;
`task_wait_current` at the end of the call; `task_abort_current_group` for a fatal user
fault; `exit_current_task`; `task_reap_dead` and `ReaperPark`, the reaper's two
guarded sections; `ScheduleKeep`/`ScheduleSwitch`, the two outcomes of
`schedule()` with its head (wake sleepers, wake the reaper); `Iret`;
`Interrupt`, any other kernel entry; `create_task_on_cpu` and `task_set_cpu`.

Abstractions. A field of a freed task gets the value `task_alloc` gives the next
one. `wait_target_pid` is cleared when a wait returns, where the C code leaves a
value that nobody reads. When a sleeper is due and which task is picked are left
open. `kernel/wait.[ch]` is not in the tree, so device waits are not modelled.

### 2.2 Scheduler

State: `state`, `priority`, `quantum`, and times relative to now: `age` (ticks
since `ready_since`, capped at the only value it is compared with) and
`sleepLeft`. Actions: `Tick` (boot CPU: time and `schedule()`), `LocalTick`
(another CPU: `schedule()` only), `TimePasses` (time only: another CPU's tick, or
the lock was taken), the system calls and `WakeWaiter`. `Picked` is the scan:
the best effective priority, the first one behind the current task.

### 2.3 Shootdown

State: the three lock words, `preempt_count`, the interrupt flag, the place of
each CPU (`pc`, `dev`, `leaf` for the nesting global guard / device lock / leaf
lock), `online` and `ap_go`; the mailbox of `tlb.c` and its per-CPU halves;
`poll`, a CPU between its invalidation and its acknowledgement; `op`, the locals
of a shootdown and of its caller; the leaf entries `pte` of one address space,
the `tlb` of each CPU and the frame counts.

Actions. Lock words change in single atomic steps; spinning is the absence of a step.
`PollInvalidate` and `PollAck` are the two halves of `tlb_poll`, from the IPI or from a
spin loop (`SpinPolls`: which loops poll is the code's deadlock avoidance).
`tlb_shootdown` is entered by each editor in the step that changes the entry. Its first
line traps if `vmm_lock_held` says no (`SenderTraps`): the exception handler halts the
CPU with interrupts off (`Halted`), inside the call, with the mutation lock held and the
frames to be dropped still counted. If it says yes (`SenderStarts`) the mailbox is set
up; `ShootdownPost` and `ShootdownAwait` walk the CPUs one at a time so that a CPU can
come online in between; `Release` gives back the frames. `vmm_map_page_in`,
`vmm_unmap_page_in`, `user_free`, `cow_clone_address_space` with one `CowCommit` per
page, and `CowRetry`/`CowReuse`/`CowCopy`, the three outcomes of a write fault, are the
editors; `pmm_free_page` is another address space dropping its reference; `Fill` is the
page walker, which may cache any present entry at any time on any CPU.

The VMM lock. `cpu/tlb.c`, `cpu/tlb.h` and `documentation/vmm-locking.md` say that a
VMM lock serialises the mailbox and that the mutation guard is not enough. The tree has
no such lock: `vmm_lock_held` is called in `tlb.c:36` and defined nowhere, and every
caller of `tlb_shootdown` holds `PREEMPT_GUARD` alone (finding 3). The model therefore
has the locks that exist and takes the answer of the missing function from a constant,
`VmmLockHeld`, the set of answers it may give to such a caller. With FALSE in it a call
may trap; with TRUE in it a call may go on, and then it is the mutation lock that keeps
two senders apart. What `Shootdown` shows of senders that go on rests on the guard
standing in for the VMM lock in this way. A VMM lock that callers took inside the
guard, in the order of `vmm-locking.md:11`, would never be contended and would not
change the results; raw callers without the guard, which that document describes, are
not in the tree and are not covered.

Abstractions. One address space; other ones show as extra references. A CPU
that runs another address space is a CPU that does not fill. Page-table frames
and shared-memory mappings are left out. An application processor caches nothing
before it is online: it runs only kernel code at its gate.

### 2.4 BlockIo

State: `disk`, a record with the request (`requests[i]`: id, owner, pending,
result, waiters), the part of `disks[i]` the properties need (online, buffers
allocated) and the virtio queue (commands in the hands of the device, answers
not yet popped); `initialized`, `disk_count`, `next_id`; for each blocking caller
its place in `request()`, its `admission` and its `token`; the client's token; the
locals of `block_service`; and `served`, a history of the ids the device carried
out.

A section under the device lock is one action. The functions such a section
calls (`stop`, `poll_request`, `io_request_complete`, ...) are operators from a disk
to a disk, composed in the order of the code. `request()` is split where the lock
is released: submit (`SubmitOk`, `SubmitBusy`, `SubmitRefused` for the outcomes of
`submit_owned`), `QueueReturn`, `GiveUp`, `Collect`, `WaitReturn`. `block_service` is
split into its first section, the question about the owner, and its second
section or the try-lock that fails.

Abstractions. Time is a flag per deadline that may be raised at any moment while
the deadline counts. A wait queue (`kernel/wait.h` is not in the tree; the drivers
show its contract) is the set of tasks for whom it was signalled since their
snapshot. A device answers in order, with success, an error, or an answer the
driver refuses; it may answer late or never, change its capacity, and ignore a
reset, in which case it still has its commands. Calls with invalid arguments
return before any state changes and are left out, and so are the sector data; the
service task is taken to be started.

### 2.5 Memory: UserMemory, PageFrames, PageTables, Heap

`UserMemory`. Per process the list of allocations (`user_pages`), the page table, the
next search address and the attached segments; the segments of `shm.c` with owner
and attachment count; the reference count of every frame. Every operation holds
the mutation lock, but those that take frames one at a time (`user_alloc`,
`user_realloc`, `shm_create`, `shm_attach`, fork's clone) are split into one step per
frame, and each step may fail, after which the roll-back runs; `kop` is the
operation under way. Death and reaping give everything back. A mapping can fail
for want of a page-table frame at any point. The copy of `user_realloc` is left
out: contents are not modelled. `refcount` of a segment counts attachments, not
processes: a process that attaches twice counts twice.

`PageFrames`. `pmm_init` is computed from a firmware map as the initial state
(highest address, placement and size of bitmap and counts, usable ranges rounded
inwards, reserved low frames); then single and contiguous allocation with the
search of the code, `pmm_ref_page`, `pmm_free_page`, including calls the manager must
ignore. `held` is a history of what callers hold.

`PageTables`. Tables are frames with a function from index to entry; a tree has
`Top + 1` levels. `vmm_map_page_in` makes tables on the way and rolls back;
`vmm_map_pages_in` undoes a range; unmapping clears leaves, prunes empty tables
bottom-up and retires them in a buffer of `RetireMax`, flushed when full; address
spaces are created (sharing the kernel half), switched and destroyed. `walk` is a
CPU that has read a table and may still use it until flushed. Ranges are mapped
in processes only; the kernel's caller (the heap) maps page by page.

`Heap`. `blocks` is the list of headers, `mem` the bytes: a header, an owner's
content or nothing. `kmalloc` with growth page by page while frames last, split,
`kfree` with both merges, `krealloc` in place or by copy. A request that cannot be
satisfied keeps what the heap grew by.

### 2.6 Programs and copies: ElfLoader, UserCopy

`ElfLoader`. The file is chosen as the validator reads it. Values are below `Word`
and sums wrap, so the overflow checks of `elf_validate` matter. `elf_load` takes one
page per step, each of which may fail; `task_discard` cleans up. A byte of the file
is named by its offset. `elf_load` validates a second time, for the capacity of the
page list that `user_pages_reserve` has doubled until it is enough (`ReservedPages`);
`ValidatedLoads` says that this second look never refuses what the first accepted.

`UserCopy`. A copy is a byte per step. A fault either resolves a copy-on-write page,
and the byte is tried again, or is fixed up and the call returns an error, or
(what `CopyNeverPanics` excludes) finds no fix-up. A sibling stores into the same
pages meanwhile, another process shares them after a fork, and memory runs out.
`user_write_prepare` breaks sharing first; syscall 51 peeks at the event, copies,
and consumes only if the copy succeeded.

### 2.7 SmpStart

The boot processor's phases in the order of `kernel.c`, and per processor the
steps of `smp_ap_main` at its own speed: in time, after the bounded wait, or
never. Stacks and idle tasks may fail to allocate. `Tick` is a timer interrupt on
a running CPU, and user tasks are placed by `placement_cpu`. The first user task
always lands on CPU 0.

### 2.8 Files: FileTable, BlockCache

`FileTable`. `tmpfs` slots with name and buffer, a descriptor table per process,
`open`, `read`, `write`, `seek`, `close`, `readdir`, `create`, `unlink`, the chunk loops of
`syscall_io.c` (a chunk may find the disk full after others succeeded), fork's copy
of the table and its release at death. `open` with `O_CREATE` leaves the new file even
if no descriptor is free.

`BlockCache`. Hash chains and LRU list as sequences of pool indices, one block per step
of `cache_read`; a tag is the name as `Tag` cuts it. `cache_invalidate` and
`cache_flush_all` are actions although nothing calls them yet.

### 2.9 Input: Ring, Input

`Ring` has one step per access to an index or slot, with producer and reader
interleaved. `Input` has the bytes: reports of keyboard (plain, E0, E1) and mouse
are sent byte by byte, mixed, with line errors; `keyboard_handler` and
`ps2_mouse_byte` decode them as the code does. Releasing one of two held shift keys
clears `shift_pressed`; `ShiftHeld` therefore speaks of no key held. The prefix state
of the keyboard is not reset by a line error, and a mouse packet that lost a byte
can be followed by a false one if its data have bit 3 set. `noise`, chosen at the
start, says whether bytes may be lost; if so, the devices send codes without prefix
and packets whose data have bit 3 clear.

### 2.10 Devices: VirtQueue, Network, IrqRoutes

`VirtQueue`. Submit and pop with indices modulo `IndexMod` (2^16 in the code), in the
use `net.c` makes of them to receive; the device takes, fills and reports buffers in
any order and, if `Faulty`, reports anything. `Devices` has two instances of it on the
same variables, `Queue(Honest)` and `Queue(Lying)`, which differ in the values of the
constants.

`Network`. `nic` is one interface with its request slot and receive state, `device`
what the device has. Tasks receive (begin with a snapshot of epoch and event, try,
wait, time out) or send (submit, sleep, collect, cancel, die). The service has the
two sections of `net_service`. Receive buffers are resubmitted at once, so the check
of the used count against `outstanding` never bites there.

`IrqRoutes`. Per device the driver's place (`pc`), the PCI mask, the interrupt
suppression, the status register; the route table; the PICs' in-service bits; the
handler on the boot processor. `virtio_ready` and `virtio_stop` are split at every
step an interrupt can see. Devices on one line are read under `route_lock` in one
step. Spurious interrupts come at any time on lines 7 and 15. The mask register of
the PIC is left out: `pic_enable_pci_irq` opens a line before anything can pull it
and nothing closes it.

### 2.11 KeyStore

Slots with name, value and passphrase, `keystore_init` (which forgets all slots),
`set`, `get`, `delete`, `count`, each a step under the mutation lock. A cipher is what
decryption gives back, and pads to whole blocks.

## 3. Runs

| Run | Configuration | Shows |
|---|---|---|
| `task_life` | 2 CPUs, 4 pids, 926 000 states | the invariants of `TaskLife` and `DeadStaysDead` |
| `task_live` | 2 CPUs with 3 pids, and 1 CPU with 4 pids; fairness | `Reclaimed` with two CPUs, `WaiterWakes` with one |
| `sched` | 3 tasks, interval 2, a nice value outside the range, fairness | `TypeOK`, `OvertakenOnce`, `StarvationFree` |
| `shootdown` | 2 CPUs with devices, 1 page, 2 frames, nesting 2, 3 shootdowns, either answer of `vmm_lock_held` at each call, fairness, 348 000 states | `NoStaleTranslation`, `FrameOwned`, `CowIsolation`, `MutualExclusion`, `NoWaitCycle`, `Acked` |
| `memory` | seven parts, 457 000 states, symmetry | `FramesSafe`, `TablesSafe`, `HeapSafe`, `ImageSafe`, `CopiesSafe`, `SharingSafe` |
| `services` | six parts, 665 000 states, symmetry | `RingSafe`, `FilesSafe`, `CacheSafe`, `KeysSafe`, `InputSafe` |
| `devices` | six parts, 1 060 000 states, symmetry | `DiskSafe`, `NetSafe`, `QueueSafe`, `RoutesSafe` |
| `driver_live` | 1 receiver and 1 sender; 2 devices on line 15; fairness, 91 000 states | `NetAnswers`, `InterruptsServed` |
| `unanswered` | two parts, fairness, 159 000 states: a boot of up to 3 processors; 1 caller of a disk with the client and 3 ids | `Safety` of `SmpStart`, `BootProgress`, `NobodyWaitsForever` |
| `shootdown_check` | the same, `vmm_lock_held` always says no | violation of `SenderHoldsLock`: finding 3 |
| `task_leader` | 2 CPUs, 3 pids | violation: finding 1 |
| `sched_turns` | 3 tasks, long interval | violation: finding 2 |

Symmetry permutes what no operation tells apart: the frames of processes in `memory`,
two processes in `services`, two tasks in `devices`. The three runs check no liveness.

The parts of the three layers:

| Part | Module | Instance | Property |
|---|---|---|---|
| `frames` | `PageFrames` | 4 firmware maps, at most 10 frames, requests of 0 to 3 | `FramesSafe` |
| `tables` | `PageTables` | 3 levels, 7 frames, 2 processes, retirement buffer of 2 | `TablesSafe` |
| `heap` | `Heap` | 3 owners, sizes 1, 3, 6, 2 growths | `HeapSafe` |
| `elf` | `ElfLoader` | up to 3 program headers, pages of 2 bytes, words of 32 values | `ImageSafe` |
| `copy` | `UserCopy` | 2 pages of 2 bytes, 3 frames, 1 event | `CopiesSafe` |
| `user`, `family` | `UserMemory` | 2 processes with 4 frames and 1 segment; 3 processes with 3 frames and 2 segments | `SharingSafe` |
| `ring` | `Ring` | 4 slots, 3 items | `RingSafe` |
| `files`, `listing` | `FileTable` | 2 processes with 2 slots of at most 2 cells; with 3 slots and listings | `FilesSafe` |
| `cache` | `BlockCache` | 2 files in shared chains, 3 blocks | `CacheSafe` |
| `keys` | `KeyStore` | 2 slots, 3 names, 2 passphrases | `KeysSafe` |
| `input` | `Input` | without noise, reports of all kinds mixed with mouse packets; with noise, plain ones, and any byte may be lost | `InputSafe` |
| `disk` | `BlockIo` | 2 callers and the client, 2 ids, 1 ticket | `DiskSafe` |
| `net` | `Network` | 2 tasks that receive and send, resets and a second set-up | `NetSafe` |
| `queue`, `faulty` | `VirtQueue` | ring of 4, 2 buffers, indices modulo 8; ring of 2 with any report | `QueueSafe` |
| `shared`, `full` | `IrqRoutes` | 2 devices on one line; on two lines with 1 route | `RoutesSafe` |

What the properties and their parts are about:

- `KernelStackPinned`: the reaper, on one CPU, never frees a task whose stack
  another CPU is on, enters or has not left. The `retiring` slot carries this
  across the IRET.
- `AddressSpacePinned`, `ThreadCountExact`: a leader outlives its group.
- `StackExclusive`: no stack is used by two CPUs, also when `task_set_cpu` moves
  tasks.
- `NoLostWakeup`, `WaitReturnsAfterDeath`, `WaiterWakes`: a `wait_pid` neither
  sleeps through its target's death nor returns before it. The reaper kills the
  threads of a dead leader without waking their waiters; they wake when the
  thread is freed.
- `DeadStaysDead`: an action property; no tick, wakeup or system call revives.
- `Reclaimed`: the reaper parks without looking again, so a task that dies in
  between depends on a later tick.
- `OvertakenOnce`: each scan picks a starved task or moves its start closer to
  it; `StarvationFree` is the liveness that follows.
- `NoStaleTranslation`, `FrameOwned`, `CowIsolation`: what a returned shootdown
  promises, through every interleaving with polls, fills and CPUs that arrive. A sender
  that trapped never returns: the page it was called for may stay stale, but its frames
  stay counted and nobody is let into the guard after it.
- `NoWaitCycle`, `Acked`: the mutation, device and leaf locks and the acknowledgements.
  `Acked` says that a posted request is answered, so that a sender past its check does
  not wait for ever; it does not say that every call returns. CPUs that spin for the
  lock of a trapped sender spin for ever, which is no circle.
- `OkIsServed`: all answers carry descriptor 0, so only the stop after a time-out
  keeps a late answer from being taken for the next request's.
- `DmaPinned`: buffers live while the device may write them (also after a reset it
  ignored) and while a result waits to be copied.
- `SlotKept`: the service's look at the owner is old when it cancels; the second
  look at id and owner keeps a live task's request in its slot.
- `TicketsOwned`, `DeadLeaveLine`, `DeadLeaveSlot`: nobody waits behind a caller who
  gave up or died.
- `CallReturns`: the wait for a result has no deadline; every completion signals.
- `RefsExact`, `MappedIsOwned`, `WritableIsPrivate`: counts equal owners in every state
  between two frames of an operation that may still fail, so nothing leaks and
  nothing in use is free; after fork no frame is writable from two sides.
- `AttachmentsCounted`, `NoOrphanSegment`: a segment lives while attached, also after
  its creator's death, and goes with its last user. `RangesApart`, `FirstFit`: address
  ranges keep a gap and the search misses no hole.
- `OutOfMemoryIsReal`: the contiguous search refuses only what is not there.
- `NoWalkInFree`: a table a CPU may still walk is not freed, also when the retirement
  buffer overflows in the middle of a range. `FailureRestores`: a mapping that runs out
  of memory leaves the trees as they were; `Pruned`: no empty table stays behind.
- `Tiled`, `Intact`, `NothingLost`: blocks tile the heap, contents survive split, merge
  and move, and merging leaves no two free neighbours.
- `ImageExact`, `ReadsInFile`, `ValidatedLoads`: what the validator accepts loads as its
  headers say, with sums that wrap; only memory can stop it.
- `PreparedNeverFails`: what `user_write_prepare` checked stays writable to the end of the
  call although a sibling runs; `EventDelivered`: an event whose copy failed is not lost.
- `TimerSafe`, `PlacedRuns`, `BootEnds`: the gate, late processors, bounded waits.
- `ListingExact`: a file present throughout a listing is returned once, whatever is
  created and deleted meanwhile.
- `ReadsTheFile`: cached blocks are the file's, through eviction and collisions.
- `OneEventPerReport`: prefixes, Pause, mixed streams and lost bytes.
- `CountsAgree`, `BuffersOwned`: index wrap, and a device that lies.
- `FrameWakes`, `LinkLossWakes`, `ResetCancels`: the snapshot taken before the look and
  the epoch close the window between a look and a wait; a reset cancels those who
  began before it.
- `NoOrphanInterrupt`: a level-triggered line nobody would acknowledge hangs the CPU.
  `NothingInService`: end-of-interrupts match, spurious ones included. `ConfigKept`: one
  read acknowledges two kinds of event. `LineReleased`: no device on a shared line
  starves another.

Bounds. Two CPUs are enough for every race in `TaskLife` between the reaper's CPU and
another; four pids give a reaper, a shell, a thread or child and a second one, so that a
group of two with a waiter outside it exists. `MaxKernel` 2 allows one kernel task
besides the reaper. Two CPUs in `shootdown` are an initiator and a target that may
arrive during the walk; three shootdowns let a page be mapped, shared by a fork and then
copied or reused, and a later one could overwrite an earlier one's address; device and
leaf sections begin before the first of them (`SectionsEarly`) and meet it at each of
its steps (more CPUs and pages are covered by the theorems of section 5). In `disk` two
ids (`MaxId` is the last id, `UINT64_MAX` in the code, so running out of ids is covered)
give a request that dies or times out and one in the slot after it, and `unanswered` has
a third, for a caller that gets its slot after waiting in line; one ticket
(`IO_WAITERS_MAX` is 32) gives a full line with two callers. The boot has four loader
responses: the plain one, the boot processor last behind a hole with one processor too
many, the boot processor missing, none; four placed tasks go once round three
processors. `STARVATION_BOOST_INTERVAL` is scaled from its value in `task.c` to 2; the
theorem about it holds for every interval.

The other bounds. `family`: with three processes a forked page has two sharers and
a stranger, and three frames run out in the middle of every operation; `user` has
more frames and fewer processes for the address ranges.
`tables`: three levels instead of four keep a root, an inner level and a last
level, a root of four entries has two of each half, and a range over two tables
overflows a retirement buffer of two. `elf`: with pages of two bytes and words of 32
values, segments touch, overlap, wrap and cross the stack and the end of user
space. `heap`: header, alignment and sizes are scaled so that a remainder is smaller
than, equal to and larger than a header. `ring`: four slots are full with three
items, and indices wrap. `queue`: indices wrap every second round of the ring.
`files`: two cells are enough for a buffer that grows and a gap behind a stale
offset. `cache`: three blocks are fewer than two files have. `full`: the second
device finds the table full. Bounds on counters (`MaxId`, `MaxInits`, `MaxGrows`,
`MaxEvents`) are named in the modules and stop the calls that would pass them.

Deadlock is checked in every run except `memory` and `unanswered`: a failed constructor,
a heap with bounded growth and a boot that halts are ends of their parts (that of the
disk is checked for deadlock in `devices`). In `shootdown` a trapped CPU ends in a loop
(`Halted`), which does not count as a deadlock; one before any trap would be found.

Fairness. `TaskLife`: an interrupt handler returns and a begun exit ends (WF); ticks
keep coming and find the lock free again and again, so a task that cannot go on is
switched away (WF); the reaper, when eligible again and again, is picked (SF, justified
by `StarvationFree`) and advances in the time it gets (SF). No system call is fair.
`Scheduler`: WF of `Tick`, the boot CPU's timer. `Shootdown`: a pending IPI stays in the
LAPIC and spin loops poll in every round (SF of `PollInvalidate`); a poll and a leaf
section run straight to their end (WF). Nothing is assumed there of the spinlocks: a
test-and-set lock promises no CPU a turn. `BlockIo`: time passes and a caller that can
go on is scheduled (WF); the service runs every `IO_WATCHDOG_TICKS` and its try-lock,
tried again in each round on a lock held for short sections only, succeeds in the end
(SF). The device, the client and shutdown owe nothing. `Network`: the same for its
service and tasks, an interrupt that is pending is taken (WF), and nothing is assumed of
the device or of receivers' deadlines. `SmpStart`: each processor that has started
executes (WF) and gets ticks (WF); nothing makes a launched processor start.
`IrqRoutes`: a handler runs to its end (WF) and a line that is asserted again and again
is delivered (SF: spurious interrupts come in between); the service, the drivers and the
devices owe nothing.

Every property of a passing run has a mutant in `PROJECT.json`: a small change of one
definition (a guard dropped, a flush omitted, a lock released too early) under which TLC
finds the property violated; a property with several parts has several, for its
different parts. `MCTaskLifeLive`, `MCDriverLive` and `MCUnanswered` state the fairness
of their components again, for the part that moves.

## 4. Findings

1. `task_leader`: `exit_current_task` kills only the caller, so the threads of a
   leader that exits keep running until a reaper pass finds the leader inactive.
   `documentation/address-space-lifetime.md:22` and the comment of `task_clone`
   say that they die with it. The address space stays valid meanwhile
   (`AddressSpacePinned`).
2. `sched_turns`: `schedule()` starts its scan behind the task that leaves the
   CPU, whatever its priority, so of two tasks of equal priority one can be
   picked again after a high-priority task ran, while the other stays READY.
   `documentation/scheduler-memory-plan.md:21` and `:160` say that tasks of equal
   priority take turns. Aging bounds the wait.
3. `shootdown_check`: `tlb_shootdown` begins with
   `if (!vmm_lock_held()) __builtin_trap();` (`src/cpu/tlb.c:36`). `cpu/tlb.h:3` says
   "Internal VMM call: caller holds the VMM lock, never just PREEMPT_GUARD",
   `cpu/tlb.c:6` "Serialized by the VMM lock", and `documentation/vmm-locking.md:54-55`
   that the lock serialises the mailbox, that the sender checks that it owns it and that
   the mutation guard alone is not enough. But the tree has no VMM lock, no file of it
   defines `vmm_lock_held`, and `vmm.c` (lines 84, 96, 165, 204) and `cow.c` (50,
   76) call with `PREEMPT_GUARD` alone. Answered as the rule demands, the first page that
   is mapped, unmapped or protected stops its CPU, with the mutation lock held. As the
   tree stands it does not link; section 2.3 says what the results assume in its place.

Seen while modelling, without a run of their own:

- `unlink` frees the slot of an open file and the next `create` takes it; the old
  descriptor, and its copies by fork, then read and write the other file
  (`src/fs/vfs.h:41` and `:46` tie name and slot of a descriptor together).
  `ImplementsStore` therefore lets a write through such a descriptor change
  whichever file has the slot.
- A descriptor keeps the size it saw at its own open or write; a file that grew
  through another one ends early (`src/fs/vfs.c:150`, `vfs.h:43`).
- Tags of the block cache are cut at 63 characters, lookups are not; a file whose
  name is the first 63 characters of another's reads the other's blocks
  (`src/fs/cache.h:34`, `:36`). The names of the run are shorter than a tag.
- `percpu_init_ap` clears the TSS; a processor that starts after the bounded wait
  erases its double-fault stack and still goes online (`src/kernel/kernel.c:223`: one
  on each CPU). `DoubleFaultStackInTime` speaks of the processors that are not late.
- `vmm_read_pte_in`, with which `user_write_prepare` reads a page's entry
  (`src/cpu/uaccess.c:34`), is not defined in the tree either;
  `documentation/vmm-locking.md:34` says that it returns a snapshot. `UserCopy` takes it
  to return the entry of the page.
- `keystore_get` returns -1, which `src/security/keystore.h:28` calls "not found", for
  a stored value whose padding does not fit the buffer.

## 5. Proofs

All theorems hold for every value of the constants that satisfies the named assumptions
of the modules: a boot CPU among the CPUs, positive bounds, wait targets that are pids,
priorities of `Base` in range, a value `None` that is no page-table entry and no file, a
`VmmLockHeld` with at least one answer, file headers whose fields are words, a user
address space and a stack in whole pages, a longest page list that doubling the one
inside a task reaches (65536 pages from 32), heap sizes that are multiples of the
alignment, a first heap and a growth larger than a header, firmware maps that are
sequences of areas of natural numbers, a processor list in which no processor occurs
twice, a pool and blocks of positive size, rings whose length divides the range of the
indices and is below it (a power of two less than 2^16) and not below the number of
buffers, reports of the keyboard that are a code, a prefix with a code or Pause, and
three-byte mouse packets. `Memory`, `Services` and `Devices` repeat the assumptions of
their components for the constants they pass on, so that TLC evaluates them.

`TaskLifeProofs`. `IInv` adds to the properties: pids on the list have been
handed out; the reaper is a live kernel task; every CPU's `current` and
`retiring` are on the list and pinned to that CPU and its stack is one of them
(`CpuInv`); the owner of an address space is listed and its own leader
(`SpaceInv`); only a blocked, non-sleeping task has a wait target (`WaitInv`).
`CpuInv` is what makes `KernelStackPinned` inductive: the reaper frees only tasks
that are neither `current` nor `retiring` anywhere, and a stack in use is always
one of the two; the pinning part gives `StackExclusive`, because two CPUs cannot
both own a task. Theorems: `TypeCorrect`, `StackNeverFreed`,
`SpaceOutlivesUsers`, `OneCpuPerStack`, `WakeupNotLost`, `WaitIsTruthful`,
`NoRevival` (an action property) and `ThreadsCounted`, whose step for the reaper
counts the freed threads of a group as a set difference.

`SchedulerProofs`. `SchedulerTypeCorrect`, and `AgingBoundsWaiting`, that
`OvertakenOnce` holds for any number of tasks and any interval: the lemma
`PickedIsBest` says what the scan returns (the existence of a first best task
comes from the well-foundedness of the naturals), and a starved task has the
highest effective priority, so whatever is picked instead lies before it.

`ShootdownProofs`. `LockInv`: a free lock word means an empty section, at most
one CPU is in each, a device lock is entered only from unguarded code or
directly under the guard, and unguarded code has interrupts on. It gives
`KernelExclusion`, and `NoCircularWait`: leaf holders wait for nobody, device
holders only for leaf holders, and the holder of the global lock waits for an
acknowledgement only of a CPU that is inside a leaf section, since spinning CPUs
poll and others have interrupts on; every set of CPUs has a member of the lowest
kind it contains. The locks are the three kinds the tree has; a VMM lock is not
among them (section 2.3).

The second half of the module is about memory. `MemInv` describes a round of the
protocol: mailboxes
are settled between shootdowns (`Mail`); during one, its sequence number and
address are the shared ones, targets have it in their mailbox and nobody else
has anything pending, and the CPUs already waited for have acknowledged
(`Round`). `StaleCovered` is the core: a translation that the table no longer has
belongs to a shootdown that will still reach that CPU (`NotYet`), and its frame is
retired by that shootdown or still mapped. `Owned` and `Shared` relate the counts to
the table and to the commit loop of fork. `StaleCovered` also needs `Offline`: a
CPU that arrives during the walk has an empty TLB and fills it from the new
table. From it follow `ShootdownComplete`, `NoUseAfterFree` and `ForkIsolates`;
`ShootdownTypeCorrect` is the type invariant. All of them hold for every `VmmLockHeld`:
a sender that traps leaves the mailboxes settled (`SenderTrapsMem`), what is stale then
is what it was called to flush, and it keeps the guard, so no later step of any CPU
edits the table or drops a frame. They do not say that a sender never traps, which is
finding 3. The lemma `StartFlush` treats all
editors at once through `SafeEdit`, what an edit may do to the table.

`IrqRoutesProofs`. `RoutesStaySafe`: `IInv` adds to the properties what each place of
a driver (`DriverInv`) and of an interrupt handler (`ServiceInv`) implies about the
device's mask, its route and the PIC: a driver between two writes of `virtio_open` or
`virtio_stop` is the only one to touch its device, a device is unmasked only with a
route, and the in-service bits are those of the handler that runs. `ConfigKept` needs
no more than these.

`DevicesProofs`. `DiskStaysSafe`, about `BlockIo`: the core is `Whole`, which ties the
request slot to the virtio queue. A disk that is online has at most one command between
device and driver; while a request is pending that command is the request's, in the
device's hands or answered and not popped, and no other answer can exist. `SetUpInv` and
`IdsInv` bound the ids and say that a new id was never used, `OwnerInv` and `CallerInv`
give the owner and the pending waiter for each place in `request()`. From these an
answer with code OK was carried out by the device (`OkIsServed`) and tickets are in the
line exactly while their callers wait (`TicketsOwned`). The operators of a disk (`stop`,
`io_request_complete`, `poll_request`) keep `Whole` by a lemma each, and each action's
step composes them as the code does.

The second half of the module is about `Network`. `NetStaysSafe`: the same `Whole` for
the transmit request, and `EpochInv`: a call whose epoch is not older than the
interface's began under the set-up in force, so that what it sees is of that set-up;
`DmaPinned` follows from where the buffers of a device that ignored its reset are kept.

The third part is about `VirtQueue`, for rings and indices of any size. `QueueDriverInv`
holds whatever the device reports: it is the types with `CountsAgree`, and the index
published is the one just written. With a device that keeps the protocol, `QueueOwned`
holds too: `OneOwner` says that each buffer is in exactly one of an entry made available
and not yet taken, the device, an entry reported or about to be, or the driver's hand,
and their numbers add up to `Slots`. `Given`, `Filled` and `Reported` are sets, which
would hide a buffer given twice; the proof therefore looks at the entries between two
indices. Each step moves one buffer from the front of one of these stretches to the end
of another, which is a lemma about sequences (`OwnerTakes`, `OwnerWrites` and so on); that
stretches move by one when an index moves by one, also across the wrap, is in the
lemmas of the section on indices (`Further`, `PlacesNext`, `PlaceOf`), about remainders.
`QueueStepInv` adds that every step is a step of `Fifo` or stutters, where the items are
the frame in the driver's hand and those reported. `QueueAmongDevices` is all of
`QueueSafe`, the refinement included.

`ServicesProofs`. `RingStaysSafe`: `Safety` of the event ring is inductive once the
slots between the indices are known to hold items, and every step is a step of
`Fifo` or stutters. The mapping reads the slots modulo the capacity; the lemmas
`AfterIs`, `DistanceIs` and `SlotIs` state the few facts about the remainder
that the steps need as linear cases, because the provers do not find them.
`KeysStaySafe`: an active entry is encrypted under the current master key and no name
has two entries (`KeysInv`; `keystore_init` empties the slots when it changes the
key). The number of active slots is the number of names stored, through a
bijection, which gives the map's answer for a full store.

The third part is about `BlockCache`. `List(s, S)` says that the sequence `s` has each
element of `S` once; what `hash_remove` and `lru_remove` do is the lemma that taking a
set of elements out of such a list leaves a list of the rest. `CacheListsInv`: the LRU
list is a list of the valid entries and each chain of those that hash to it. With the
types of the pool (`CachePoolInv`) and the bounds of the read under way (`CacheReadInv`)
this gives `CacheStaysLinked` for names of any length. `CacheReadsTheFile` adds that
no two entries have the same key, that each holds the bytes of its block, and that what
a read has copied is a prefix of what it should return; it has the hypothesis
`ShortNames`, that the tag has room for every name. Without it the theorem is false: a
lookup compares the whole name with a tag that was cut (section 4).

The last part is about `Input`. `Rest` says that what a device has not sent is the end of
its report. `DecoderInv` gives `pause_bytes` and `extended_key` as functions of how far
the keyboard's report has come, `MouseInv` the collected bytes as the first ones of the
mouse's report, or none once a byte of it was lost, in which case what is left begins no
packet; that is where the data of damaged packets must have bit 3 clear. `ShiftInv`
strengthens `ShiftHeld`: the flag is set only if a finger is down or the plain report
of a shift key is on its way, not merely any report. A step then yields what it owes to
the report that it ends (`Owed`), so `DecodersFit` and `ReportsAnswered`.

`MemoryProofs`. `HeapStaysSafe`. The invariant `HInv` replaces `Tiled` by `Chain` and
`Parted`: a list whose blocks follow each other without gaps, are aligned and not
empty, and of which no two neighbours are free. `Chain` also says that an earlier
block ends before every later one begins, which follows from its neighbours only by
induction over the list; it is kept as a part of the invariant, so that each step
shows it for the list it builds. `HeldIn` gives each owner with a pointer a block in
use of its own that is large enough, `AllHeld` each block in use an owner, and
`IntactIn` places owners' bytes and headers. One lemma per operator says what it does
to a chain: `GrownChain`, `TakenChain` (the split), `JoinedChain` and `FreedChain` (both
merges) relate the blocks in use before and after, `OwnBytes` shows that owners' bytes
are disjoint from headers and from each other, and `WrittenIntact` that a call which
writes only there leaves the rest. `krealloc_moves` goes through the list with both
blocks in use and then frees the old one. The lemmas on `div` and `%` give the alignment of
sums and of rounded sizes to the solver.

The next part of the module is about `PageFrames`, for every set of firmware maps, with
ranges that may overlap, lie in any order and have any length, and every limit of the
counts. `FramesMapInv` says what `pmm_init` computed from the map: the frames, the place
of bitmap and counts, which frames are usable. `FramesScanIs` describes the search for a
run after `n` frames: either a run was found, all of whose bits are clear, or no run of
that length ends below `n` and the clear bits counted are the ones right below it; by
`FramesScanStep` along the range, a search that ends without a run means that there is
none (`OutOfMemoryIsReal`). `FramesInv` has the counts: a bit is clear exactly if the
count is zero, the number of free frames is that of clear bits, and a count is what the
callers hold. Theorems: `FramesStaySafe`, `FramesTakenOnce` (an action property) and both
together, `FramesAlwaysSafe`, about `PageFrames` on the variables of `MemoryCore`.

The last part, `ImageAlwaysSafe`, is about `ElfLoader`, for any files, size of a page and
number of frames. `ElfRounds` gives what every round of the validator has left, one after
the other: a round that accepts a segment found it inside the file, above the end of the
one before, and counted its pages; with any other room that is enough it would leave the
same. So segments have pages of their own, in order (`ElfOrdered`, `ElfOneOwner`), and the
second validation, whose result is determined by its recursion, agrees with the first
(`ElfAgain`). `ElfHas` says which pages the loader has passed. `ElfMapped`, which the steps
keep, says that these and those of the stack are mapped, with the permissions and bytes
they are to have, and no others; `ElfCounted` that the page list has as many entries as
pages were passed, by the validator's count, so that it never overflows (`ElfFits`).
`ElfTaken` shows that one more page leaves the others what they map. At the end all
segments are passed, and `ElfExact` reads `ImageExact` off `ElfMapped`, address by address.

`SmpStartProofs`. `SmpStartSafety`, for any number of processors and any list of the
firmware in which none occurs twice. `ListInv`: the boot processor comes first in the list that
`smp_select` makes, and a filled slot of `cpus` names the processor of the list.
`ProcessorInv` gives, for each place in `smp_ap_main`, what the processor has set up, so
that one that switches to its idle task has stack, TSS and MSRs of its own. `CountInv`
counts the processors that were started and that reported, which is what the bounded
wait compares. `StackInv`: if the wait ended in time, nobody is left who would clear a
TSS, so the double-fault stacks set afterwards stay; this is what
`DoubleFaultStackInTime` needs.

A layer moves one part at a time, so a step of it is a step of each component or leaves
that component alone (`StepOfEach`); what is proved of a component by itself holds of it
in the layer: `DiskAmongDevices`, `NetAmongDevices`, `QueueAmongDevices`,
`RoutesAmongDevices`, `RingAmongServices`, `KeysAmongServices`, `CacheAmongServices` and
`InputAmongServices` are about the specifications the runs check. `IrqRoutesProofs` is
instantiated by `DevicesProofs`, whose theorem cites its theorem; the other components
are instantiated where the proofs are. `Memory` adds to `MemoryCore` only steps that
leave the variables of heap, frames and loader alone.

Only model-checked: the liveness properties, which need fairness and `ENABLED`, out of
reach of the prover; the violated properties; the refinement and the invariants of
`FileTable`; and the safety properties of the modules that the table of section 2 names no
proofs for: `UserMemory`, `PageTables`, `UserCopy`.

## 6. Not modelled, and why

- Cryptographic primitives: arithmetic on 128- and 256-bit data, for which test
  vectors are the right check; `KeyStore` models a cipher by what it gives back.
- `cred.c` fills a fixed table once; afterwards it is only read.
- Shell, sample program, libc: they format and print through system calls and share
  no state. `desktop/desktop.c` is not built, and the system calls it needs have been
  removed; `drivers/mouse.c` is an older driver that nothing calls.
- Vendored code (`drivers/tirdlib`, `limine.h`), which is more than three quarters of
  the lines of the tree, and fonts.
- Register programming (GDT, IDT, LAPIC, PCI, serial, framebuffer, the hand-shake of
  `ps2_init`): a fixed order of writes, once.
- A panic (`cli; hlt`) on an online CPU stops acknowledgements for good; the
  machine is lost then, and `Acked` says nothing of it. The only panic modelled is that of
  a sender in `tlb_shootdown`, which nobody can send a request to, because it holds the
  mutation lock.
- A VMM lock: it is in documents and comments and in no file (section 2.3). `PageTables`
  and `UserCopy` take every shootdown to pass its check and return.
- Very long sleeps: the deadline `ticks + ms` wraps only for arguments next to 2^64 and
  then wakes at once; `Scheduler` bounds deadlines.
- Statistics counters.

## 7. Plan

1. Proofs of the remaining safety properties, in this order: `RefsExact` of `UserMemory`,
   the refinement of `FileTable`, the page tables.
2. An abstract specification of a request (answered at most once, with its own
   result) that `BlockIo` and the sender of `Network` implement.
