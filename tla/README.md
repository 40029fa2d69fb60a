# RunixOS in TLA+

A verification project for the kernel of RunixOS (`src/kernel`). It models the
scheduler, message passing, the capability system, interrupts and locks, the
shell's services, persistence, distribution and the data structures beneath
them, model-checks them with TLC on small instances, and proves the main safety
properties and refinements with TLAPS for every value of the constants.

## The system

RunixOS is a capability-based kernel for x86-64. One core schedules tasks; other
cores are started and never run any. All state that tasks share sits behind one
spinlock, `SCHEDULER`; a critical section of that lock is the unit of atomicity.
`SHELL_MODE` (`boot/main.rs`) chooses one of two systems at build time:

* **the shell build** (the default): the shell (task 64) and the kernel tasks it
  starts, all in ring 0. Preemption is disarmed at boot; some commands arm it;
* **the init build**: ring-3 `init` (task 1), the ring-3 tasks it spawns, and
  kernel tasks that exercise faults, restarts, persistence, distribution and
  preemption.

A ring-3 task enters the kernel through an interrupt gate, hence with interrupts
off: its request is not preempted. A kernel task calls the same functions with
interrupts on, and the timer may switch tasks between its critical sections.

### Inventory

| part | source | state | operations |
| --- | --- | --- | --- |
| Scheduler | `scheduler/mod.rs`, `process/mod.rs` | task slots, task states, current task | `yield_cpu`, `preempt_reschedule`, `terminate_current_task`, filling and emptying slots |
| Message passing | `process/ipc.rs` | `ipc_buffer` and `msg_queue` of a task | synchronous send and receive, asynchronous send and receive |
| Capabilities | `process/capability.rs`, `syscall/mod.rs`, `shell/mod.rs` | `cap_table` of a task, `NEXT_CAP_ID`, `REVOKED_IDS` | insert, attenuate, revoke with its cascade, remove, seal, spawn |
| Preemption | `preempt/mod.rs`, `interrupts/mod.rs` | preempt count, armed flag, counters | tick, critical window |
| System calls | `syscall/mod.rs` | none of its own | parse, validate, dispatch |
| Boot and harness | `boot/main.rs` | restart counter, incarnation counter | watchdog, demonstration tasks |
| Shell | `shell/mod.rs` | history, trace ring | commands on tasks, capabilities and services |
| Services | `shell/mod.rs` | KV store, log rings, inode table, device table, sync objects | request loops that receive, check a capability, act and reply |
| Snapshot | `process/snapshot.rs` | images with a checksum | capture, restore |
| Distribution | `process/dist.rs` | registry, remote node | route, migrate, pump, failover |
| Audit | `process/audit.rs` | ring of 64 events | push, read |
| Memory | `memory/mod.rs` | frame cursor, page tables | allocate, map, validate a user range |
| Drivers | `drivers/*.rs` | locks, keyboard ring | lock, try_lock, handler, read_line |
| Architecture | `arch/x86_64/*`, `arch_sim`, `userspace` | descriptor tables; a simulator | set-up; pure computation |

How they interact: everything that blocks goes through the scheduler; message
passing writes task states itself (a sender wakes its receiver and the other way
round); a synchronous send reads the sender's capability table on every attempt;
a death wakes senders but leaves tables and queues; the shell, migration and the
watchdog replace whole task slots under the feet of whoever names them.

What is hard here: the yield of a blocked task can return at once (nothing else
is Ready), so a blocked task may go on executing; one field, `ipc_buffer`, is a
receiver's inbox and a sender's parking place; a send is retried after deaths,
restarts and revocations; a shell command spans two critical sections; a
cascading revocation computes a fixpoint over tables in no particular order with
an array of fixed size. `PROJECT.json` lists these hazards at their lines.

## Modules

| module | models | kind |
| --- | --- | --- |
| `IpcKernel` | scheduler and message passing, a critical section a step | component |
| `Preemption` | locks, regions without preemption, timer, keyboard and fault handlers, an instruction a step | component |
| `CapSystem` | capability tables, delegation, revocation, shell commands on them | component |
| `RevocationFixpoint` | the passes of `propagate_revocation` | detailed |
| `Revocation`, `Lineage` | one atomic revocation of a capability and its descendants; the shared vocabulary | abstract |
| `MessageQueue` | the ring behind `msg_queue` | detailed |
| `BoundedFifo` | a bounded first-in first-out queue | abstract |
| `SyncService` | the synchronization service, the shell and the contending tasks | detailed |
| `Semaphore` | a first-come first-served semaphore | abstract |
| `ServiceCaps` | the tables that the other services consult | component |
| `StoreServices` | key-value and file service with their commands | detailed |
| `Stores` | registers, and a bounded map from paths to nodes | abstract |
| `LogService` | event log, cursors, and the `log` commands | component |
| `Checkpoint` | capture, restore and the persistence demonstration | component |
| `Distribution` | registry, remote node, migration and failover | component |
| `Watchdog` | watchdog, the service it restarts, the driver beside it | component |
| `Rings` | audit log, trace, keyboard buffer and device service | component |
| `LineEditor` | command history and line editor | component |
| `Paging` | frame allocator, user address spaces, the check of user pointers | component |
| `ArchSim` | cache and pipeline simulator against what they compute | component |
| `MC*` | instances for TLC | |
| `IpcKernelProofs`, `CapSystemProofs`, `PreemptionProofs`, `PagingProofs`, `ArchSimProofs`, `SyncProofs`, `ServiceProofs`, `ComponentProofs` | theorems and proofs | |

The modules lean on each other. `Preemption` is why `IpcKernel` may take a
critical section for one step: the processor changes hands outside critical
regions only and no task ever meets a lock that is held. `IpcKernel` uses a sequence for
`msg_queue`; `MessageQueue` shows that the ring implements it. `CapSystem`
removes a lineage in one step; `RevocationFixpoint` shows that the passes
implement that step for every well-formed table, and `CapSystem`'s
`IdNamesOneCapability` and `OnlyKvGrantAmplifies` are why its tables are well formed.
In `SyncService` a send is a step of the client and the receive one of the
service, which is what `IpcKernel` makes of them.

### IpcKernel

A step is one critical section. `pc` records where a task is between the critical
sections of a call: `sendYield`, `sendCheck`, `sendRetry` and `sendGone` are the
places of `sys_send_typed`, `recvYield` and `recvRetry` those of
`sys_receive_typed`. `SendTyped` and `SendRetry` are a first and a later run of
the validate-and-use region, with one disjunct per outcome (`RefuseSend`,
`FindTargetGone`, `Deposit`, `Park`). `YieldCpu` has the branch in which nothing
is Ready and the caller keeps the processor, blocked or not. `Preempt` is the
timer; `Spawn` and `ClearSlot` are the slot changes of the shell, the watchdog
and migration; `KernelRevoke` and `CapInsert` are what the capability system
does to channels. `delivered` is the set behind `IPC_DELIVERIES`; `acked`,
`failed` and `received` record what calls returned and nothing in the code reads
them. A capability is reduced to the task it names, a message to its sender, a
number and the call that sent it.

### CapSystem

`caps` holds every table. `CapGrant`, `CapRevoke` and `SpawnTask` are the
requests of ring-3 tasks. `ShellGrantRead`/`ShellGrantInstall` and
`ShellEntryRead`/`ShellEntryInstall` are the two critical sections of `cap
grant`, `kv grant` and `log grant`, between which other tasks run. `ShellRevoke`,
`ShellSeal`, `ShellMint`, `ShellSpawnService`, `ShellSpawnCopies` and
`ShellClearSlot` are the other commands that touch tables. `minted`, `revoked`
and `built` record history. The constant `SHELL_MODE` selects the build as in
the code: each has its own run, and the theorems hold for both.

### RevocationFixpoint and MessageQueue

The tables of all tasks are one array of cells in scan order, a step visits one
cell, and `REVOKED_IDS` has its fixed capacity of one more than the cells. The
refinement mapping shows the tables as they were until the lock is released. For
the ring, the mapping reads `count` cells from `head` on.

### Preemption

Each task has the list of instructions it still has to execute: taking and
dropping a lock, `enter_critical` and `exit_critical`, the window of a
`CriticalWindow`, the loads and stores of the two demonstrations. `Tick`, `Key` and `Fault` are the
handlers; each runs with interrupts off and is one step between two instructions.
Whoever meets a held lock spins for good, and `stuck` records it.
`sched timeslice` fills its two slots whatever the tasks of an earlier run are at.
The armed flag is set before the handler is known to be installed, which allows
more behaviours than the code has. The preempt count and the window flag are
global, as in the code.

### SyncService

`request` and `replies` are the messages between a client and the service; `svc`
is the service's place in its loop (`receive`, `apply`, `wake`, `answer`) with the
request it serves. An acquire without a permit goes into the ring and is answered
by somebody's release (`WakeWaiter`). `Worker` is the code of the guarded,
unguarded and contending tasks, with the load and the store of the counter as
separate steps; `ShellCommands` are `sync create`, `acquire`, `release`, `demo`,
`bench contend` and the revocation of the shell's capability, `ShellGoesOn` the
shell's receives and polling. The service has eight objects that do not interact;
the model has one. `granted` is history, for the refinement.

### StoreServices and LogService

A client waits for each reply and a service serves one request at a time, so a
request, its handling and its reply are one step. In the present builds the shell is
the only client; the services serve any task, and the model has a second one. Keys,
values and contents are sequences that are cut where the source cuts them. A path is
the sequence of its components; a name that is too long for a node is cut, and a
deleted node keeps its name until it is used again. A log reader has one cursor for
all kinds, moved up when the ring overtakes it. `kv revoke` leaves a capability that
the shell granted to itself. Requests are well formed, as the shell's commands make
them: the replies to malformed ones (status 2 of the KV service,
`shell/mod.rs:3407-3443`, and 4 of the file service, 3749-3759, 3800 and 3945) change
no state and are left out.

### Checkpoint, Distribution and Watchdog

`Capture` and `Restore` are the loops over all slots under the scheduler's lock;
between them tasks send, block on a send or a receive, wake and die, and commands
mint, derive and remove capabilities. The checksum is taken to be injective on what it mixes. What
a restore does is stated as it is: it brings back capabilities that were revoked
since, makes a task that died since runnable again, may have a message delivered
a second time, and skips slots that are now empty. It can also leave a receiver
BlockedOnReceive beside a sender, created after the capture, that is BlockedOnSend on
it; nothing in the repository speaks of that case, and no property does. Registers
and stacks are not part of a `TaskCheckpoint`, nor of the model: what a revived task
executes next is its next step. `Distribution` runs the demo
as often as `migrate 1 1` is typed, over a registry and a remote node that
persist. The watchdog reads the service's state in one critical section
(`WatchdogCheck`) and acts on it in another (`WatchdogActs`). Its comment says that
nothing may come between the two; once the driver has armed preemption a `Tick` does,
at any point, and `WatchdogRecovers` says that the watchdog is done by then and that
what it has read is still so whenever it acts.

### Rings, LineEditor, Paging and ArchSim

The rings record the history of what was put in, and the properties compare what
a reader sees with its suffix. `log_trace` has three steps, reading
`TRACING_ACTIVE` (`TraceEnter`), claiming an index (`TraceClaim`) and writing its cell
(`TraceWrite`), and its callers hold no common lock. A caller that is switched out
before the write leaves a cell with an older event in it, and if the ring turns
meanwhile it overwrites a newer one. `RingsKeepOrder` therefore says of the trace
that each event of the summary is at its place but for the cells that are not settled
(`Unsettled`): claimed and not written yet, or taken by a late writer (`overrun`).
`trace` inside `trace` starts over and its end stops the outer one, as in the code. The editor has the line, the history and
what the terminal shows. `Paging` has page tables as maps of frames, four levels
deep, with `Fanout` entries; `ValidateUserRange` walks them as the code does,
with the width of addresses kept (`USIZE`). Its property has the frames too: no two
tasks share a page, or a page table of any level. The simulators run an access or a
cycle per step and are compared with their definitions: an access hits when fewer
than `assoc` other lines of its set were used since; the pipeline stalls once for
each instruction that reads its predecessor's result. The branch of `ex_stage` for
a hazard is never taken; the numbers of `EVALUATION.md` 248-260 agree with the
model.

## Runs

| run | instance | shows |
| --- | --- | --- |
| `ipc_faults` | 3 tasks, two of them kernel tasks, 1 send each, 2 slot changes, 1 capability change; 1.7 million states | scheduling consistency, no lost wake-up, truthful results under deaths, restarts and revocation |
| `ipc_traffic` | 3 tasks, 2 sends each, queues of one; 0.86 million states | no double delivery; which reorderings exist |
| `ipc_live` | 3 tasks, 1 send each, 1 slot change, with fairness; 0.1 million states | no starvation of Ready tasks; sends to the dead return |
| `cap_ring3` | 4 tasks, 3 slots, ids to 7; 0.26 million states | no amplification; revocation is complete and lasting |
| `cap_shell` | 4 tasks, 2 slots, ids to 6; 0.36 million states | ids keep their meaning; the shell's grants exceed their donor in one right only; donors are held when a grant takes effect |
| `sync` | 3 tasks and the shell, a ring of 3, up to 2 permits, 3 commands, with fairness; 0.27 million states | the object is a semaphore, each request is answered once, mutexes exclude, no update of the counter is lost, jobs end |
| `components` | queue of 4, rings of 2 and 3, 2 tracers, history of 2 lines, page tables of 4 entries and pages of 2 bytes, 16 accesses or instructions; log of 2 entries and 2 kinds, 2 file nodes, 4 migrations, 3 ids, 2 restarts and 40 turns; 0.23 million states | the ring is a queue, the other rings keep order and count losses, the terminal shows the line that runs, user ranges are accepted exactly when they are the caller's, the simulators are exact; reads of the log, the stores as maps, reachability over migrations, restore and the watchdog |
| `critical_paths` | the shell, 2 compute tasks, 1 client; 4 cells, ids to 4, every well-formed table; with fairness; 0.14 million states | no spinning, switches outside regions only, truthful race verdicts, compute tasks end; the cascade is atomic, complete, fits its array and ends |
| `ipc_capability`, `ipc_deposit` | as `ipc_faults`, smaller | two sentences about messages that the code does not keep (below) |
| `cap_kv_grant` | as `cap_shell` | a sentence about attenuation that `kv grant` does not keep (below) |
| `failover` | a remote node of 2 entries, 4 migrations | a sentence about failover that the code does not keep (below) |

Bounds. Three tasks allow a sender, a receiver and a third that dies, is restarted
or interferes; channels form a ring, so every task is sender and receiver;
`ipc_faults` leaves one link open, which `CapInsert` fills with a channel to any
task, the holder included. A queue of one is full after one message. `MaxSends`,
`MaxSlotOps`, `MaxCapOps` and `MaxId` bound counters that the code leaves unbounded
(or at 64 bits). Three slots let `init` hold a capability, a derived one and the
channel to a task it revokes from. In the capability runs the bound on ids ends
every behaviour that mints, so deadlock is not checked there; it is not checked in
`critical_paths` either, where nothing is left to revoke in the end. The code has queues
of 8 messages and tables of 32 slots for each of 132 tasks: the theorems cover these
sizes.

In `sync`, three workers fill the ring while the shell may be the fourth client;
one round suffices for a lost update, because the load and the store of one
worker enclose those of another. Commands are bounded, so behaviours end, and
the shell may wait for ever (it acquires a mutex it holds, or a semaphore of 0):
deadlock is not checked. In `components` and `critical_paths` the parts share no
state that matters, and each behaviour exercises one of them (`focus`): the state
space is the sum of the parts and not their product. Two tracers and a ring of 2 are
enough for a writer that is overtaken by a whole turn. `Checkpoint` has the shell and
one other task: that a death wakes a third task that sends to the dead one is in the
model and in the proofs, which are for any number of tasks, and out of this run. Capacities are small enough
to be exceeded: rings turn more than once, all file nodes are taken, the remote
node is full after two of four migrations, names and values are cut. A page of 2
bytes and an address space of 1024 have every boundary: ranges of no bytes, that
end with a page, that wrap, that touch the kernel's half; the memory maps have
room for two user tasks, one and none. `ArmAfter` and `MAX_RESTARTS` are those of
the code. In `critical_paths` two compute tasks that never yield are enough to starve
each other and the shell, and the client prints, sends, receives and reads keys. A
bounded `Budget` stands for the work of a compute task.

Each property has a mutant of the model (definitions marked *Mutant*), a
plausible slip in the code under which TLC finds the property violated.

### Where documents and code differ

Four runs check a sentence of the repository's own documentation and TLC finds a
behaviour of the code against it:

* `ipc_capability`: "a delivered message implies the capability was valid at the
  instant of delivery" (`process/ipc.rs:250`). A message that is already parked is
  handed over by the receiver's rendezvous after the capability was revoked.
* `ipc_deposit`: "... and the receiver will observe it" (`process/ipc.rs:251`). A
  receiver with a deposit in `ipc_buffer` that is served from its queue first, and
  then sends, overwrites the deposit with its own parked message.
* `cap_kv_grant`: "Attenuated capabilities can only possess a subset of their parent
  rights" (`ARCHITECTURE.md:74`; "a task cannot grant more authority than it currently
  holds", `process/capability.rs:87`). `kv grant` builds its capability by hand
  (`shell/mod.rs:1988`), with the right to read; the shell boots with a key it may
  only write. `OnlyKvGrantAmplifies` states what is left in the shell's build, and
  `NoAmplification` that nothing is amplified in the build with `init`.
* `failover`: "Recover the last checkpoint held for this service"
  (`process/dist.rs:271`). `host` never replaces an entry and `failover` takes the
  first, so the second failover brings back the state of the first migration. A full
  remote node drops the checkpoint silently while `migrate` goes on;
  `ServiceStaysReachable` says that the service is reached all the same.

Other differences are part of what the passing properties state:

* A parked payload is discarded "so it can't be mistaken for an inbound message"
  (`process/ipc.rs:270`). On the path where a retry deposits its message directly
  (291) it is not, and the sender receives its own message: `ReceivedAtMostOnce`
  is about every receiver but the sender.
* "Capability IDs are globally unique and never recycled" (`ARCHITECTURE.md:74`)
  is true but for `sync demo` and `bench contend`, which copy a filled table into
  several tasks: `IdNamesOneCapability` states exactly that.
* `cap revoke` "propagation-revokes downstream capabilities" (`EVALUATION.md:44`).
  The shell's command (`shell/mod.rs:1113`) removes only its own slot:
  `RevokedLineageIsGone` is about `SYS_CAP_REVOKE`.
* "read next unread event of given kind" (the shell's help for `log read`) holds
  for a task that reads one kind only, since the cursor is shared by all kinds:
  `OneKindReaderMissesNothing`.
* `init_pic` "masks every line except IRQ0" (`interrupts/mod.rs:353`); the code
  unmasks the keyboard's line as well (369-370), and `Preemption` has its
  interrupt.

`NobodySpins` has one exception too: a key that arrives while `try_read` holds
`KBD_BUFFER` leaves its handler spinning, since `keyboard_isr` takes that lock with
`lock()`. The timer only tries its lock, and an exception is taken in a task's own
code, where it holds none.

The passing properties say what holds all the same: a send's result is true, a
message is received at most once by anybody but its sender, ids that are shared
belong to equal root capabilities, and revocation by system call is complete.

## Fairness

`ipc_live` assumes that the processor executes the current task (weak fairness of
`Boot` and of the tasks' steps), that the timer interrupts a task while another is
Ready (weak fairness of `Preempt`), and that a time slice is longer than a
critical section (strong fairness, for each task, of its steps inside a call). The
second holds only while preemption is armed: the shell build starts without it,
and there a task that never yields does starve the others. The third rules out
only a timer that fires at the same point for ever. `critical_paths` assumes weak
fairness of the cascade, which runs under the lock and neither blocks nor yields.

`sync` assumes weak fairness of the service, of each worker and of the shell once a
command is under way: they are scheduled round-robin and yield at each message.
Commands need not be typed. `JobEnds` has a condition, that a permit exists to be
passed round: a job that waits for a mutex held by the shell waits for ever.
For its tasks `critical_paths` assumes that the timer keeps ticking (weak fairness of `Tick`) and
that a task that gets the processor again and again executes an instruction at
last (strong fairness of its steps), a tick being 10 ms long. `ComputeTasksEnd`
allows for the spinning keyboard handler. The other runs check safety only.

## Proofs

All theorems hold for every value of the constants under the named assumptions
(`ConstantsAssumption`, `CapConstants`, `BootTablesAssumption`,
`RevocationConstants`, `PreemptionConstants`, `QueueConstants`, `RingConstants`,
`EditorConstants`, `WatchdogConstants`, `CheckpointConstants`, `SyncConstants`,
`NoRequest`, `LogConstants`, `StoreConstants`, `DistributionConstants`,
`PagingConstants`, `SimConstants`). They say that sizes are positive, that `None`,
`NoMessage`, `NoEvent` and `Nowhere` are no values, that boot tables hold root capabilities with
distinct ids, that the wait ring has a cell for each worker (16 and 16 in the code),
that there is at least one compute task, and that a message queue has room for three
(8 in the code), because the distribution demonstration has up to three messages in
one queue. For `Paging` they say that a table has an even number of entries, that the
user's half of the address space is below the largest address, that the code and the
stack page are two pages of it, and that the boot loader's root table is in no
region its map calls usable, which is how Limine makes that map; for `ArchSim`, that
a cache has at most the 1024 lines of the code's array.

**IpcKernelProofs** proves `TypeOK`, `ActiveTaskIsRunning`, `NoLostWakeup`,
`ParkedMessageIsPending`, `NobodyWaitsForTheDead` and `SendResultIsTruthful`: first
the types and the steps of the scheduler, of task slots and of the capability
system, then the steps of the send and receive calls. All but `TypeOK` follow
from `IndInv`. The invariant needs `SchedInv` (a task's state, program point and the
processor agree), `SpinInv` (a blocked task runs past its yield only when no task
at all is Ready, and then its channel and target are as they were when it
parked, so that its retry parks again and cannot fail or deliver while it is
marked blocked), `SendInv` (what is known of the message at each point of a send)
and `LedgerInv` (messages not built yet are in no record). Without `SpinInv`
neither `ActiveTaskIsRunning` nor `SendResultIsTruthful` is inductive.

The module then proves `ReceivedAtMostOnce` and `FifoButForOvertaking`. `OrderInv`
adds to `IndInv` where messages are. `PlacesInv`: all that was received, queued or
deposited was counted as delivered, and the one message that was not is the one a
task in the middle of a send has parked. `OncePlaced`: a message is in one place
only, but for the copy that a delivering retry leaves in its sender's own
`ipc_buffer`. `WaitsInOrder`: what waits in a queue or in `ipc_buffer` is later than
what was received from the same sender, but for asynchronous messages that were
taken before a deposit. A receive is one lemma for the three places it takes a
message from (queue, `ipc_buffer`, parked sender).

**CapSystemProofs** proves `TypeOK`, `IdNamesOneCapability`, `RevokedLineageIsGone`,
the action property `DonorHeldAtGrant`, `OnlyKvGrantAmplifies` in both builds and
`NoAmplification` in the build with `init`, where no command builds capabilities by
hand (`built` stays empty). The strengthening is `MintInv` (what is held was installed, and ids are issued once),
`GrantableInv` (what can still be delegated was not revoked: this is what keeps
a later grant from reviving a revoked lineage) and `ShellInv` (the shell's copy of
a donor is of a capability it still holds, because it reads no command before the
present one is done).

**PreemptionProofs** proves `NobodySpins`, `RaceVerdicts` and the action property
`SwitchesOutsideRegions` for any number of compute tasks and clients. `PreemptInv`
does not enumerate where each program is: it says that what a task still has to
execute is *disciplined*. A lock is released by the next instruction, regions and
windows close in the order opposite to that of their opening, and outside regions
only the scheduler's lock is taken. Every program of the model is shown to be
disciplined when it starts, and every instruction leaves a disciplined rest. From
that, only the task that executes is in a region or has a lock (`LockInv`), so a
tick that switches finds no lock held and the count 0; the window flag is set inside
the region of the task that opened it, or in the demonstration's own preemptible
window (`WindowInv`); and how far the driver has come in `preempt-race` determines
whether the revoker has struck (`RaceInv`).

`PreemptionProofs` also holds the theorems about `RevocationFixpoint`, whose
passes run inside one critical section. `NeverTruncated` is proved by counting: each
id in `REVOKED_IDS` but the root stands for a cell that was emptied. `Implements`,
that the passes are one step of `Revocation`, rests on three facts: removed cells
have their origin in the set, every id in the set is in each closed set with the
root, and a pass without change leaves nothing to remove. `CascadeShrinks` is the
part of `CascadeEnds` that needs no fairness: in every step of the loop either a free
place of `REVOKED_IDS` is used up or the last pass begins (`PassesLeft`), or the pass
goes on with fewer cells ahead (`CellsAhead`). A loop that is executed must end,
therefore, on tables of any size.

**PagingProofs** proves `UserRangesAreOwnPages` for any memory map, page size, number
of entries and pair of user pages. `PagingInv` says that from the root of every task
one path of tables leads to its code page and one to its stack page, which part at
the first level whose index tells the two pages, and that no other entry of the
user's half leads anywhere; and that the frames in use are those from the start of
the largest region to `next_free`, each a table or a page of one task. A spawn keeps
it: `MapPageUser` is followed level by level, with each table found or made, and the
second mapping adds its path to that of the first, whatever levels the two pages
share. The walk of `validate_user_range` then passes exactly the two pages, since
the four indices tell the pages of an address space (quotients and remainders by
`Fanout`), and the bytes of a range are in those pages exactly when all pages from
its first to its last are. Two tasks share no table, at whatever levels: below a
shared one they would share a page, or a page of one would be a table of the other.
`AnyBuffer` is the first half of the property for buffers of every length; the run
has those up to two pages and a byte. That the scan for the largest region finds
it, for a map of any length, is proved by taking the least place where it would fail.

**ArchSimProofs** proves `SimulatorsAreExact` for workloads of any length and caches
of any shape. `CacheInv`: a valid cell holds the line of the access that its `lru`
names, which was not used since; no line is held twice; a line that is not held
either was never used or `assoc` others of its set were used later; and the counters
are the numbers of hits, misses and valid cells so far. The victim of a miss is the
line of the set used longest ago, so the third fact is kept. `PipeInv` has the two
shapes of a cycle: instructions follow each other through the stages (`Flowing`), or
the one in `id` waits for its predecessor's result (`Stalled`), and the cycles less
the stalls tell which instruction is where.

**SyncProofs** proves `MutualExclusion`, `GuardedCounterIsExact`,
`OneAnswerPerRequest` and the refinement of `Semaphore` for any number of workers,
rounds, permits and commands. The invariant `SyncInv` needs: the ring's cells from
head on are occupied by distinct clients; `Talk`, that each client has at most one
conversation under way and the place it has reached agrees with the client's own;
that a mutex has one permit, free, on its way or with one worker; and that the
counter, the rounds done and the value a worker holds add up while it is inside.
`Talk` is what makes the others inductive: without it a late answer could be taken
for another request's. That the ring has room for an acquire of a worker is a
pigeonhole argument over the distinct clients in it.

**ServiceProofs** is about the services and the distribution demonstration.

* `LogReadsInOrder` and `OneKindReaderMissesNothing`: the ring holds the last
  `LOG_CAPACITY` entries published, each in the cell of its number (two numbers
  less than a turn apart are in different cells), and for each reader what it was
  shown is increasing, below its cursor and of a kind it asked for; if it asked for
  one kind only, everything of that kind below the cursor was shown or lost.
* `StoresImplement`: no two nodes in use have the same name (`StoreInv`). Linear
  search therefore finds what the map has, the first free node exists exactly when
  the map has room (the nodes in use and the paths of the map are equally many),
  and each operation is the abstract one, replies included.
* `ServiceStaysReachable`: for each of the nine calls of `demo`, where the service is,
  what its slot, the inbox and the remote node hold, over any number of runs, and that
  the route table has one entry, which every change of route replaces.

**ComponentProofs** proves what stands by itself. The ring of messages implements
`BoundedFifo`, from the distance between head and tail and the occupied cells
between them. `RingsKeepOrder` has three theorems, one for each ring (`AuditSpec`,
`TraceSpec`, `DeviceSpec`), because each behaviour exercises one of them: the j-th
newest event is j cells behind the next one to be written, and the keyboard ring
holds what was accepted and not yet returned. For the trace, `TraceInv` says of every
index the ring has room for that its cell holds the event that claimed it, or that
the index is unsettled, and that a caller about to write has the event of the index it
claimed. `EditorShowsTheLine` uses the first of
these facts for the history, and that no key leaves the screen and the line apart.
The watchdog recovers the service for any number of restarts if the driver waits for
more than two turns for each restart and one (the code waits 40 turns for 2
restarts): while the watchdog watches, every crash was answered by one restart, the
driver has counted two rounds for each, and no tick comes between the watchdog's two
critical sections. A restore keeps tasks consistent and ids
distinct: the invariant says the same of the snapshot as of the tables, and that the
snapshot holds ids below the counter, which a restore does not touch.

The type invariants of `CapSystem`, `RevocationFixpoint` and `MessageQueue` are
proved and not listed as properties of a run.

Only model-checked: the liveness properties (`ReadyTaskRuns`,
`SendToTheDeadReturns`, `CascadeEnds`, `JobEnds`, `ComputeTasksEnd`), which rest on
fairness and are beyond the prover. Every invariant and action property of a
passing run is also proved. The four violated sentences are refuted by a
counterexample and need no proof.

## Not modelled

* Hardware set-up and text: descriptor tables, the interrupt stubs, the PIC and the
  PIT, the start of the other cores (which never run a task), register frames and
  stacks, port input and output, scancodes, printing, help and the layout of
  messages in bytes. `parse_request` and `SYS_SERIAL_WRITE` read registers and copy
  text.
* The machine-code programs of `userspace`: what a ring-3 task may ask for is the
  nondeterministic choice of `IpcKernel`'s and `CapSystem`'s tasks.
* The arithmetic of the benchmarks. The tasks that they and the demonstrations
  start repeat calls that are modelled; those of `sync demo`, `bench contend`, `sched
  timeslice` and `sched preempt-race` are modelled themselves.
* The reply channels with fixed ids that services write into slot 1 of a table:
  they carry no grant right and no command names them.
* `map_page`, which has no caller; the copies through the direct map; memory-map
  entries that are not page-aligned, which the allocator does not expect.
* `history N`, which pushes an earlier line once more (`shell/mod.rs:1705`) and runs
  it, and the tab character. The reply
  of `ls` is cut at 128 bytes in the code, which the model's directories do not
  reach.
* A fault inside a kernel call, between its critical sections: the calls have no
  instruction that is expected to fault. A panic (a grant into a full table) is a
  step that is not enabled.
* `SYNC_STORE`'s lock, which a release holds across its sends: only the service
  takes it.
* The number of turns of a spin that waits for a tick: `Spin` in `Preemption` may
  end whether or not `WINDOW_TICKS` has risen, as at the code's bound.
