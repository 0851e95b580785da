# Verification of deviceDrivers

TLA+ models, TLC runs and TLAPS proofs for the drivers of this repository: a
family of in-memory character devices (`scull`), a RAM disk, two parallel-port
drivers and four serial-port drivers, all Linux kernel modules. The modules are
translated from the sources under `src/`; `PROJECT.json` maps every definition
to the lines it stands for.

## The system

Each directory is one kernel module with its own copy of the code it shares
with its neighbours, and small programs and a script `test` that use it.

| Part | State | Operations | Hard part |
|---|---|---|---|
| `char_driver/driver_2` | per device: `scullqset`, the head of a list of nodes of `qset` pointers to quanta; per open file: the device | `scull_open`, `scull_release`, `scull_write` (new list, published after its first node), `scull_read` (walks the list) | no lock: readers and writers interleave node by node; unchecked `kmalloc`; counts at the edges of quantum and node |
| `char_driver/driver_sync` | the same and `my_completion` | a write completes it, a read waits for it | a completion is a count, not a pairing of one write and one read |
| its programs `app1`-`app3`, `semaphore.c` | a System V semaphore, which outlives them | `app1` sets it; each takes it, writes, gives it back, reads | holders that are killed; reads outside the semaphore; two kinds of waiting |
| `char_driver/ioblock_driver` | the same, `wait_flag`, a wait queue per device | a write sets the flag and wakes the queue, a read sleeps until it is set and clears it at its end | lost wake-ups, the wrong queue |
| `char_driver/ioctl_driver` | the same; `quantum` and `qset` can be changed | `ioctl` resets, sets or tells the quantum | the layout changes between a write and a read |
| `char_driver/proc_driver`, `jiffies_driver` | the same, a file in `/proc` | print the configuration, or the time of a write, in `/proc` | a reader inside `read_proc` while the module is unloaded |
| `hello_init` and `hello_exit` of the scull drivers | `sculldev`, the cdevs, the kernel's map of numbers, inodes | register, allocate, set up and add the devices; unregister, free, delete | unchecked results; `kfree` before `cdev_del`; nothing keeps a module whose device is open |
| `char_driver/driver_1`, `link_d` | none | print when loaded and unloaded | - |
| `block_driver` | the disk's memory, a request queue and its lock, the number of users | the request function, under the queue's lock; `end` | the request loop, the sector that is ignored, what `end` leaves behind |
| `pp_driver/driver_centronics` | the port | writes one byte a second | none: there is no handshake |
| `pp_driver/driver_nibble` | the port, on two machines | four bits at a time, each side waits for a status line | the waits |
| `serial_driver/serial_normal` | the UART's registers on two machines | `serialport_write` raises DTR, polls CTS, sends, sleeps 2 s; `serialport_read` polls DSR, raises RTS, sleeps 1 s, takes the byte | only the sleeps keep the two in step |
| `serial_driver/serial_new` | the same, `flag`, a work queue | the polling is done by work items, which set the flag | the flag is not cleared; work outlives its caller |
| `serial_driver/serial_interrupt_handshake_*` | the same, `flag` and `rflag`, IER | modem-line interrupts queue the work | edges, flags and waits belong to different bytes |

Processes call into one driver instance, the kernel runs them in any order, may
kill them or deny them memory; the serial drivers' two instances share nothing
but the modem lines and the receive register of the peer.

### What makes each part correct

* store: a list never mixes two writes and its nodes come in order; a list
  without an end is one that a running (or killed) write still owns; a read
  delivers consecutive quanta of one write and, past its end, nothing that looks
  like data; reads that ask for no more than was written copy no unset slot.
* the fill loops: exactly the slots the reads need, at most one quantum beyond
  the caller's buffer, and they end.
* synchronised devices: no read before a list is there; no lost wake-up; a
  write lets a waiting read through.
* programs of `driver_sync`: one write at a time, the semaphore survives any
  process; every read finds a completion and its own message or a later one; all
  programs end.
* loading and unloading: from the first `cdev_add` until `rmmod`, whatever leads
  to a device (a file, an inode, the kernel's map, the entry in `/proc`) leads to
  memory that is set up; what an unloading leaves behind does not reach the next
  load; `rmmod` ends, and nobody is inside `read_proc` when the module goes.
* `ioctl_driver`: on a device whose quantum no ioctl has set, what a read copies from
  a list is in its place, and a read of a list that has its end stays inside it,
  whoever writes meanwhile and changes the other device's quantum; calls end.
* disk: transfers stay in its memory, every request is ended once, and nothing is
  on the way when it is unloaded.
* serial drivers: the bytes arrive once and in order; both calls return; a
  signal ends a write; no work runs after unloading.

## The modules

| Module | Models |
|---|---|
| `ScullLayout` | the arithmetic of counts, quanta and nodes shared by the scull devices |
| `ScullFill` | the two nested loops of one `scull_write`, an assignment at a time |
| `ScullRegister` | abstract: a device that holds one write at a time |
| `ScullStore` | `driver_2`: any number of tasks that open, write, read and release concurrently |
| `ScullSync` | `driver_sync`: `ScullStore` and the completion |
| `SyncApps` | `app1`, `app2`, `app3` and `semaphore.c`: processes that use `ScullSync`'s driver |
| `ScullBlock` | `ioblock_driver`: `ScullStore`, the flag and the wait queue |
| `ScullModule` | loading and unloading of `driver_2`, `ioctl_driver`, `proc_driver` and `jiffies_driver`, with the processes that open, call, close and read `/proc` |
| `ScullIoctl` | `ioctl_driver`: `ScullModule`, the ioctls, and writes and reads under the quantum they load |
| `BlockDisk` | `block_driver`: `start`, `end`, the request function and its transfers under the queue's lock, opens and closes |
| `SerialLine` | `serial_normal`: writer and reader on two machines, with real time |
| `SerialWork` | `serial_new`: `SerialLine`'s sends and takes, the work queue, signals, unloading |
| `SerialIrq` | both interrupt-driven drivers: programs, handler, work, edges, without time |
| `ScullLayoutProofs`, `ScullFillProofs`, `ScullStoreProofs`, `BlockDiskProofs`, `SerialIrqProofs` | the theorems about the module of that name |
| `ScullWaitProofs` | those about the devices whose reads wait: `ScullSync`, `SyncApps`, `ScullBlock` |
| `ScullModuleProofs` | those about `ScullModule` and `ScullIoctl` |
| `SerialLineProofs` | those about `SerialLine` and `SerialWork` |

`ScullSync` and `ScullBlock` extend `ScullStore` and conjoin the synchronisation
to its actions, as the drivers' sources extend `driver_2`'s. `SerialWork` does
the same with `SerialLine`. `SyncApps` composes `ScullSync` with its callers: the
driver's calls happen where the programs make them, and only there. `ScullIoctl`
extends `ScullModule`: its calls are `ScullModule`'s, with data. `ScullStore` and its
extensions take a device that is there for granted; that `open` finds such a one is
`ScullModule`'s `LoadedIsSound`.

### How state and actions correspond to the code

`ScullStore`. A step is one node. `head` is `scullqset`, `data` and `next` the
fields of `struct ScullQset`; a node that was allocated and not filled has `WILD`
contents, which also stands for any uninitialised pointer. For each task, `pc`
is the place in the call, `cur` is `temp2` in a write and `temp1` in a read,
`cnt` the count, `idx` the loop counter, `out` what a read has delivered.
`WriteNode` is one round of the outer loop (lines 49-70: allocate, fill, and
publish or link), `WriteTerm` line 72, `WriteOom` the oops of an unchecked
`kmalloc`, `WriteTermWild` the store through an uninitialised `temp2` that a write
of no bytes makes. `ReadLoad` takes the head (line 108) and `ReadCheck` looks at
the head *in memory* (line 111), two steps, because the code reads it twice.
`ReadNode` copies one node and follows its `next`; `ReadFault` is what happens
when that is no node. A filled node never changes, so copying it slot by slot
commutes with every other step; that the inner loop fills the slots `NodeData`
says is `ScullFill`'s subject. Stores are seen in program order (x86).

`ScullSync`'s `done` is the completion's counter. `ScullBlock` splits the end of
a write into `RaiseFlag` and `WakeQueue` (lines 80 and 81) and has `Sleep`, which
is atomic with the test of the flag because `wait_event` tests again once queued.
`NOD` is the module parameter: all devices are added under one number, so `open`
finds the last. `unread` is a history variable: no read has taken the list since the
flag was last set.

`SyncApps`. A process is one task, since `main` joins each thread before it goes
on; `app` is its place in `main` and in the two thread functions, `pc` its place
in the driver. `sem` is the semaphore's value and `undo` what the kernel will add
to it when the process ends (both operations use `SEM_UNDO`; `SETVAL` clears the
adjustments). `Kill` can come wherever no driver call is running: inside one, the
only wait is `wait_for_completion`, which no signal ends. The layout and the
message sizes are the real ones (8, 8; 26 and 28 bytes), so a read of 28 bytes
may meet the list of a write of 26.

`ScullModule`. `insmod` and `rmmod` are a sequence `todo` of kernel calls, one step
each, for each of the four drivers (`Driver2Init`, `ProcExit`, ...). `mem` is the
array `sculldev` as memory: not allocated, live, freed, or taken by somebody else.
`ready` counts the devices whose fields are set, `added` those given to `cdev_add`.
`map` lists the kernel's entries for the number in the order it searches them: all
devices are added under one number, so the newest hides the others and `cdev_del`
of the first device removes the last one's entry. `inode` is the device the node's
inode remembers (`i_cdev`), which `chrdev_open` prefers to the map; `MakeNode` is the
script's `rm` and `mknod`. `hello_init` sets `owner` and then calls `cdev_init`, which
clears it, so no open counts as a use (`OwnerSet`) and `Rmmod` may happen under
open files. A use of memory that is another's, or that was never set up, may kill
the process or not (`Broken`); a use after the module is gone does (`Gone`).
`create_proc_read_entry` may fail unnoticed (`CreateEntry`). `script`
says that users keep to the order of the `test` scripts, and `dirty` that freed
memory was reused or that a file outlived its module.

`ScullIoctl`. As in `ScullStore` a step is one node: `WriteNode` is a turn of the loop
of `scull_write` (lines 50-71), whose first publishes the list (line 63) and whose
others link behind it (line 68); `WriteReturn` ends the list (line 73). `ReadNode`,
`ReadAstray` and `ReadFault` are a turn of the loop of `scull_read` (lines 115-125): at a
node, behind a pointer that was never set, and where it dies. `lq` is the local copy
`lquantum` that each call makes at its beginning, `on` the write whose list it builds or
walks, `at` the number of the node that `temp1` points to (or `NULL`, or `WILD`) and
`rest` is `lcount`. A list is named by its write and its nodes by their numbers, since
`ScullStore`'s `ListShape` shows that links never lead from one write's list to
another's. The layout is `ScullLayout`'s with a quantum that varies (`QsetsBy`,
`Fills`, `Slots`, `RestBy`); `MeetsUnset` and `SameBytes` say what a walk with another
quantum meets. The ioctl changes `sculldev->quantum`, the first device's; `open` finds
the last. A call that begins in memory that is another's is `Stray`: it may return or
kill its process, and what it does is not followed.

`BlockDisk`. `Submit` is the block layer's adding of a request under the queue's
lock; `Run` takes the lock and makes the request function's first fetch, `Transfer`
is one round of its loop (a segment: copy, end it, fetch when it was the last),
`Return` gives the lock back. Which request is fetched is the elevator's choice, and
any waiting process may run the queue for the others. `cells` is `dev->data`;
`ideal` is what a disk would hold. `DelDisk`, `StrayUnlock` and `Unregister` are the
lines of `end`: it unlocks a lock it does not hold and keeps memory and queue.

`SerialLine`. `dtr` and `rts` are what each side drives, `rbr` the byte in the
reader's receive register. `wtime` and `rtime` are the tenths (or any unit) until
a process's sleep is over: a process may take its next step when its timer is
at most 0 and must do so before it falls below `-Late` (`Tick`). `Second` is the
length of a second in that unit, `Late` how late a process can be.

`SerialWork` adds `flag`, a work item per machine (`queued`, `work`) and the
module's state. `SerialIrq` replaces time by interleaving: `delta` is the UART's
memory of a changed line, cleared by every read of MSR, the first one of
`my_rwq_func` included (`WorkFirst`); `Handler` runs when it is set, enabled and
(where the board gates the line by OUT2) let through. `ByteInterrupt` is the handler's
case 0x04: between lines 188 and 189 of a read, and only there, received data
interrupts, and whether the handler comes in time is left open.

## The runs

| Run | Question | Bounds |
|---|---|---|
| `fill` | do the loops fill the right slots and end? | 16 counts on both sides of every edge of a quantum of 3 and nodes of 2 slots, up to 4 nodes |
| `store` | what can lock-free readers and writers see? | 3 tasks, 4 nodes, writes of 0, 1 and 2 nodes, reads within and beyond them, 3 writes |
| `sync` | does the completion protect reads, is it never lost, and do reads that fit copy only what was written? | 3 tasks, 3 nodes, 2 writes of 1 and 2 nodes, reads of one node |
| `apps` | do semaphore and completion together keep the programs apart, give each read its data, and let all end? | 3 programs, one of them `app1` on a new semaphore or none, each killed anywhere between calls |
| `block` | are wake-ups lost? | 2 readers, 2 writers, 2 nodes, 2 writes |
| `block_nod` (violated) | and with `nod=5`, as the script loads it? | 1 reader, 1 writer |
| `serial` | does a transfer arrive and end? | 5 bytes with the `.` fourth, a second of 7 units, 2 units of lateness |
| `serial_work` | does it with a flag that is never cleared, signals and unloading? | 4 bytes, a second of 5 units, 1 unit of lateness |
| `serial_irq` | can the interrupt drivers overrun, or lose the first byte? | 2 bytes, boards with and without the OUT2 gate, signals |
| `serial_irq_byte` (violated) | does a byte wake the read that waits for it? | 1 byte |
| `module` | what leads to which device while drivers are loaded, used, unloaded and loaded again; what do reads get beside writes and when the quantum changes; do `rmmod` and the calls end? | 4 drivers, up to 2 devices, 2 loads (`ioctl_driver`: 1), 2 tasks, 1 reader of `/proc`; the message of 104 bytes with quanta 8 (two nodes), 16 (one) and 0, qset 8; 2 writes in the script's order, 1 in another |
| `disk` | do transfers stay in memory, does one place read back, do requests end, is unloading quiet? | 3 processes, requests of 1 and of 2 + 1 sectors at 2 places, 2 writes, a page of 2 sectors, a disk of 1 that is told to be 6 |

Bounds named in the modules: `MaxWrites` (calls of write), `Node` (memory; when
it is used up, `WriteOom` happens, so running out is part of the runs), `Runs`
(calls of each serial program), `MaxNod`, `MaxLoads` and `DataLoads` (devices and
loads of a module), `Settable` (the quanta an ioctl sets, besides 0), `LooseWrites` (of
`ScullIoctl`'s `MaxWrites` calls of write, those where the users do not keep to the
script's order). Two-node writes
are the smallest that have a published list still being built, three tasks the fewest where a reader has two
writers rebuild the list under it, and reads beyond the last write are in
`store`. Three programs are the fewest where a second unit of the semaphore,
left by one that was killed, lets the other two in together. In `serial`,
`3 * Late < Second` holds with nothing to spare (2 and 7), and is what the proof needs; with `Late` one larger the bytes get lost. `sync`,
`apps`, `block`, `module` and `disk` check liveness and use no symmetry. Reads that span two nodes
and fit are not in a run: `StoreWalkCovered` proves them for every count.
In `module`, two devices are the fewest where `cdev_del` removes another's entry and
leaves a freed device in the map, and two loads the fewest where the second can
meet what the first left; `DataLoads` is 1 because the data belong to one load.
With the quantum 16 a message written with 8 is read with pieces missing, and one
written with 16 is read with 8 past the list's end; with 0 a write divides by it and a
read walks to the list's end without counting. Two writes are the fewest where a read
beside one may take the finished list of the other or the unfinished new one, of
different quanta. In the script's order they happen in any interleaving with reads and
ioctls; the other orders are there for what unloading does to a call in progress, and
for that one write, between two nodes or done before a read's next one, is enough. In `disk` the sizes are scaled: in the source a page is 8
sectors, the disk 4, the capacity 2048, and the same inequalities hold.

Deadlock is not checked: programs end, tasks block on one another for good
reasons or die, and the bounds stop the rest. What must not block is stated as
liveness.

### Fairness

* `ScullSync`, `ScullBlock`: weak fairness of each task's steps inside a call
  (the kernel runs a runnable task), none for beginning a call.
* `SyncApps`: weak fairness of each program, and strong fairness of `SemaphoreP`,
  because `semop` queues the processes that wait and serves them in turn. None for
  `app1`'s setting of the semaphore, which may never be started.
* `SerialLine`: weak fairness of the processes and of time.
* `SerialWork`: besides, strong fairness of `WorkLook`. A work function tests the
  line in a loop without sleeping, many times in the second that a line is up, so
  it does not miss one that keeps coming up.
* `SerialIrq`: weak fairness of programs, handler and workers.
* `ScullModule`: weak fairness of `insmod`'s and `rmmod`'s next kernel call and of
  a reader that is inside `read_proc`; none for loading, unloading, opening or
  calling. `ScullIoctl` adds it for each call that has begun, of which one step is one
  turn of its loop.
* `BlockDisk`: weak fairness of running the queue by somebody, which the block
  layer does when it is unplugged; none for requests, opens and closes.

### What the runs found

* `block_nod`: `ioblock_driver/lkm.c:81` wakes the queue of the device that was
  opened, line 90 sleeps on the first device's. With `nod=5`, as `test` loads
  the module, the reader is never woken.
* `serial_irq_byte`: IER is overwritten (`reader/lkm.c:188-190`), a received
  byte does not interrupt, and the last byte of a write is not taken. Consequently
  `NoOverrun` holds by a wide margin in this code, since a transfer without a
  signal or a byte left in the port stops early; `FirstByteSent` says how far it
  gets for sure.

What the models show beside these, with no line in the repository that promises
otherwise:

* The read of `serial_normal` leaves RTS up after the `.`, which the next write
  takes for an answer: a second transfer loses bytes and its read waits on. The run
  `serial` makes one transfer.
* The last work item of `serial_new`'s read waits for a DSR that nobody raises, and
  `hello_exit` waits for the work item. `NoWorkAfterUnload` is about an unloading
  that gets past it.
* A read of `ioblock_driver` clears `wait_flag` when it ends (line 113), though a write
  may have raised it meanwhile: the sleepers that this write wakes find it down, and
  its list is not read before the next write. `SleeperReads` is therefore about a flag
  that is raised while no read is under way: then a read takes the list afterwards.
* A read of the ioctl driver's 104 bytes, two nodes, beside a write of the same can take
  the list before it has its end (line 63 against 68 and 73) and follow a `next` that
  was never set, on any device and without an ioctl. The same is true of a list whose
  write ran out of memory. `ReadsAsWritten` says that it can happen with no other list.
* With the quantum 0 a read copies nothing and never counts down: it ends when it follows
  the `NULL` at the list's end and is killed there. Behind a pointer that was never set
  it may go on for ever, which `CallsEnd` leaves out by name.
* `rmmod` of the character drivers is possible at any time. `LoadedIsSound` therefore
  ends at `rmmod`, `ScriptIsSound` needs the script's order, and
  `OneDeviceLeavesNothing` one device whose memory nobody got between `kfree` and
  `cdev_del`. With more devices entries of freed ones stay in the kernel's map.
* `alloc_chrdev_region` never returns -1, so a load without a number goes on
  (`driver_2/lkm.c:144`); an `open` then finds what an earlier load left, which is why
  `ScriptIsSound` asks for `region`.
* A reader of `/proc` between `kfree` and `remove_proc_entry` reads freed memory; if
  it dies there, `rmmod` waits for it for ever (`RmmodEnds` allows for that).
* The disk ignores the sector (`blk.c:69`): `OnePlaceReadsBack` holds for one place
  and not for two. It tells the kernel a capacity in bytes where sectors are
  meant; `StaysInMemory` holds only because of that first fault. Without memory the
  first transfer dies holding the queue's lock.

Reads of the store before the first write, reads beyond the last one and writes of
no bytes fault or deliver garbage; the models contain these outcomes (`WILD`,
`ReadFault`, `WriteTermWild`), and the properties say what still holds beside them.

## The proofs

TLAPS proves, for every value of the constants (any number of tasks, nodes and
writes, any layout, counts, transfer length and timing):

| Theorem | States |
|---|---|
| `FillBounded`, `FillIsExact`, `FillCoversRead` | the fill loops overrun by at most a quantum, and fill the slots `ScullStore` assumes, among them all that a read of as many bytes copies |
| `StoreTyped`, `StoreTerminated`, `StoreListShape`, `StoreWalkCovered` | `TypeOK`, `UnterminatedOwned`, `ListShape`, `WalkCovered` |
| `StoreImplementsRegister`, `SyncImplementsRegister`, `BlockImplementsRegister` | `ImplementsRegister`: the devices of `driver_2`, `driver_sync` and `ioblock_driver` implement `ScullRegister` |
| `SyncTyped`, `SyncReadAfterPublish`, `SyncNoReadFault` | `SyncTypeOK` and the two safety properties of `driver_sync` |
| `AppsOneUnit`, `AppsWritesExclusive`, `AppsNoReadWaits` | `OneUnit`, `WritesExclusive` and `NoReadWaits`, for any number of programs |
| `AppsReadOwnOrNewer`, `AppsTyped` | `ReadsOwnOrNewer`, and `AppTypeOK` with nobody killed by the driver, for any number of programs |
| `AppsImplementRegister` | `ImplementsRegister` again, for the device as these programs drive it |
| `BlockTyped`, `BlockNoLostWakeup`, `BlockFlagAfterPublish` | `BlockTypeOK`, `NoLostWakeup` and `FlagAfterPublish`, for any number of readers and writers |
| `LineInvariant`, `LineInOrder` | `LineInv` and `InOrder`: `serial_normal`'s bytes arrive once and in order |
| `WorkTyped`, `WorkNothingSkipped`, `WorkNoneAfterUnload` | `WorkTypeOK`, `NothingSkipped` and `NoWorkAfterUnload` of `serial_new` |
| `ModTyped`, `ModLoadedIsSound`, `ModScriptIsSound`, `ModOneDeviceLeavesNothing` | `ModTypeOK`, `LoadedIsSound`, `ScriptIsSound` and `OneDeviceLeavesNothing`, for each of the four drivers, any number of devices, loads, tasks and readers |
| `DataTyped`, `DataReadsAsWritten` | `DataTypeOK` and `ReadsAsWritten` of `ioctl_driver`, for any message and quanta, devices, loads, writes and tasks, node by node |
| `DataKeepsModule` | `LoadedIsSound`, `ScriptIsSound` and `OneDeviceLeavesNothing` hold with its data and its ioctls as well |
| `DiskTyped`, `DiskStaysInMemory`, `DiskUnloadIsQuiet`, `DiskOnePlaceReadsBack` | `DiskTypeOK`, `StaysInMemory`, `UnloadIsQuiet` and `OnePlaceReadsBack`, for any sizes, requests and processes |
| `IrqTyped`, `TurnsKept`, `NoOverrunHolds` | `TypeOK`, `Undisturbed` and `NoOverrun` of the interrupt drivers, for any message, runs and boards, and either driver on either machine |

Assumptions are the `ASSUME`s of the modules: quantum and qset are positive,
counts are natural numbers, `NULL` and `WILD` are distinct from nodes and each
other, `Second` and `Late` are natural numbers, segments are no longer than a page
(the kernel maps a segment's page by itself). In `SyncApps` memory is enough for
every program's write and the programs are finitely many (`EnoughMemory`); a message
takes one node, and a read of either size asks for slots that a write of either
fills (`MessageSizes`). The programs' 26 and 28 bytes, cut by 8, do so; two sizes
that fill different quanta would let a read of the longer message copy a slot that
the shorter one left unset. `AppsOneUnit`, `AppsWritesExclusive` and `AppsNoReadWaits`
use of all this only that the programs are finitely many.

*Store.* `ListShape` is not inductive: whether the next node fits depends on
where its writer is. `StoreInv` adds `Memory` (every allocated node is the j-th
node of some write of an allowed count, links go from j to j + 1), `WritersAt`
(`temp2` is node `idx - 1` of the writer's own list) and `ReadersAt` (bytes
wanted plus bytes walked make up a count of the caller). One lemma per action
shows that it is kept; `MemoryFrame` and `TaskFrame` cover what a step leaves
alone. `WalkCovered` then follows from the arithmetic of `ScullLayoutProofs`.

*Refinement.* `StoreInv` says nothing of what a read has got; `WalkInv` adds
`Delivered`: a read that goes on has as many quanta as come before the node it stands
at, in order and of that node's write. (Once the bytes wanted are used up, or the walk
has left the nodes, there is nothing more to say: what follows is garbage.) With it,
each action is one step of the register: a write's first node publishes, taking the
list takes, a node delivers (`NodeCopied`: the filled slots of a node are a prefix of
it, so garbage is only ever followed by garbage), a return ends and a fault aborts;
all others leave the register alone. `driver_sync` and `ioblock_driver` only restrict
when a list is taken, so the theorem carries over.

*Sync.* Every step of `ScullSync` is a step of `ScullStore` or leaves its
variables alone, so `StoreInv` is inherited; the new part is that a positive
count, or a read past the gate, implies a published first node.

*Programs.* `UnitInv` adds to `OneUnit` that a write runs only inside its program's
critical section and that nobody holds the semaphore before `app1` has set it,
without which setting it could add a second unit. That is exactly what fails when
`app1` is started while another program holds a semaphore that an earlier run
left: `SETVAL` then makes a second unit, and no later step takes it away. The
model leaves that start out (`AppInit`).

`NoReadWaits` compares a number of processes with the completion's counter. `Places`
ties where a process is to where its task is in the driver; every step then leaves
both numbers alone, adds one to both (a write returns), takes one from both (a read
passes the wait), or takes a process only (a signal).

`ReadsOwnOrNewer` is about reads outside the semaphore, beside the write of whoever
has it. `OwnInv` says that the write that runs is the last one begun
(`WriterNewest`, which is where `WritesExclusive` is needed), so what its first node
replaces is older, and no later step publishes something older than a write that
returned (`PublishedSince`). A process's own write is published when it gives the
semaphore back, so the list its read takes is of that write or a later one
(`ReadsNoOlder`); the node it copies then has all the slots it asks for
(`FirstNodesFilled`). That a read of a published list delivers one write only is
inherited from `ScullStore`.

`AppsTyped` says among the rest that nobody dies in the driver. A write dies when
`kmalloc` has nothing left; `Room` compares the used nodes with the processes whose
write has taken its node (`Spent`), and a process at that line is not among them.
A read dies when it follows a pointer that is none, which `ReadsNoOlder` excludes.

*Block.* `NoLostWakeup` needs `Flags`: a raised flag belongs to a writer at its return.
`FlagAfterPublish` needs `Published`: as long as there is no list every task is before
its first node, so that nobody can raise the flag.

*Line.* `LineInv` says, for each place of the reader, where the writer can be and
which of the two timers runs out first. Both run together, so their difference
only changes when a process acts, and by no more than its lateness; three such
slips fit into a second, which is `InPace`.

*Work.* `serial_new`'s reader never waits for the writer, so its turns and the bytes are
not in step; `SkipInv` says instead that a byte which is not taken yet will be before
the writer can send another: the reader's next look at RBR, four late steps away at
most (`TakenBy`), comes before the writer's sleep of two seconds is over (`SentFrom`).
That is `WorkPace`. The first byte needs the flag: until a read has begun the writer is
held at CTS (`HeldBack`).

*Module.* `LoadedIsSound` needs to know what has happened so far. `ModInv` says how
many devices are set up and added at each call that `hello_init` has left
(`Loaded`, `Backed`), that every device that can be found is an added one of this
load or one of an earlier load (`AllKnown`), and that `hello_exit` cannot come to its
end while the file in `/proc` is there or read (`Unloaded`, `Entered`). The last is
why drivers with an entry end with `remove_proc_entry`: `ExitTodoStep` shows that no
other call can be the last of theirs.

`ScriptIsSound` adds `ScriptInv`: a node made in this load was made after `insmod`
returned (`NodeMade`), files are open only while the module is there (`OpenInLive`),
the kernel's map begins with the device that was added last (`NewestFirst`), so that
what open binds is of this load (`OpensCurrent`) and `ModInv` says that it is set up.
Entries for freed devices do stay in the map; they are only never first.
`OneDeviceLeavesNothing` is about a module whose map is either empty or that one
entry (`OneMap`); after `cdev_del` the node's inode remembers the device only while
some file keeps it open (`OneInode`), and `hello_exit` cannot end before `cdev_del`
(`OneDeleted`).

*Ioctl.* A step of `ScullIoctl` is a step of `ScullModule` with data, one that leaves
its variables alone, or a process that dies inside the driver, so `ModInv` and
`ScriptInv` are inherited once the last is shown to keep them (`StruckStep`).
`ReadsAsWritten` leaves out the first device after the quantum was set (`Untuned`), and
lists that had no end when they were taken. `DataInv` says why the rest is safe. A list
has no more nodes than its quantum asks for, and all of them when it is ended
(`ListsSound`); a device's head is a list that has begun, on an untuned device one that
was cut by the header's quantum, and a device of a later load has none (`HeadsSound`).
A call's own variables fit its list (`CallSound`), and on an untuned device the bytes a
read still wants and those it has passed make up the message for as long as it is on a
node, while off the nodes it is behind an unset pointer of a list that it took without
an end (`Plain`). An ended list has nodes enough for all bytes (`QsetsEnough`), so a read
of one is done before it comes to the `NULL`. Lists only grow (`ListsGrow`), which is why
a walk is left alone by everybody else's steps; the ioctl reaches the first device only.
TLC confirmed `DataInv` with two loads and two devices, more than `module` runs with.

*Disk.* `UnloadIsQuiet` follows from who owns a request: `DiskInv` says that the
requests in the queue and in hand belong to different processes, each waiting for
its own (`Owned`, `Single`), and that the lock is held exactly while one process
runs the queue (`Locked`). A process that waits is a user, and with users the
module is not unloaded. `StaysInMemory` rests on `AllocatedPage`: `vmalloc` gives at
least the page that a segment can fill. `OnePlaceReadsBack` needs `Mirrored`: as long as
all transfers began at one sector, the memory holds from its start what a disk would
hold from that sector on. A request of two segments begins two transfers at different
sectors, so the theorem is about single segments, as the property says.

*Interrupts.* The write sends when its wait is over, and the wait is over when `flag`
is up; so a second notice of one edge, or one that was left from the byte before,
would let it send over a byte that is not read. `Handshake` says that there is none:
the news that an input went up is an edge the UART remembers, or a queued work item, or a
running work function, or the flag, and one of them only (`OneNotice`); and at most
one of the two programs has news (`Turns`): the reader while the writer has DTR up
and waits, the writer while the reader has RTS up and waits the second time, its
port empty until the byte is sent. Signals end waits that nothing was
told to, and a byte left in the port makes a read go on early; from then on nothing
is claimed (`Undisturbed`), as `NoOverrun` claims nothing either. TLC checked
`Handshake` for the four pairs of drivers, two places of the `.`, two runs and both
kinds of board before it was proved.

Type invariants are stated and proved in every module, which is why most runs do not
list them.

Every invariant and action property that the passing runs check is stated by a
theorem. Checked by TLC only: liveness (`Terminates`, `WriteLetsReadThrough`, `AllEnd`,
`WriterWakesReader`, `SleeperReads`, `TransferEnds`, `BothEnd`, `KilledEnds`,
`FirstByteSent`, `RmmodEnds`, `CallsEnd`, `RequestsEnd`), because what holds under
fairness needs ENABLED, which the prover does not handle.

## Not modelled

* `driver_1`, `link_d`: they print when loaded and unloaded. `driver_centronics`: a
  loop without conditions that writes a byte a second.
* `driver_nibble`: there is no handshake to model. Its waits are over before they
  begin, since the status they test is the one from the wait before
  (`lkm.c:106`), and its read is not registered with the kernel (`header.h:91`).
* Loading and unloading of the serial and parallel drivers, but for the wait in
  `serial_new`'s `hello_exit`; `sbull_getgeo`, which computes numbers from a
  constant; the times that `jiffies_driver` measures.
* Unloading of the interrupt-driven drivers: `hello_exit` destroys the work queue
  before it frees the interrupt (`serial_interrupt_handshake_wrietr/lkm.c:89`), and
  nothing keeps an edge from coming in between. Transfers stop early, so programs
  end by a signal, and a read that got one raises and drops RTS in a loop
  while the other machine unloads: there is no property to check.
* `rmmod` of `serial_new` under a running program: `SerialWork` unloads after its
  programs, as the `test` script does.
* Negative quanta in `ioctl_driver`: the ioctl takes any number.
* The content of bytes, except for which of them is `.`, and where a byte of the
  ioctl driver's message ends up; baud rate and line control; the time a byte takes
  on the wire.
* Reads of an `ioctl_driver` device that was never written, which return nothing (line
  112); `ScullStore` has them.
* Memory that is another's: that a call there returns or kills its process is
  modelled, what it reads or changes is not.
* `copy_to_user` and `copy_from_user` failures: the code ignores their results.
* A `semop` that fails, interrupted or because the set was removed: `semaphore.c:37` does
  not look at its result, and the program would go on without the unit. Nothing in the
  programs removes the set or handles a signal.
* A `register_blkdev` that fails (`blk.c:9-11`): it is printed and otherwise ignored.
* Generated files, objects and build scripts.
* A program of `driver_sync` whose thread the kernel kills (an oops): with a node for
  each program it does not happen (`AppsTyped`).

## Plan

1. The disk against an abstract one: what the block layer asks for, for a transfer
   that honours the sector, and which part of it the transfer that ignores it keeps.
2. `driver_sync`'s programs with messages of several nodes, where a read beside a write
   can meet a list that is not finished: what it gets in place of `ReadsOwnOrNewer`.
3. Reads of `ScullStore` that span nodes and fit, in a run beside `StoreWalkCovered`.
