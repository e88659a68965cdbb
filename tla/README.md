# Two xv6 kernels in TLA+

The repository holds two modified xv6-riscv kernels, each under
`src/<name>/initial-xv6/src/kernel`, with their user programs in `user/`:

- **XV6-1** adds FCFS and multi-level-feedback-queue schedulers, `sigalarm`/`sigreturn`
  and `getreadcount`;
- **XV6-2** adds copy-on-write `fork()` and a priority-based scheduler with
  `set_priority` (the default build, `Makefile:147`, keeps round robin).

They differ in `kalloc.c`, `proc.c`, `proc.h`, `riscv.h`, `syscall.c`, `sysfile.c`,
`sysproc.c`, `trap.c` and `vm.c`; everything else is the same in both, and modelled once, from
XV6-2. The modules here model the two kernels, the shell and the allocator of the user programs,
check them with TLC on small instances, and prove what matters most with TLAPS for instances of
every size.

Line numbers below are those of XV6-2 unless a path says otherwise.

1. The system: inventory
2. Modules and how to read them
3. Memory  4. Processes and traps  5. File system and log
6. Schedulers, alarm and shell  7. Devices, heap, parser
8. Findings  9. What is proved  10. What is only model-checked, and what is not modelled
11. Plan

## 1. The system

| component | state | operations | what makes it hard | what makes it correct |
|---|---|---|---|---|
| physical pages (`kalloc.c`) | `kmem.freelist`, `useReference[]` | `kalloc`, `kfree` | two locks; the count and the list change in different critical sections | a page on the list has no reference; the count covers the references |
| copy-on-write memory (`vm.c`, `trap.c:33-61`, `proc.c`) | page tables, `p->sz`, `PTE_W`/`PTE_RSW` | `uvmcopy`, `cowhandler`, `copyout`, `uvmalloc`, `uvmdealloc`, `freeproc` | faults of sharers during `fork()`, `kalloc()` failing anywhere | shared pages are read-only; programs see private memory; nothing is leaked |
| memory of XV6-1 (`vm.c`, `kalloc.c`, `proc.c`) | page tables, `p->sz` | the same, copying at once | `kalloc()` failing half way through a copy | one owner per page; programs see private memory |
| process table (`proc.c`) | `state`, `chan`, `killed`, `parent`, `p->lock`, `wait_lock`, `c->proc` | `fork`, `exit`, `wait`, `kill`, `sleep`, `wakeup`, `yield`, `sched`, `scheduler` | lost wakeups, locks handed through `swtch()`, orphans, lock order | one CPU per kernel stack; `wait()` misses no child; nobody sleeps for ever; no deadlock |
| clock (`trap.c:208-215`, `sysproc.c:52-71`) | `ticks`, `tickslock` | `clockintr`, `sys_sleep` | an interrupt that takes locks and wakes sleepers | a sleeper wakes when its time is up |
| spinlocks (`spinlock.c`) | `locked`, `cpu`, `noff`, `intena` | `acquire`, `release`, `push_off`, `pop_off` | interrupts between any two accesses; a thread that moves to another hart | the holder is who it says; interrupts come back as they were |
| traps (`trampoline.S`, `kernelvec.S`, `trap.c`, `swtch.S`) | registers, `stvec`, `sepc`, `sstatus`, trapframe, context | `uservec`, `usertrap`, `usertrapret`, `kerneltrap`, `swtch` | traps in traps, other harts | what was interrupted goes on as it was |
| log (`log.c`) | `log.lh`, `outstanding`, `committing`, the log on disk | `begin_op`, `log_write`, `end_op`, `commit`, `recover_from_log` | a crash between any two disk writes; concurrent calls share one transaction | all the writes of a call or none; reserved space is there |
| inodes, directories, paths (`fs.c`, `sysfile.c`) | inode table, inodes, directories, bitmap | `iget`, `iput`, `namex`, `dirlink`, `create`, `link`, `unlink`, ... | the last `iput()` truncates with the table unlocked; locks of two inodes | links, references and blocks agree; no deadlock |
| contents of files (`fs.c`, `file.c`) | blocks, `addrs[]`, `size`, `f->off` | `bmap`, `readi`, `writei`, `itrunc`, `fileread`, `filewrite` | a disk that gets full in the middle | a file reads as it was written |
| buffer cache (`bio.c`, `sleeplock.c`) | buffers, `refcnt`, LRU list | `bget`, `bread`, `bwrite`, `brelse`, `bpin` | recycling, sleep locks | one buffer per block |
| disk driver (`virtio_disk.c`) | descriptors, the two rings | `virtio_disk_rw`, `virtio_disk_intr` | waiting for descriptors, completion out of order | every request completes once; descriptors come back |
| pipes and descriptors (`pipe.c`, `file.c`, `sysfile.c`) | `nread`, `nwrite`, ends, `f->ref`, `ofile[]` | `piperead`, `pipewrite`, `pipeclose`, `filedup`, `fileclose`, `sys_pipe`, ... | full and empty, close against sleep, wrap-around | bytes in order; no sleeper left behind; counts exact |
| console, UART (`console.c`, `uart.c`) | two rings | `consoleread`, `consoleintr`, `uartputc`, `uartintr` | interrupt against system call | lines stay apart; nothing stops |
| `exec()` (`exec.c`) | the old image and the new | `exec`, `sys_exec` | failure at every step | all pages back, the old image whole |
| schedulers (XV6-1 `proc.c`, XV6-2 `proc.c:471-512`) | `que`, `wtime`, `qtime`, `ctime`, `priority` | `scheduler`, `update_time`, slices in `usertrap` | scans that let go of locks, ageing, a second `devintr()` | the right process is chosen, on one hart; nobody starves |
| alarms (XV6-1 `trap.c`, `sysproc.c`) | `ticks`, `cur_ticks`, `alarm_on`, `alarm_tf` | `sys_sigalarm`, `sys_sigreturn`, timer trap | `devintr()` twice in one trap | the trapframe comes back; the page is given back once |
| init, shell, parser (`user/init.c`, `user/sh.c`) | processes, descriptors | `runcmd`, `parseline` | `pipe()` or `fork()` failing half way | a line is wired as it says, and comes to its end |
| `malloc` (`user/umalloc.c`) | the circular free list | `malloc`, `free`, `morecore` | joining at both ends | no unit lost or given twice |
| `getreadcount` (XV6-1) | one counter per process | | no second actor | not modelled |
| boot, PLIC, `printf`, `string` | | | straight-line code | not modelled |
| `usertests`, other user programs, `mkfs` | | | the environment | not modelled |

Processes interact through system calls into these components, which share memory under
spinlocks; interrupts (clock, disk, UART) run on a hart in place of whatever ran there; every
wait in the kernel is `sleep(chan, lock)` and `wakeup(chan)` from the process table; `fork()`,
`exit()` and `wait()` use the memory components; the file system runs inside log transactions
on top of the buffer cache and the disk driver.

`PROJECT.json` lists every component with its status, and the hazards with the properties that
watch them.

## 2. Modules

| module | models | abstract specification | instance, run | proofs |
|---|---|---|---|---|
| `CowMemory`, `CowPrivate` | pages and page tables of XV6-2 | `PrivateMemory` | `MCCow`: `cow_private`; `MCMemory`: `cow` | `CowMemoryProof` |
| `EagerMemory` | pages and page tables of XV6-1 | `PrivateMemory` | `MCDevices`: `devices` | `ProgramProof` |
| `ProcTable` | process table, scheduler, clock | - | `MCTables`: `tables`; `MCProc`: `proc_live` | `ProcTableProof` |
| `Trap` | registers through traps | - | `MCMemory`: `cow` | `ProgramProof` |
| `Spinlock` | spinlocks, interrupt flag | - | `MCStorage`: `storage` | `SpinlockProof` |
| `Log` | the log, crashes, recovery | `Transactions` | `MCStorage`: `storage` | `StorageProof` |
| `Inodes` | inode table, directories, paths | - | `MCTables`: `tables`; `MCInodes` | `InodesProof` |
| `FileData` | contents of files | `FileStore` | `MCStorage`: `storage` | |
| `BufferCache` | `bio.c`, `sleeplock.c`, `virtio_disk.c` | `BlockStore` | `MCDevices`: `devices` | `DevicesProof` |
| `Pipe` | pipes, open files, descriptors | `Channel` | `MCDevices`: `devices` | `DevicesProof` |
| `Console` | console on the UART | `LineDiscipline` | `MCDevices`: `devices` | |
| `Exec` | `exec()` and its error paths | - | `MCStorage`: `storage` | `StorageProof` |
| `ScanScheduler` | FCFS and PBS | - | `MCSched`: `sched` | `SchedulerProof` |
| `Mlfq` | feedback queue | - | `MCSched`: `sched` | |
| `Alarm` | `sigalarm`, `sigreturn` | - | `MCSched`: `sched` | `SchedulerProof` |
| `Shell`, `ShellParser` | init, shell, parser | the grammar, in `ShellParser` | `MCSched`, `MCStorage` | |
| `Heap` | `malloc`, `free` | - | `MCStorage`: `storage` | |

**Composition.** `CowPrivate` composes `CowMemory` with `PrivateMemory` through a refinement mapping;
`Log`, `EagerMemory` and the MC modules do the same for the others (`INSTANCE ... WITH`). `Shell` uses
`ShellParser` to make the processes of a line. Where one component uses another, it uses what the
other is shown to promise: `Log` writes blocks as `BlockStore` does, the calls of `Inodes` are
transactions as in `Transactions`, the shell's pipes are `Channel`s, and programs have the memory of
`PrivateMemory`.

**Side by side.** An MC module may hold components that do not interact. The variable `active`,
chosen in the initial state, says which of them runs; the others rest, so the numbers of their
states add up and are not multiplied. A resting component whose module the MC module extends rests in
one of its initial states (a pipe with no process alive), the rest of them have no value at all
(`"-"`), which symmetry then has nothing to do with. A step of `PrivateMemory`, of `BlockStore` and of
`FileStore` is looked for only when a variable of the component that implements it changes: where nothing
changes each of them allows the step.

**Mutants.** A definition whose comment begins with "Mutant:" is a variant of the definition after
it with a plausible bug. No specification uses it: it is kept to show that a property notices the bug
(`PROJECT.json`, "mutants").

**History.** A few variables are no part of the code and record what a property is about:
`interrupted` and `kept` (`Alarm`), `seen` (`ScanScheduler`), `unwoken` (`Pipe`), `lost` (`Inodes`), `mine` (`Heap`),
`user` and `left` (`Trap`). No guard reads them.

## 3. Memory

**State of `CowMemory`.** `freelist` and `useReference` are those of `kalloc.c`; `limbo[p]` is the page that
`kfree()` has counted down to zero and not pushed yet (`kalloc.c:63-74`). `pa[p][s]` is the
physical page in a *slot* of a process: a leaf PTE, a page of the page table, the trapframe,
or one of the kernel locals that own a page for a moment (`mem` of `cowhandler`, `copyout`
and `uvmalloc`; `pa` of `uvmcopy` after the count). So references can be counted, which is
what the reference counts are about. `flags` are `PTE_W`, `PTE_RSW` (the COW bit) and
`PTE_U`; `sz` is `p->sz` in pages; `pc` and `loc` are where a kernel thread is and its locals.

**Steps.** One critical section of `kmem.lock` or `ref_count_lock`, with the process's accesses
to its own page table around it. Nobody else writes a process's page table while the process
exists, so finer steps would add no behaviour that another process can see. `fork()`'s
`uvmcopy()` is one step per page and per page-table allocation; `cowhandler()` is
copy / `kfree` / remap; `freeproc()`, `uvmdealloc()` and `uvmcopy()`'s error path free one page
at a time. `exit()` and `wait()` appear as far as memory goes: a parent reaps its zombies, and
orphans go to `initproc`. A panic is a disabled action; `MappedExactly` shows that the
panics of `vm.c` are unreachable.

**`EagerMemory`** is the same code without reference counts, as XV6-1 has it: `uvmcopy()` allocates, copies
and maps page after page, and takes back what it has on failure. `elsewhere` are pages that pipes and
the kernel hold for good, the part of memory that an instance withholds.

**`PrivateMemory`** is what both promise programs: `Write` changes one page of one program, `Fork` gives the
child a copy at one moment, `Resize` adds zeroed pages or takes pages away, `Exit` ends a memory. For XV6-1
this holds whatever fails. For XV6-2 three steps break it, which section 8 describes; `SoundSpec`
(`CowPrivate`) is the kernel without them: `copyout()` does not go on to a page that it has not copied (`StoresShared`),
and `mappages()` in `uvmcopy()` gets its page-table page (`LeaksPage`). Every other `kalloc()` may fail.

**Left out.** `copyin()` (only reads), address bounds above `MAXVA`, `exec()` (module `Exec`, which counts
pages), locks of the process table (`ProcTable`), the page of a saved trapframe (`Alarm`).

| run | instance | shows |
|---|---|---|
| `cow` | 2 processes, 2 pages each, two page-table leaves, every number of free pages down to none | sharing, free list, counts and page tables under every interleaving and every `kalloc()` failure |
| `cow_private` | 2 processes, 2 pages, 2 values, 10 physical pages, `SoundSpec` | `RefExact`; shared pages are constant; `CowMemory` implements `PrivateMemory` |
| `devices` (memory) | 2 processes, 2 pages, 2 values, read-only text, every number of free pages | `OwnedOnce`; `EagerMemory` implements `PrivateMemory` |
| `cow_fork_leak`, `cow_text` | little memory; a read-only first page | violations, section 8 |

**Bounds.** The number of frames covers all that two processes can use at once, minus
what the instance withholds. Two processes share a page in every way that two can; what three sharers add
is in the theorems, which hold for any number. The leaked counts are capped by `CountBound` (4, more than
the processes can reach without the leak). `VIEW` identifies states that differ only in which
physical page holds what: `kalloc()` treats free pages alike, and the view keeps for each page
in use its references, count and contents. Programs may stop for good, so deadlock is not
checked here.

## 4. Processes and traps

**State of `ProcTable`.** `state`, `chan`, `killed`, `parent` are the fields of `struct proc`; `cpu[c]` is
`c->proc`; `insched` holds the processes between taking `p->lock` for `sched()` and the
`swtch()` that leaves their stack. `lock`, `wait_lock` and `tickslock` name the holder of a lock
that is held from one step to the next: `fork()` on the child, `wait()` and `exit()` on
`wait_lock`, a process on its way through `sched()`, `sys_sleep()` and `clockintr()` on
`tickslock`. Locks taken and released inside a step are guards (`Free`). `clk` is where `clockintr()` is in its
`wakeup(&ticks)`.

**Steps.** From one `acquire()` to the next. The scans of `wait()`, `reparent()`, `wakeup()` take
one step per entry, so every interleaving with the entries behind and before them is explored.
The clock interrupt comes on CPU `Cpu0` when interrupts are on (`IntrOn`, `Spins`:
`acquire()` turns them off before it waits) and does its `wakeup(&ticks)` entry by entry.
A killed process goes to `exit()` at its next trap (`InUser`, `trap.c:87,121`).

**Left out.** Memory, files, pids (an entry stands for the process in it: `kill`
on an entry with the pid, and `kill(0)`, which matches unused entries, are separate actions),
kill of `initproc` (its exit panics by design), `waitx()` (it is `wait()` with `p->killed` read
without the lock).

**`Trap`** has the registers themselves: what `uservec`, `usertrap()`, `usertrapret()`, `userret`, `kernelvec`,
`kerneltrap()` and `swtch()` save and restore, on harts of their own. What runs with interrupts off
is one step. **`Spinlock`** is `spinlock.c` access by access; a thread is a script of `acquire()` and `release()`
taken from the callers (`Visit` of a table entry, `tickslock` around `p->lock`, `sched()`), and an
interrupt puts the script of its handler in front.

| run | instance | shows |
|---|---|---|
| `tables` (processes) | 3 entries, 2 CPUs, `sleep(0)` and `sleep(1)` | one CPU per kernel stack; no lost wakeup of `wait()` and `sleep()`; no missed child; living parents; `sched()` never with a second lock; no deadlock |
| `proc_live` | 3 entries, 1 CPU, one sleeper, `FairSpec` | `wait()` returns, killed processes exit; nothing of locks taken on two CPUs |
| `cow` (traps) | 2 processes, 2 harts, 2 instructions | `TrapsExact`: a trap gives back what it interrupted |
| `storage` (spinlocks) | 2 harts, 2 threads beside their schedulers | `LocksNest`: `noff`, `intena` and the holders fit |
| `proc_kill0` | 2 entries, 2 CPUs | violation, section 8 |

**Bounds.** Three entries give a parent, a child and a grandchild, the shortest chain in which
an exit hands children over. Two CPUs give every interleaving of two threads; more CPUs than that would
need more entries to matter.

**Fairness.** `scheduler()` goes round the table and takes whatever is runnable: strong fairness
of `Run` for each process (its lock may be held just when the scan passes). Every CPU has timer
interrupts: strong fairness of `Yield` per CPU and of the clock. A thread with interrupts on is
not interrupted before every instruction, and spinlocks let each waiter in at some time (the
code has no queue; this is the usual assumption on `amoswap`): strong fairness of `Thread`.
Nothing is assumed about programs: they need not call `exit()`, `wait()` or anything else.
`WaitReturns` asks that `wait()` returns for some child, since the scan starts at the
beginning each time and may pass over one in a high entry; `KilledExits` leaves out the window
between `killed(p)` and `sleep()` in `wait()` (`proc.c:445-452`), where the code does lose the kill. With its one CPU
`proc_live` does not open that window, nor does it show anything of the order of locks between CPUs: that is
deadlock in `tables`.

## 5. File system and log

**`Log`.** `home`, `dlog`, `hdr` are on disk and survive a crash: the blocks at their places, the
blocks of the log, the block numbers in its header. `buf` is the buffer cache, `pinned` the
blocks with a pin, `lh`, `outstanding`, `committing` the fields of `log`; `phase` and `tail` are
where `commit()` or `recover_from_log()` is. A step is one critical section of `log.lock`, or one
`bwrite()`. A crash may come between any two steps, during recovery too, and in the middle of a `bwrite()`:
the block is then `Torn` (a block is two sectors; the header's fields fit in its first sector, so its
write is atomic). A buffer that is not pinned may be recycled at any time, so `bread()` of it returns the
cached or the disk contents.

`Transactions` is the promise: writes between `Begin` and `End`, a `Commit` that makes all of
them durable at once when no call is half way, a `Crash` that keeps exactly the durable contents.
The mapping takes as durable what recovery would rebuild from the disk (`Recovered`).

*Space.* `begin_op()` reserves `MAXOPBLOCKS` blocks for each call out of `LOGSIZE`, but
`log_write()` panics at `log.size - 1` blocks, and `mkfs` makes `log.size` equal to `LOGSIZE`: one
block less than `param.h:11` says ("max data blocks in on-disk log"). `LogAssumption` states the
slack that makes this harmless; with 10, 30, 30 it needs calls to write at most 8 blocks,
and the largest (`filewrite()` with `file.c:151`: four data blocks, a bitmap block, an
indirect block, the inode) writes 7. `kill()` can also wake a caller in `begin_op()`; it would
only repeat its test, and is left out.

**`Inodes`** keeps the inode table (`ref`, `valid`, the copies `mem`) apart from the inodes on the disk, the
directories and the bitmap; a step is what one holder of `ip->lock` or of `itable.lock` does. Each system call on
a path is a sequence of such steps, with every early return. Inodes of devices, and `O_TRUNC` of a file that exists
(`FileData` has it, `Truncate`), are not in it. **`FileData`** has the blocks: one round of
the loop of `readi()` or `writei()` is a step; `bmap()` may find the disk full for the data or for the indirect
block, and the memory of the user may end anywhere. What `bread()` finds (`data`) is told from what it finds after the
buffer was recycled (`stored`): `log_write()` pins the buffer until `commit()` (`pinned`), and what was copied
without it (`fs.c:522`) lasts only if the block is written for another reason.
`FileStore` is the promise: a sequence of bytes with a position that its users share (`content`), and the same without the
writes that bad memory tore (`kept`), to which a block may go back (`Forget`).
**`Exec`** counts pages through `exec()` and its `bad:` label; several processes exec at once and share the
free pages.

| run | instance | shows |
|---|---|---|
| `storage` (log) | 3 callers, 2 blocks of 2 values, calls of up to 2 blocks, `LOGSIZE = 3 * MAXOPBLOCKS` | atomicity under crashes (refinement), reservation, no lost wakeup of `begin_op()` |
| `tables` (inodes) | 2 users, 3 inodes, 2 data blocks, names `x`, `y` | `InodesExact`: links, references, table, bitmap; `NoDeadlock` |
| `storage` (files) | 2 callers, 2 files, 3 blocks of 2 units, one direct block | `FileData` implements `FileStore`, the disk full in every place, writes torn and recycled |
| `storage` (exec) | 2 processes, 14 pages | `ExecExact`: every page is accounted for, the old image is whole |
| `fs_reclaim` | 2 users, 2 inodes, one name | violation, section 8 |
| `fs_dotdot` | 2 users, 3 inodes, one name and `..` | violation, section 8 |

**Bounds.** The log of the instance has room for three calls at once when it is empty and for
two otherwise, as in the kernel, so callers do wait for space. Callers and blocks are symmetric.
A crash may come any number of times. Three blocks hold a file with its indirect block and one
of the other file, so that one is missing in every place. With two files there is one call at a time and no commit, so
that a torn write lasts (`NoCommit`); with two calls there is one file, and buffers are committed and recycled at any time. What a
free block holds is no part of the view, as `balloc()` clears it. Fourteen pages are enough for one `exec()` and not
for two at every stage. In `tables` paths
have one name, and `..` is stored and counted but not walked: it may lead into a directory that is gone (`fs_dotdot`),
and what `InodesExact` and `NoDeadlock` say is said of paths that do not. The theorems (section 9) hold for such paths of any length.

## 6. Schedulers, alarm and shell

**`ScanScheduler`** is the loop of FCFS (XV6-1) and of PBS (XV6-2): it locks one entry after another, keeps the best, lets
go of its lock and takes it again at the end. Other code changes the table in between, each
step under `p->lock`. `policy` says which of the two runs. In XV6-2 nothing calls `update_time()`, so
`rtime`, `stime` and `wtime` stay 0, and with them the behaviour index: the key is `p->priority`.

**`Mlfq`** has the first pass (ageing and the lowest queue), the second (the longest waiter) and the time slices of
`usertrap()`, which calls `devintr()` a second time and looks at what `scause` holds by then, on
the one hart that the README of XV6-1 asks for.

**`Alarm`** is one process: the counter, the copy of the trapframe, the page it is kept in, and the second
`devintr()`. The program calls `sigalarm()`, `sigreturn()`, `exec()` and `exit()` in its handler or outside it, and jumps in and out of
it, as it likes: the kernel looks at none of this. `kept` records that so far it has done as `alarmtest.c` does: it left its
handler only by `sigreturn()`, called that nowhere else and armed no alarm there. Only to such a program the kernel
gives its registers back (`AlarmRestores`); what the others meet is in section 8. **`Shell`** has the processes that a command line becomes, with their descriptors, `init` above them, and
`fork()` and `pipe()` that may fail.

| run | instance | shows |
|---|---|---|
| `sched` (scan) | 3 entries, 2 harts, 1 tick, both policies | `OneHart`, `LeastKey` |
| `sched` (queue) | 3 processes, 2 queues, slice 1, ageing after 1 tick | `NoStarvation` of the last entry, which loses every tie |
| `sched` (alarm) | 2 contexts each of program and handler, intervals to 3, 2 pages, any program | `AlarmRestores` |
| `sched` (shell) | 5 entries, 2 pipes, 5 lines, 1 failure | `Wired`; `PromptReturns` |

**Fairness.** The hart goes on (weak fairness of the passes and of the end of a trap), and the timer keeps ticking: strong
fairness of the ticks, for a tick that falls where interrupts are off stays pending (`MlfqFair`).
For the shell, as long as some process can go on, one does (`ShellFair`); nobody has to type.

**Bounds.** Two queues are enough for a process to move down, to age and to move up again; a slice of one tick and
ageing after one tick make both happen together. Two pages (`NPAGES`) are enough for a program that does not keep to
`alarmtest.c` to lose one of them and go on. Two pipes are three processes in a row with the shell and the
sub-shell above them.

## 7. Devices, heap, parser

**`Pipe`** has the descriptors of two processes (`ofile`), the file table with its counts and the pipe
(`pi`), with the `fork()`, `dup()`, `close()`, `exit()` and `kill()` that change them. One page is left for pipes, so
a pipe that was freed is the next one allocated. `Channel` is the promise: a bounded queue that closes.

**`BufferCache`** is `bget()` with its two searches, sleep locks with their queue of sleepers, the driver
with its descriptors, and a device that serves requests in any order. `BlockStore` is the promise: one
value per block, changed only by its owner. **`Console`** has the two rings, the reader, the writers and the interrupt
handler; `LineDiscipline` is the promise: whole lines, one per read, and `^D` as an end of file.

**`Heap`** is `umalloc.c`: the circular list in the order of addresses. **`ShellParser`** is the recursive descent
over tokens, checked against the grammar it stands for on every line of five tokens.

| run | instance | shows |
|---|---|---|
| `devices` (pipes) | 2 processes, pipe of 2 bytes, 2 descriptors, 2 files | `FilesExact`, `NoneOversleeps`, `Channel` |
| `devices` (cache) | 3 blocks, 2 buffers, a ring for one request and one for two, a third caller that finds no buffer | `IoExact`, `BlockStore` |
| `devices` (console) | ring of 2, transmit ring of 1 | `ConsoleServes`: nobody oversleeps, `LineDiscipline` |
| `storage` (heap) | `morecore()` of 4 units, requests of 2, 3 and 5 | `HeapExact` |
| `storage` (parser) | lines of 5 tokens | `ParserExact` |

**Bounds.** Rings of two are full, empty and wrapped round within a few steps; three blocks in two buffers have
to be recycled; requests of 3 in a pipe of 2 have to wait. `NUM` is the short ring's: with the long one `IoExact`
looks at its first four descriptors (the theorem is about every ring). In the model a caller has one buffer at a
time; the buffers that the log keeps besides are in `Log`. The third caller starts nothing but the `bget()` that panics when the
other two have both buffers (`ThirdWaits`); `panicked` ends the run of the cache. Counters that only grow in the code are
counted modulo a multiple of the ring (`Wrap`, `ConsoleWrap`).

## 8. Findings

| run | property | what the code does |
|---|---|---|
| `cow_fork_leak` | `RefExact` | when `mappages()` fails in `uvmcopy()` (`vm.c:338`), the reference counted for that page is never taken back |
| `cow_text` | `ReadOnlyConstant` | `copyout()` (`vm.c:421`) writes a page that `fork()` shares read-only and unmarked, although `vm.c:325` says such a page is not written |
| `proc_kill0` | `KilledInUse` | `kill(0)` matches an unused entry (`proc.c:657`), and the next process to get the entry is born killed |
| `fs_reclaim` | `LastPutFrees` | `iput()` (`fs.c:348-357`) frees an inode and then counts its reference down without a second look: if it was allocated, unlinked and put by another process in between, nobody frees it again |
| `fs_dotdot` | `NeverUntyped` | `sys_unlink()` leaves the `..` of a removed directory in place (`sysfile.c:233-236`) and takes away the link it stood for; with the directory above freed, a path through that `..` makes `ilock()` panic (`fs.c:314`) |

Seen on the way, and without a run of their own. The models take all of these steps unless it says otherwise, and the properties
named leave out what they lead to:

- *Killed writer (`Pipe`, `NoneOversleeps`).* `pipewrite()` of a killed process returns without `wakeup(&pi->nread)`
  (`pipe.c:84-86`), also after it has put bytes into the pipe: a reader stays asleep beside them until another writer, or the last
  close, wakes it. This is a lost wakeup; `unwoken` marks it, and it is the one exception of `NobodyOversleeps`.
- *Torn write (`FileData`, `IsFileStore`).* When `either_copyin()` fails in the middle of a block, `writei()` leaves the loop before
  `log_write()` (`fs.c:522-526`). Readers see the bytes copied so far while the buffer is in the cache, and what was there before
  once it is recycled: a file changes back with no write, unless another write to the block, or a commit of a
  buffer that was pinned already, has made them last.
- *No buffer (`BufferCache`, `IoExact`).* `bget()` panics when all 30 buffers are referred to (`bio.c:88`). `param.h` has `NPROC` 64, and
  `fileread()` and `filestat()` take buffers outside the reservations of the log, which pins up to 30
  for itself: nothing keeps the kernel from it. `IoAlways` says that it takes as many processes as buffers, where no process has two and
  the log none.
- *Alarms (XV6-1; `Alarm`, `AlarmRestores`).* `sigalarm()` in the handler clears `alarm_on` while a frame is saved (`sysproc.c:128`): the next
  tick saves the handler's context over the program's, whose page is lost (`trap.c:91-93`), and the second of the two
  `sigreturn()` has no frame. `alarmtest.c:113` ("tests that kernel does not allow reentrant alarm calls") tests a handler that
  only turns the alarm off. `sigreturn()` without a saved frame copies from address 0 and faults in the kernel (`sysproc.c:137`).
  `kalloc()` of the page is not checked, with the same end (`trap.c:91-92`). A program that calls `exec()` in its handler goes on with the old
  frame saved; one that exits there, or is killed, loses its page for good (`freeproc()`, `proc.c:173`); the child of a `fork()` there has the
  handler's context and no frame.
- *PBS.* `p->rtime = 0` after the scan stores past the end of the process table (`proc.c:506`, `p` is `&proc[NPROC]`). What
  lies there is the linker's choice; `ScanScheduler` leaves the store out.
- *Memory (`CowPrivate`, `SoundSpec`).* When `kalloc()` fails, `copyout()` (`vm.c:398-421`) marks the process killed and stores all the same
  in the page that is still shared, where the other sharers see it (the step `StoresShared`).
- *A choice, and no order of steps.* In `echo >x >y` the first redirection wins (the parser nests it innermost, and `runcmd()` opens
  it last); `getreadcount` counts for each process, where `XV6-1/initial-xv6/tests/2.out` expects one number for all.

## 9. What is proved

Eight modules hold proofs, each beside the components that it extends. Every theorem below is of the form
`Spec => []Inv`, `Spec => [][A]_vars` or `Spec => Abstract!Spec`, and holds for every value of the constants that the
assumption of the component allows; `SoundSpec` takes the place of `Spec` in the last two of
`CowMemoryProof`. The column "run" names the run in which TLC checks the very same definition.

| module | theorem | property | run |
|---|---|---|---|
| `CowMemoryProof` | `TypeCorrect` | `TypeOK` | |
| | `SharingIsReadOnly` | `SharedReadOnly` | `cow` |
| | `FreePagesUnused` | `NoUseAfterFree` | `cow` |
| | `CountsCover` | `RefCount` | `cow` |
| | `SharedContents` | `SharedConstant` (action property) | `cow_private` |
| | `TablesMapped` | `MappedExactly` | `cow` |
| | `CowIsPrivate` | `PrivateSpec` (refinement) | `cow_private` |
| | `CountsExact` | `RefExact` | `cow_private` |
| `ProcTableProof` | `TypeCorrect` | `TypeOK` | |
| | `StacksExclusive` | `OneStack` | `tables` |
| | `SchedHoldsItsLock` | `SchedLocks` | `tables` |
| | `NoOrphans` | `ParentAlive` | `tables` |
| | `ScanStays` | `ScanComplete` | `tables` |
| | `NoLostChild` | `WaitersWoken` | `tables` |
| | `NoOversleeping` | `SleepersWoken` | `tables` |
| `StorageProof` | `TypeCorrect` | `TypeOK` | |
| | `LogNeverFull` | `Reserved` | `storage` |
| | `NobodyForgotten` | `SleepersWoken` | `storage` |
| | `LogIsAtomic` | `AtomicSpec` (refinement) | `storage` |
| | `ExecLosesNothing` | `ExecExact` | `storage` |
| `ProgramProof` | `EveryPageOwned` | `OwnedOnce` | `devices` |
| | `ForkCopies` | `EagerPrivate` (refinement) | `devices` |
| | `TrapsReturn` | `TrapsExact` | `cow` |
| `SchedulerProof` | `AlarmRestored` | `AlarmRestores` | `sched` |
| | `OneHartEach` | `OneHart` | `sched` |
| | `BestIsLeast` | `LeastKey` | `sched` |
| `SpinlockProof` | `LocksNestAlways` | `LocksNest` | `storage` |
| `DevicesProof` | `FilesCounted` | `FilesExact` | `devices` |
| | `NobodyOversleeps` | `NoneOversleeps` | `devices` |
| | `PipeIsChannel` | `IsChannel` (refinement) | `devices` |
| | `IoAlways` | `IoExact` | `devices` |
| | `StoreImplemented` | `StoresBlocks` (refinement) | `devices` |
| `InodesProof` | `TableAlways` | `RefsExact`, `TableExact`: parts of `InodesExact`, for every path | |
| | `InodesAlways` | `InodesExact` | `tables` |
| | `NoDeadlockAlways` | `NoDeadlock` | `tables` |

**Assumptions.** Each component states what its constants must satisfy in named assumptions (seven in `CowMemory`,
`TableAssumption`, `LogAssumption`, `EagerAssumption`, `TrapAssumption`, `AlarmAssumption`, `ScanAssumption`,
`SpinlockAssumption`, `ExecAssumption`, `PipeAssumption`, `BufferConstants`, `InodesAssumption`), which TLC evaluates in
every run of that component. They say that the sets of names are disjoint, that
sets of processes, pages and frames are finite, that bounds are natural numbers and what memory holds at the start; the only ones with
content are the slack of `LogAssumption` (section 5), for the cache, that there are at least three descriptors, and, for inodes, that a name
is none of `/`, `.` and `..` and that `/` stands only at the start of a path. `InodesAlways` and `NoDeadlockAlways` assume
`PathsGoDown` besides: no path has an element `..`. With one `InodesExact` is false (`fs_dotdot`), and the proof of `NoDeadlock`
rests on it. The run `tables` checks that its paths have none. `CountsExact` assumes one thing more, `AllOthersFree`: that memory
starts with every page on the free list or in a slot of the first process. It holds in `cow_private`, and not in
`cow`, whose initial states let pipes hold some pages for good.

**The arguments.**

- *CowMemory.* The step that matters is a critical section of one thread, and there are thirty of them. The proof
  goes in two layers. `ThreadInv` says of each thread what its locals and its pages may be at
  each `pc` (a kernel local owns a page just where the code has one in hand; a child under construction belongs to one parent).
  `FrameInv` says of each page how many slots refer to it, against its count, the free list and the write
  bits. Seen from the pages, a thread can only do a handful of things - allocate a page, share one, give
  one back, change flags, write to one - so the lemma `NextEffect` sorts every step into one of these effects and `FrameInv` is
  proved once per effect. Neither `SharedReadOnly` nor `NoUseAfterFree` is inductive without the count: that a page is
  pushed on the list only when no slot refers to it follows from `RefCount`, and that in turn needs that the
  slots of `limbo` are disjoint from those of the processes.
- *CowMemory, page tables.* `TablesInv` adds to `ThreadInv` what the page table maps at every label, as an interval of
  pages that ends where a loop has got to, which locals own a page, and the same for the child that a thread builds or releases: while it does
  no other thread has that child in hand, so each step disturbs one process and its child (`TablesKeep`). That `freeproc()`
  leaves nothing behind is `FreeNext(c) = {}`: by well-founded induction a set of pages that is not empty has a least one, so
  the loop ends only when no slot is left, and the entry is empty when `fork()` takes it again.
- *CowMemory, contents.* `SoundInv` adds to the three invariants what is *in* the pages, slot by slot (`contents`): the local
  `mem` in `cow_kfree` shows what the page it replaces shows, the pages that `uvmalloc()` has mapped are zero, the child's
  pages show what the parent's do as far as `uvmcopy()` has walked, and `copyout()` is about to write a page that nobody shares. Because
  `SharedReadOnly` makes every store change one slot only (`WriteFills`) and `NoUseAfterFree` makes every `kalloc()` fill one slot
  only (`KallocFills`), each step fills one slot, moves one or changes nothing, and what any other process sees stays. So a step is one operation
  of `PrivateMemory` (`Visible`: a store, the end of `fork()`, of `sbrk()` or of a process) or cannot be seen (`Quiet`). `RefExact` is
  inductive on top of it: `SoundTidy` says that a page only ever goes to a slot that holds none and that the one step which drops
  a counted page is the finding's; then each kind of step changes the count of a page by as much as its references.
- *ProcTable.* The invariant is `Core` (types, what each label allows, who holds which lock, one stack
  per CPU, the child of `fork()`), and then the families, the scans, the waits and the clock, each on top of the former. The wakeup properties
  use one idea throughout: a sleeper whose condition has come true is *owed* a wakeup, by exactly the thread that made
  it true and is still between that and the end of its scan of the table; the lock that `sleep()` and that thread
  both take keeps the sleeper from slipping in between the check and the sleep.
- *Log.* The invariant ties together the phase of `commit()` or of recovery, the header on disk, the log blocks and the pins (`PhaseInv`, `DataInv`),
  and counts the blocks against the reservation (`CountInv`). `Room`, the sum over the calls in progress, is
  a recursive function over sets; its facts are proved once, by well-founded induction over the subsets of a finite
  set. For the refinement, the durable contents are what recovery would rebuild (`Recovered`) and the current ones
  what `bread()` returns (`Current`); a crash, a torn block and every step of recovery leave the former alone, and only the write
  of the header changes it.
- *EagerMemory.* Each page is in one place (`OwnedOK`, `OwnedOnce`), the locals of a thread stay in bounds (`LocalOK`) and
  below `sz` every page is mapped (`MappedOK`). The contents of a program are read through its slots; each step either
  leaves all contents alone (`Quiet`) or is one operation of `PrivateMemory` (`Visible`).
- *Trap.* `TrapInv` says of each hart what its registers hold at each place, of each process that no hart runs
  what it is to go on with, and of each hart that runs a process where its scheduler waits. The heart of it is
  `Interruptible`: with interrupts on, a thread is in `scheduler()`, in a system call or just before `usertrapret()` turns them
  off, with `stvec` at `kernelvec` and its own registers, so an interrupt finds one of three places and its handler holds one of
  them on the stack (`HandlerOK`), even when the process goes on on another hart. `TrapsExact` alone says nothing of the
  stack of a process that waits. A step of one hart touches only what belongs to it and to its thread (`StepKeeps`, `SwitchKeeps`).
- *Alarm.* While the handler of a program that keeps to `alarmtest.c` runs, there is a saved trapframe and no second alarm
  (`HandlerOnce`); so the frame saved is the one that was interrupted. Of any other program the invariant says only that a
  frame that is saved has a page.
- *ScanScheduler.* What a scan has seen of the entries behind it (`ScanOK`): the best so far is no worse than any
  entry recorded in `seen`. That a process is on one hart needs the locks and the second look at `p->state`.
- *Spinlock.* A thread follows a script, and what it may still do depends on which locks its hart has, on `noff`, and on
  what it knows of the interrupt flag. `Good` says by a recursive function over the rest of the script that it
  can be done from here: every `release()` finds its lock held, every `sched()` exactly `p->lock`, every `acquire()` a lock that the hart
  does not have. `HartInv` states it of every hart at every access in the middle of `acquire()` and
  `release()`, `WaitInv` of every process that waits to be switched to, which may go on on another hart with another `intena`, and `ClaimOK`
  says that a lock half taken has one claimant. `LocksNest` alone says nothing of the script that is left.
- *Exec.* The pages that a new page table maps are an interval: up to `sz`, or, while `uvmalloc()` works, as far as it has got
  (`GrownTo`). So what `uvmunmap()` finds is what `sz` says, provided every path sets `sz` in time (`CallOK`, one conjunct
  for each label); `loadseg()` finds its pages because the segment fits below the size just reached (`SegmentMapped`, from the facts on
  `PGROUNDUP`, `Rounds`). Pages in use are counted as the elements of a set (`InUse`), and one process moves at a
  time (`Moves`), so the sum changes by what that process gets or gives back.
- *Pipe.* `FilesExact` is not inductive: it does not say what a process has in hand between two steps. `Fits` does, label by
  label: the one or two files that it has yet to close, the copy of a file whose last reference it dropped, the two
  descriptors that `sys_dup()` has filled before `filedup()` counts them, and, in a read or a write, a descriptor of that
  end. `OneEnd` adds that an end of the pipe has one file, or one process with a copy of it, so the last close is the only one
  to close the end. Of the processes one moves (`OneCounts`), or `fork()` doubles one; the count of a file is a
  cardinality over processes and descriptors and changes by that process's share (`Mine`). With these, a reader asleep has a writer to wake it,
  or the pipe is not empty only while a writer holds `pi->lock`, whose `wakeup()` is still to come (`NobodyOversleeps`), or since a killed
writer left without one (section 8). For
  the refinement, `Bounded` says that a pipe in use holds at most `PIPESIZE` bytes; that one more byte, or one less, moves the
  counters as it moves the queue follows from facts on remainders (`ModAdd`, `ModApart`, `LengthRead`,
  `LengthWritten`), as `Wrap` is a multiple of `PIPESIZE` (2^32 of 512 in the code).
- *BufferCache.* `BufferInv` follows a request from `bget()` to `brelse()`: who refers to a buffer and who has its lock
  (`Referred`, `Locks`), that a buffer still to be read is not valid and one to be written is (`Requests`), which three descriptors a
  process that waits has, apart from everybody else's (`Chains`), and that the heads in the two rings, and `b->disk`, belong to the processes
  that sleep until the device is done (`Rings`). The heart is `OnDisk`: a buffer agrees with its block once the device has served its
  request, and whenever it is valid and nobody has it on the way to the disk; so a buffer that `bget()` recycles has nothing left to
  write, which neither `IoExact` nor `StoresBlocks` says. With it only four steps are seen in `BlockStore`: `acquiresleep()` of a valid buffer
  and the end of a read take a block, `bwrite()` sets it, `releasesleep()` gives it back; `bget()` that recycles, the device and the
  interrupt change no value and no owner (`BlockKept`). `bget()` panics only with every buffer
  referred to (`PanicFull`); each reference is that of one process (`Referred`), so there are as many processes as buffers (`BufferLeft`).
  Nothing is assumed of the number of callers.

- *Inodes.* `ip->ref` is a cardinality again, of the triples (process, place, inode), and a process has six places: `cwd`, its
  open file, the two locals `dp` and `ip` of a call and the two inodes that it has yet to put (`Pointers`). A step moves, adds
  or drops a pointer of one process, and what it does to `ref` is `iget()`, `idup()` or `iput()` (`CountMoves`, `CountDrops`). `LocksOK` gives, label by
  label, what a call has locked, always among what it points to; so with `ref` at 1 the one who puts has no rival for the sleep lock. `RefsExact` and
  `TableExact` do not say what is in an inode that is locked: `CopiesOK` says that it too is what the disk has, but for the one that
  `iput()` has just freed and not let go of. None of this depends on what a path goes through, so it holds in the run `fs_dotdot` too, where
  the number of links and the type do not: in a directory that is removed the entry `..` is stale, while the counts are not.
- *Inodes, links.* `InodesExact` says nothing of what a call has found under a lock and relies on when it has let go of it. `LInv` adds
  this (`Local`): what a process points to is allocated; the name that `sys_unlink()` is to remove is still there, as the directory stays
  locked; the inode that `create()` has from `ialloc()` is known to nobody else (`Sole`), and so is one that `iput()` is about to free; the
  file of a `sys_link()` stays a file. Why these survive the other processes: a step takes pointers only to what has a
  name, to the root or to a free inode (`Gains`), and writes only inodes that it has locked or makes (`Writes`); an inode with no link has no name
  (`NoName`), so nobody else finds the way to it (`SoleStays`, `OthersKeep`). `nlink` is a sum of three cardinalities, names, subdirectories and
  links that a call counts ahead or behind (`Count`); a step changes one entry or one inode, and each summand by one (`EntryStep`,
  `NodeStep`). An inode that is lost may have a link too many, never one too few (`LinksOK`), or `NoName` would fail in a
  directory that is removed while `create()` makes a name in it; and `UnusedOK`, an inode without a link is in the table, is what
  makes the last `iput()` free it.
- *Inodes, deadlock.* `RankOK`: directories have ranks that fall from a directory to what is in it. `create()` gives a new directory
  the lowest and raises all others; a link is made to a file, so no other name makes a directory deeper. A process that waits
  with an inode locked is in `sys_unlink()` or `create()`, and waits for an inode in the directory that it has locked (`WaiterHas`). If
  everybody waited, the one whose directory has the least rank would wait for somebody with a lesser one (`SomebodyGoes`).

## 10. What is only model-checked, and what is not modelled

**Only checked by TLC**, on the instances above:

- `HeapExact`, `Wired`, and the refinements `ConsoleServes`, `IsFileStore`: not proved yet;
- `ParserExact`: the parser and its grammar are recursive operators, which the provers do not handle;
- liveness: `WaitReturns`, `KilledExits`, `NoStarvation`, `PromptReturns`. The temporal prover is propositional, and
  fairness needs `ENABLED`.

What a recursive definition computes for every input is out of reach too, because the
library's induction theorems take an operator as a parameter. The proofs avoid them with functions over finite sets.

**Not modelled.** The test programs (`usertests.c` has 3101 lines in each kernel) and the other
programs of `user/` apart from `init`, `sh` and `umalloc.c`, `mkfs`, the boot sequence, the interrupt
controller, `printf.c` and `string.c`; `getreadcount`, one counter that one system call increments. A file that is
identical in both kernels is mapped in one of them.

**Abstractions to keep in mind.** A spinlock is one holder in all modules but `Spinlock`; memory is sequentially
consistent; frames, blocks and values are model values; names in a directory stand for paths of one component; the
disk serves one request at a time in any order and does not fail; crashes happen in `Log` only, the one component
that promises something about them.

## 11. Plan

Done: the components of section 1 with their runs, and the proofs of section 9. Next would come
`Heap`, with the walks along its list as functions instead of recursive operators, and then the two refinements of
section 10 that are only model-checked.
