# TLA+ models of TO

TO is a hobby operating system for x86-64 PCs: it boots from UEFI, drives the
machine with interrupts (PIT, PS/2, clock, xHCI), runs a kernel task that owns
the screen, starts terminal tasks that execute commands and ELF applications,
and reads and writes FAT32 on IDE and USB disks. There is one processor, no
memory protection between tasks, and exclusion means `cli`.

The modules in this directory model the program's own logic: queues, scheduler,
timers, memory, applications, file system, drives, USB, input, windows and the
boot of the kernel. TLC checks them on small instances and TLAPS proves what
matters most for every value of the constants.

    tlc -config MCFifo.cfg MCFifo          one of the runs listed below
    tlapm FifoProofs.tla                   the proofs

## The system and its parts

| part | source | state | operations | interacts with | modules |
|---|---|---|---|---|---|
| fifo queues | fifo.cpp | ring, rp, wp, len, lock, owner task | read, write | every other part; a write wakes the owner (`tsk->run()`) | Fifo, FifoQueue |
| scheduler | mtask.cpp, asm.asm | run queue `tasks`, `current`, timer `mt`, flags and saved registers of each task | taskswitch, run, sleep, switchcont, RestoreContext | timers (slice), fifo (run queue and wake-ups) | Mtask, Context |
| timers | timer.cpp | `count`, list of timers | timerhandle, set, sleep | PIT interrupt; scheduler | Timers |
| memory | memory.cpp | page bitmap, list `al` of blocks, `alp` | searchmem, searchmemforio, freemem, new, delete | everybody | Memory |
| event loop | kernel.cpp:328-543 | `kernelbuf`, focus `nowb`/`nowt`, `fo`, keys `bk` | one branch per message word 0,1,2,5,6,7,8,9 | all producers of messages; terminals; layers | Mtask, Input, Desktop, Mass |
| terminals | terminal.cpp | command line, window, console | getc, gets, the commands, start of an application | scheduler, file system, layers, paging | Mtask, Dirs, Apps, Desktop |
| keyboard, mouse, clock | ps2.cpp, rtc.cpp | mouse decoder `mp`, `md` | one interrupt handler each | kernelbuf | Input, Boot |
| layers and windows | layer.cpp, window.cpp, console.cpp, textbox.cpp, button.cpp | z-ordered `layers`, slaves, focus | updown, slide, registss, refreshsub, destructors | event loop, kernelbuf (message 7) | Desktop |
| FAT file system | fs.cpp | sector cache `buf`/`fats`/`ff`; the disk | getfat, writefat, allocfat, writecluschain, findfile, createe, createdir, writef, copyfatdir | drives | Fat, FileStore, Dirs |
| xHCI driver | xhci.cpp | command, transfer and event rings, port and slot phases, `addrport` | init, posthandle, the three recievetrb, resetport, controltrans | USB class drivers, kernelbuf (message 1) | Ring, Ports, Mass, Boot |
| USB mass storage | mass.cpp, drive.cpp | `initphase`, `tb`, CBW and CSW, the drive | comp, read, write | xHCI; kernelbuf (message 6) | Mass, SectorDisk |
| USB HID | hid.cpp | `initphase`, offsets and sizes of the fields | comp, decoderd, getd | xHCI; kernelbuf (messages 0, 5) | HidReport, Input |
| application calls, paging | api.cpp, x64.cpp, asm.asm | list of an application's blocks, page tables, struct tc, rsp0 | malloc, free, exit, open, window; makep4, allocpage, breakp4; asmapihandle, jumpasapp | memory, file system, scheduler | Apps, Context, Desktop |
| IDE | ide.cpp, drive.cpp | channel registers, partition base, drive table | sendcmd, read, write, detection, registdrv | file system | Ide, Boot |
| interrupt controllers, start of the kernel | pic.cpp, kernel.cpp:225-327, pci.cpp, sata.cpp | masks, gates, IF, drive letters, `bdl` | pic_init, open_irq, the init functions in their order | everybody | Boot |
| the rest | acpi, svga, graphic, font.h, pcnet, ip, udp, nbt, edk/, apps/ | | | pixel data, network code that is never initialised, the boot loader | not modelled |

What is hard in it:

* **Interrupts and IF.** Interrupt gates clear IF, the event loop and `getc` run
  with IF=0 and open windows (`sti; hlt`, drawing, disk reads, applications).
  Code behind a `sti` in a callee (xhci.cpp:427, controltrans, the CD's read)
  runs with IF=1 whether its caller meant it or not; code behind a `cli` in a
  callee (searchmem, puts, drawing) runs with IF=0.
* **One queue for two meanings.** The run queue holds one entry per wake-up, not
  per task, and its front is the running task.
* **One stream of words.** `kernelbuf` carries the words of messages, of several
  lengths, from interrupt handlers and from tasks.
* **Set while linked.** `taskswitch` sets the timer `mt`, which may be in the
  list.
* **A turn given away inside.** Whoever draws gives up the processor; the stack
  of layers is changed by others in the middle of an operation on it.
* **Disk state across a crash.** Chains are freed and rebuilt sector by sector.
* **Rings with cycle bits**, and phases advanced by completions, by whichever
  task polls.

## Modules

### Fifo, FifoQueue, FifoProofs: class fifo

`Fifo` has one action per memory access that an interrupt can separate (`len--`
and `len++` are a load and a store; the kernel is built without optimisation);
the handler's `write()` is one action, for its gate clears IF. The state is the
fields of the class and the locals of the main-line call. `Masked` says whether
main-line calls hold IF=0. Neither `read` nor `write` tests for an empty or full
ring; the readers test `len` first, and `Room` is the assumption that writers do
not fill it. `FifoQueue` is the abstract queue; `Abs` in `Fifo` is the refinement
mapping, in which a word counts as soon as its index has moved.

* `fifo` (ring of 3 slots, 3 words, masked): `NoLockError`, and the refinement.
* `fifo_unmasked` (interrupts on) finds `NoLockError` violated: the halt behind
  FIFO LOCK ERROR is reached. hid.cpp:286-309 writes kernelbuf with IF=1.

`FifoProofs` proves both `Safety` (TypeOK, IndexInv, NoLockError) and
`Refinement` for every `Size`, every set of words, and `Masked = TRUE`. IndexInv
(indices and len agree inside every call) is not inductive alone: it needs TypeOK
and what each value of pc says of `lock` and `reg` (PcInv), for a store of
`reg - 1` is right only if `reg` still is `len`.

### Mtask, MtaskProofs: scheduler, event loop, terminals

The run queue, the current task, the awake flags, the keys in each terminal's
fifo and the messages in kernelbuf. Code between two points where an interrupt
can come is one action; `pc` says where each task is. The event loop takes a
message per step; a terminal starts, draws, executes commands (`work` refreshes
or IF=1 sections, without content), reads keys, sleeps, exits. `Preempt` is the
expiry of `mt`. Messages are whole here; Input has the words they are made of.

* `mtask` (2 terminals, 3 keys, 1 unit of work): `QueueShape` (the running task
  is the front of the queue, and the event loop is in it exactly once),
  `NoLostWakeup`, `EntriesPerKey`; `NoStarvation`, even though an application
  may run for ever; `QuietAgain` if applications end. Three keys
  are two starts and a key typed, or one start and two keys typed ahead, in every
  order with refreshes, exits, sleeps and preemptions: enough for a terminal to be
  woken while awake, asleep, preempted and closed, and for another to be in the
  queue at the time.

Fairness. A step of the running task is strongly fair, because a slice is at
least one tick of 10 ms: a task that gets the processor again and again executes
instructions. `Preempt` is weakly fair: the PIT keeps ticking, the interrupt
controller keeps the interrupt pending while IF=0, and `SliceEnds` of Timers says
that `mt` is armed. Key interrupts are not fair. An application's end
(`TermClosed`) is not fair either: it is a hypothesis (`AppsEnd`) of
`QuietAgain`.

`MtaskProofs` proves `TypeCorrect`, `QueueCorrect`, `WakeCorrect` and
`QueueBounded` for every set of terminals. The inductive invariant is
`IInv == TypeOK /\ PcInv /\ QueueInv /\ WakeInv`, and `CountInv` on top of it.

* `PcInv`: which values of `pc` the event loop and the terminals can have.
* `QueueInv`: the event loop has one entry (`Once`) and the front is `current`
  (`CurrentIsFront`), which is `QueueShape`; and `RotateInv`, which follows the
  rotation of `sleep()` on another task: as long as `left` iterations remain, the
  event loop's own entry is `left` places behind the front, so it is the front
  again at the end. Without it nothing says that the rotation ends where it began.
* `WakeInv`: `NoLostWakeup` and `AwakeQueued` (the awake flag stands for an entry).

* `CountInv`, for `EntriesPerKey`: two entries of the run queue are kept back for
  every key that is still in kernelbuf, since it is taken later and wakes its
  terminal then. The number of keys in a queue of messages is the cardinality of
  the set of their places, so that what `Append` and `Tail` do to it follows from
  a bijection, without induction over the sequence.

### Context, MtaskProofs: registers across switches and calls

`Context` is asm.asm's `switchcont`, `RestoreContext`, `asmapihandle` and
`jumpasapp` (and `apibody`'s struct tc) as programs on a machine of registers
and stacks. A register holds the value <<task, level, register>>, so that any
mixture shows. Compiled code is assumed to keep what its calling convention says
and may change the rest. There is one application at a time here (Apps has
several, and the stack of `rsp0`); exit leaves IF=0. A task's stack is 1016
bytes (mtask.cpp:67); that it overflows is not modelled.

`RegistersKept` (in run `boot`; 3 tasks, 2 shells, 2 applications): whoever gets
the processor finds its registers, stack depth, page tables and privilege as it
left them, and a call finds the application's registers in struct tc.

`MtaskProofs` proves it for every set of tasks and any number of applications. The
invariant, `ContextInv`, says of the registers of the running task what its level
(new, kernel, app, api) makes of them (`Fine`); of the stacks, which words are on
them (`Frames`): the 18 that jumpasapp left under an application, and the 30 that
int 0x40 and asmapihandle pushed under a call; and of each task that was left,
that its context finds all this again (`Waits`): it is in `ct[t]` where the task
gave the processor away, and in the five words on top of its stack, too, where
the timer took it (`Trapped`). asm.asm's sequences of push and pop are operations
on lists of registers (`PushRegs`, `PopRegs`), so that one lemma says what the
words of a list are and another that popping the list backwards restores it,
without induction over its length.

### Timers, TimersProofs

The list is the pointers of the code, because `set()` on a linked timer clears
its links and then walks the list. `count` is taken modulo `Modulus` (2^32 in the
code), the loops of the handler and of `set()` are taken one iteration at a time.

* `timers` (mt and 2 sleepers, slice 2, count modulo 5): `SliceEnds`,
  `NoFreedTimer`, `LoopsEnd`, and `SleepersWoken`, which holds until a task gives
  up the processor within its slice (`switched`): setting mt then drops what
  stands behind it. `timerd::sleep` has no caller at this commit. Modulo 5 the
  counter wraps with timers pending; three timers put mt first, in the middle and
  last.

Fairness: the PIT ticks (`SF_vars(Tick)`, for voluntary switches could otherwise
crowd it out), loops with interrupts off are executed, and a task that waits for
its flag gets turns to see it.

`TimersProofs` proves `SliceEnds` and `NoFreedTimer` for every number of sleepers
and every range of count. The pointers alone do not say that they form a list;
`IInv` says that there is an injective array `q` of timers such that `front` and
`next` go along it to a null pointer (`Forward`) and `prev` goes back (`Backward`,
where mt may have itself before it: it was set while it was linked). Injective is
what the walk of `set()` threatens: if mt is found behind itself there, it must be
the last one, for its own `next` was cleared (`Seeking`). `Sleepers`: what is
linked besides mt is waited for, so that a freed timer is not. `SetAgo`: mt was
set `slice` ticks ago, counted modulo the range; with `Ahead`, the handler's walk
has not passed a due mt, it gives that the slice ends in time.

### Memory, Apps, KernelProofs: allocation, applications, page tables

`Memory` is the allocator: `searchmem` turns interrupts off and is one action;
`freemem` is taken one loop iteration at a time, since it leaves IF alone.
`held` and `freeing` are history.

`Apps` EXTENDS it with what a terminal does to run an application: the blocks of
the file and of its base, the page tables and their splits of large pages, the
stack for interrupts in `rsp0`; `malloc`, `free`, `open` and `exit`; `breakp4`,
which frees whatever the tables name; and interrupts while the application runs,
whose frame goes to the top of the stack that `rsp0` names. Starting, `malloc`,
`free` and `exit` run with IF=0 and are one action each, with all their searchmem
and freemem calls; the two blocks that a start takes with IF=1 are merged into it.
The application's blocks are one page each.

`open` reads the disk, behind which IF is 1, and is divided there: `findfile`
takes a page for the name (`OpenName`) and returns it (`OpenFind`; the directories
of a path are looked up in the same way and are left out), the file structure is
taken and never returned (`OpenTake`), and behind the reading of the file's chain
`allocpage` gives the application the file's place in the fat's buffer, any range
of large pages, and the structure (`OpenMap`), with a table for each large page
that is not split yet. Others start, call, exit and allocate in between. Each
freemem and allocpage of it is one action here although IF is 1: what becomes of
a freemem that is interrupted is in `memory_open`.

What the code does not handle is named in `slip`, and the model ends there:

* `stray`: `free` passes every address on to freemem (api.cpp:54 tests for an i
  that never is), and one was freed at which a block begins that is not the
  application's from malloc: a page table, its stack, another task's block;
* `stale`: `free` decrements a copy of `alp` (api.cpp:58), so the list keeps an
  entry of the freed block, and exit frees it again, when it may be another
  task's;
* `large`: breakp4 frees an address at which another task's block begins, since
  split tables name every page of a large page (x64.cpp:69);
* `stack`: the frame of an interrupt, or of a call (`CallAstray`), is put on the
  stack of another terminal, because `rsp0` is set at a start and not at a task
  switch (terminal.cpp:258).

`together` is history: two applications ran at the same time.

* `memory` (2 terminals, 8 pages in large pages of 3, blocks of at most 2 pages,
  2 applications, freemem with IF=0): `AppsOwn`, in which every block in use has
  exactly one owner and none is lost, and `FrameOwn`, the saved frame of an
  application that is interrupted, or in open(), stays. At first terminals allocate and free step by
  step, up to 3 blocks; from each state with at most a block per terminal the
  applications are started, and then a command's freemem is one action. Pages
  suffice for what an application takes to lie before, between and behind the
  others' blocks.
* `memory_open` (5 pages, freemem preemptible, no application) finds
  `OnlyHeldInUse` violated: a preemption inside `alp--` loses an entry and its
  block is never released.

Deadlock is not checked: a failed search halts the machine.

`KernelProofs` proves `HeldIsOwned`, `OnlyHeldInUse` and `ListIsHeld` for every number of
pages, tasks and entries, if freemem is called with interrupts off (`Masked`;
memory_open is why). `MemInv`: one task at most is in an allocation or a release
(`Alone`), where it stands in its loop (`Frees`), blocks that are held or being
freed are disjoint (`Apart`), a page is used if and only if one of them, or the
reserved part, has it, less what the loop has released (`Bits`), and the list has
each of them once (`List`). While freemem moves the entries down, one of them is
there twice or is the freed block's: `Entries` leaves out this hole, which moves
from the freed entry to the end.

On this rest `AppsOwn` and `FrameOwn` (`AInv`, as long as `slip` is not stray, stale
or large). searchmem and freemem run as one action here, so the lemmas are about the
block of the first free run and about the list without its n-th entry; taking
several blocks in turn, and freeing a set of them in the order of their addresses,
goes by the number of smaller elements (`Rank`), which makes a sequence of a set
without recursion. `Listing` is the fact behind the exit: whatever a task holds
and has not kept is named in its list, in its page tables or in isp, so that
what exit walks through is all there is. `Naming`: the page of open()'s name is
among what is kept, until open() returns it. `Framing`: unless two applications ran
together, rsp0 is the stack of the one that runs, and only its frame is on it.

### Fat, FileStore, FatProofs: writing files

`Fat` is the writing half of fs.cpp. The disk is two copies of the FAT, the data
clusters and the directory's cluster; in memory are `fats` and `dir`. One action
is one sector write, or the part of a loop between two of them: `FatFirst` and
`FatSecond` are the two writes of `writefat`, which the other actions call
through `ind`, `dt` and the return point `ret`. Since `writefat` writes whole
sectors from memory, `SectorFrom` copies all the entries of a sector. `Crash` can
fall between any two writes; the boot after it reads copy 1 again.

`FileStore` is what the commands rely on: a write replaces one file's blocks and
touches no other file. A crash leaves the old blocks, or a beginning of the new
ones, with at most one stale block behind it, since a cluster is linked before it
is written. Where the crash finds the first FAT entry of the file's chain, or of
the directory's, still 0 on the disk, `lost` is set and nothing is promised: the
old chain is freed on the disk before the new one exists. With the directory's
entry 0 the next walk over the directory never ends, so no write follows.

* `fat` (2 files of at most 3 clusters, 4 data clusters, 4 FAT entries per
  sector, 3 writes, 2 crashes): `ChainsApart`, `NoLeak`, the refinement of
  FileStore, `WritesEnd`. Three writes are what it takes to grow a file across
  another one, shrink it and reuse what it freed; 4 clusters make the disk fill
  up; two sectors of the FAT let a link cross a sector. Deadlock is not checked:
  the bounds, a full disk (`DiskFull`, after which the code goes on with index
  -1) and a lost directory end a run.

A directory entry has the first cluster in two signed shorts, and `getclus` ors
them (`GetClus`, kernel.h:153): a number with bit 15 set comes out as 0xffff....,
which no FAT of this system has. Such a file holds nothing (`Stored`), since
loadfile reads elsewhere, and a write of it goes astray and ends the model
(`Misread`). `Sign` is 2^15 in the code and 6 in the run, where the sixth cluster
is the one that is misread. The buffer `buf` has 2 MB (fs.cpp:11) and getclusaddr
does not compare the cluster with it; disks whose clusters lie beyond it are left
out, so that `buf` is the disk's data. Dirs takes the numbers of clusters as they
are.

Fairness: writef goes on (`WF_vars(Step)`), for its only waits are the polls of
`d->write`, which the drives answer. Assumptions: one writef at a time,
directories of one cluster, a size of 1 standing for 0 to one cluster of bytes.
The disk comes from another system, or from `createfs` (`created`), which writes
sector i of the first FAT from i bytes behind its start, so that entries nobody
allocated are in use from the beginning (`Junk`). Two writers at a time are left
out (fs.cpp:151 is the one hazard listed without a property).

`FatProofs` proves `ChainsApart`, `NoLeak` and the refinement of FileStore for
every number of files, clusters, entries per sector, blocks, writes and crashes.
There is a crash or a half-written FAT behind any step, so the invariant `IInv`
speaks of `View`, the FAT as if the writefat under way had returned, and of
`Place`, where its caller goes on then.

* `Good` gives every cluster an owner, the file it was allocated for last. In the
  FAT in memory and in the View (`Sound`), links stay within an owner (`Links`),
  no cluster has two before it (`Apart`), and a file's first cluster is its own
  and has none before it (`Heads`). ChainsApart follows, for the clusters of one
  owner are closed under links. `Marked`, `DirJob`, `FileJob`, `FreeLoop`,
  `WriteLoop` and `LinkNew` say at each place of writecluschain what the cluster
  taken or linked next is, in particular that it belongs to nobody's chain yet.
* `Whole` and `Rest`, while there was no crash: every cluster in use is on the
  chain of its file, or on the part that the loop under way still holds. That a
  chain gets to all of them is said without walking it: every closed set that has
  its first cluster has them all (`Leads`). `Copies`: the second FAT differs in
  the sector under way only. Together they give NoLeak.
* For the refinement, `Content` says what the files hold while a write is under
  way: the others what they held (`Kept`, for a cluster that is written is on no
  chain of theirs: `Aside`), this one its old blocks until its first cluster is
  free (`Freeing`, then `Gone`), and from then on a chain of the new ones, whose
  last cluster is linked before it is written (`FirstBlock`, `Writing`,
  `Linking`). `CrashContent` reads off what a crash leaves, `StoreStep` maps every
  step of Fat to a step of FileStore or none.

`Reach` and `Stored` are recursive functions. What they compute is got from the
two equations of each by induction over the naturals, for one set at a time
(`LeastNatural`, `Induction`, `Recursion`): the library's induction theorems take
an operator and cannot be used, but the well-foundedness of finite sets under
inclusion, from which LeastNatural follows, can.

### Dirs: directories

`Dirs` has the cells of four directories: the root of the boot drive, a
directory in it, and those of the drive that install makes. A file is the pieces
of its long name, 13 characters each, and its short entry behind them. `findfile`
and its `makename`, `setmustdir`, `createe` and `generatee`, `ls`, and `createfs`
and `copyfatdir` are taken cell by cell. Drive letters in a path are left out;
createfs's copy of the FAT (`(unsigned char*)fat+i`) is in Fat.

`Answers` (run `fat`; 4 names, clusters of 8 cells, boot drives as in MCFat, 3
commands): a directory holds the files put into it, whole; findfile returns the
short entry of the file named, or nothing if there is none; ls prints every
name; install copies every file. A touch of a name that is there makes a second
entry; findfile returns the first. Where the code goes beyond this, `slip` says
how and the model ends:

| slip | what happens |
|---|---|
| nodir | touch or ls of a path whose directory is missing goes on with a null pointer |
| notdir | a file on the way is read as a directory |
| round | findfile does not find the name in a directory of two clusters: it takes the second cluster again and again |
| gone | ord of a deleted piece is 0xe5, taken for five pieces of a name |
| tail | a name of 13 letters, such as administrator, fills its piece, which has no 0 behind it |
| cross | the pieces of a name, or a run of deleted cells, go over the end of a cluster |
| moved | a directory's second cluster is written and read at the first free cluster (fs.cpp:189) |
| twice | a second entry with the directory's name |
| spill | an entry is written past the cluster's end |
| full | install follows the null pointer of an entry there was no room for |
| past | ls or copyfatdir go past the end of the cluster, which has no end entry |

### Mass, SectorDisk, MassProofs: USB disks

A command is a CBW, the data and a CSW; `read` and `write` push the CBW and poll
posthandle() until the phase is 8, and `comp` pushes the next transfer for each
completion. `Mass` has every live phase of comp (995 to 999 are never entered),
the resets behind a CSW that is none, usbdrv's read-modify-write of a block, and
the event ring as it is: `eri` is global, `erdp` a local of posthandle(), and
comp runs with IF=1. `cpu` is the task that has the processor with IF=0. The
device and the controller are external; the device may answer with a bad CSW, a
failed status or a stall.

The model ends when `lost`: a call begins inside another one, a second task goes
into posthandle() while one is there, or phase 4 pushes a transfer nobody asked
for. Nothing in the code excludes these; behind them the driver's state is two
commands at once.

usbdrv computes the number of a sector's first byte in 32 bits (mass.cpp:293, 310):
from sector 2^23 (`Wrap`) on it counts from the beginning again (`Reached`), and a
write there overwrites a block below. `far` says that a call was for such a sector.

`SectorDisk` is what the file system relies on: one call at a time, a write
changes its sector and no other, a read returns what was last written.

* `mass` (2 tasks, a block of 3 sectors, the third of which is out of the reach of
  32 bits, 2 calls, 1 odd answer, an event ring of 3): `EventsOnce` (each event taken once and in order on every lap, whichever
  task calls), the refinement of SectorDisk up to a failed command (whose status
  is printed and not returned), `far` and `lost`, and `CallsEnd` unless a transfer
  stalls. The block gives a write its neighbours; a ring of 3 goes
  round several times in one command. Deadlock is not checked: calls are bounded.

Fairness: every task gets the processor (`SF` of TaskStep, by NoStarvation of
Mtask; strong, for a task that polls with IF=0 takes it away from the others
again and again), the event loop takes its messages, the device works. A task
that polls with IF=0 while another one is preempted in comp() waits for ever;
that state is one of `lost`.

`MassProofs` proves `EventsOnce` and the refinement for every number of blocks,
sectors per block, tasks and calls and every size of the event ring of at least 2
(one that holds a single entry cannot tell full from empty).

* For EventsOnce, `OnePlace`: at most one task is in posthandle(), its `erdp` is
  the controller's register and `eri` too; and `Cycles`: the driver's cycle bit is
  the controller's except while the controller is a lap ahead, and an entry has it
  if and only if it is pending.
* For the refinement, up to `far`, a failed command and `lost`, `Transfer`: one
  transfer is asked for, or has ended and is
  not seen to yet, or there is none, and for each phase which one it is, where the
  device stands before and behind it, and from which phase on the call has done
  what it is for (`Done`); `Calls`: one call at a time, whose command it is; and
  `Merged`: the buffer of a write is the block as it is on the disk but for the
  sector that is written. A bad wrapper takes the phases back to the command, when
  Done still holds and the second execution changes nothing.

### Ide, KernelProofs: the IDE channel

`Ide` is `sendcmd`, `idedrv::read`, `idedrv::write` and `idecdrv::read` on the
registers of a channel with a disk and a CD, one action per access to a register
or a word. A call with IF=1 can lose the processor between any two of them, to
one with IF=1 or IF=0; the CD's calls always have IF=1. The drives are external:
a command ends the one before it. The partition's base is folded into the sector.

`CallsRight` (run `boot`; a disk of 4 sectors with a boundary of the high bits in
the middle, a CD of 2 blocks of 2 sectors and byte addresses that wrap, 2 words
per sector, 2 calls of at most 2 sectors, 1 error): a call with IF=0 reads what
was written and writes its sectors only, and so does one with IF=1 that nobody
comes in between. `bad` and `spoiled` name the rest: crossed calls, errors of the
drive, and calls over a boundary of 2^24 sectors (ide.cpp:95), or of 2^32 bytes
on a CD (ide.cpp:143). Its second part says that this excuse is not had for
nothing: a call with IF=0 is never crossed, whatever it interrupts; if it is bad,
it is out of range or the drive failed. A crossed CD call may poll for ever.

`KernelProofs` proves it for any number of tasks, calls, sectors, blocks, words and
errors. `IdeInv`: at most one call is uncrossed (`OneCall`), and it is `Straight`,
that is, what the registers and the drive hold is its doing. The parts follow the
call: which sector of the loop it is at (`Looped`), which drive, high and low
bits are in the registers at each step (`Selected`), which words the drive has
still to give or to get (`Coming`, `Going`), and what is in its buffer so far
(`ReadSoFar`, `Wanted`). `DiskInv`: the disk is what was written but for the sectors
that writes have still to do (`Left`). `Undisturbed` is the second part.

### Ring, XhciProofs: command and transfer rings

`Ring` is class CR against the controller, which is external. A transfer is
`Start(n)`, n calls of push (one action each, and one more for the link TRB), and
the doorbell. The controller fetches whenever it runs, also before the doorbell,
stops at a TRB that is not its own and runs again when rung.

* `xhci` (5 entries and the link, transfers of 1 to 3 TRBs, 2 requests):
  `Ownership` (the cycle bits tell exactly the pending entries from the others),
  the refinement of FifoQueue, `AllFetched` (what is pushed is fetched: the ring
  is empty again and again, or the controller goes on fetching). Nothing
  counts laps, so the run is for any number of them.

Fairness: push and doorbell are straight-line code, the controller works.
Assumptions: `Room` (fewer TRBs under way than the ring has entries; the code
does not test it) and one pusher at a time.

`XhciProofs` proves `RingSafety` (TypeOK, Ownership) and `RingRefinement` for every ring
size, burst and set of requests. Ownership is not inductive, for it speaks of the
controller's place; the inductive invariant is simpler and speaks of the driver
alone: `Laps`, entries before `wp` carry `c` and the others, the link included,
its complement, together with `Calls`, what each value of `pc` says of `left` and
`wp` and that a transfer under way fits. The step that a wrong link TRB breaks is
`PushLink`, where `c` and `wp` change at once. `AllFetched` is TLC's.

### Ports, XhciProofs: enumeration of USB devices

Ports, slots, commands and events, with one action per event handler: the head of
`evq` is the event, `Done` takes it, `Send` pushes a command, `Transfer` starts a
transfer. Only one device at a time may answer to address 0, so `addrport` is a
lock that one handler takes (`Reset`) and another, many events later, gives back
(`SlotAddressed`); the ports that wait are looked at only behind a transfer event
of a device that has been started (`DriverComp`). The controller and the devices
are external. Three of their rules matter: a port sends an event only when its
first change bit is set; commands are executed in order but their completions
interleave with transfer events; a doorbell of a slot that is not addressed has
no effect, and neither has a write of the port power and port enabled bits (as on
QEMU, where the driver is known to work, mass.cpp:34). The decoding of
descriptors is abstracted to its outcome.

* `xhci` (2 ports, 2 slots, 1 device plugged in and 2 unplugged after the boot,
  transfers that fail, devices without class driver): `OneDefault`,
  `KeepsPresent` (taking a device down touches no other's slot and context, and
  never the scratchpad), `NoDangling`; `TurnEnds` and `AllStarted`. A device can
  be unplugged and replaced between any two steps of its enumeration and of the
  other's. `OneDefault` and `KeepsPresent` carry the condition `Orderly`, `~early`
  and `~short`. When a port is found empty that owns no slot (`early`), the code
  takes down slot 0 or a slot the port had before; when the controller has no slot
  left (`short`), the device that was reset goes on answering to address 0. Without
  `~early` TLC finds KeepsPresent violated with these bounds (2 unplugged is what
  it takes). `NoDangling` has no condition. `AllStarted` says nothing once a device
  was unplugged, mute or failing.

Fairness: interrupts lead to posthandle, which takes all events; commands are
executed and transfers end. Deadlock is not checked: without devices nothing
happens.

`XhciProofs` proves `OneDefault`, `KeepsPresent` and `NoDangling` for every number
of ports, slots and devices. What a handler may rely on is what the commands and
events under way say, and so the inductive invariant speaks of them: `TurnInv`,
at most one of them carries the port being addressed, or none while it is being
reset; `SlotInv`, while Orderly, what a command for a slot says of the slot, its
context and its device, one command or event that takes a slot down at a time,
and the order in which an Enable Slot of the same number comes behind it;
`EventInv`, the completion of Disable Slot is behind every transfer event of the
slot.

### Input, HidReport, InputProofs: from the devices to the event loop

`kernelbuf` carries words; in `Input` a word says which message it was written
for and which of its words it is. Interrupt handlers write a message as a whole;
hid::comp, mass::comp and the q==5 branch write word by word with IF=1, and comp
may run in another task, one that polls for its disk. A machine has a PS/2 mouse
or a USB device, one of MCInput's descriptors; those outside `Live` are only set
up. `cut` says that a message was written, or taken, within another one, which
the code allows; the model ends there.

`HidReport` is the pure part: `decoderd` as a fold over the items of a report
descriptor, `getd` on the bits of a report, and the HID class's rule for where
fields are, with which they are compared.

* `input` (4 keys and reports, 1 other event, 9 mouse bytes, 1 lost; 224
  descriptors of mice, tablets, keyboards and a combination): `NeverAstray` (the
  event loop takes no word for what it is not and reads none that is not there),
  `KeysFollow` (once a report has gone all the way, the focus holds down what is
  down), `Aligned` (the mouse decoder stands where the packet stands unless a
  byte was lost; `slip`), `ReportRead` (fields are where the class says, and all
  their bits are read but one, hid.cpp:20). Nine bytes are the three replies
  and two packets. Deadlock is not checked: inputs are bounded.

`InputProofs` proves the first three for every set of descriptors, keys and inputs
(of a descriptor it assumes that the sizes of its key array are numbers).
`MouseInv` is arithmetic modulo 3: the phase of the decoder against the place in
the packet. `Frames` reads kernelbuf as whole messages: every word has its
successor behind it (`Framed`), but at the two ends, where what the event loop has
still to take, or what the one task that is within a message has still to write
(`todo`), makes it whole. So no word can be taken for what it is not. `KeysInv`
is a chain of copies of the set of keys: the keyboard's report, the differences
that comp() writes, those in kernelbuf, `bk` of the event loop, the words it
writes for the focus, and what the focus takes to be down. `Tells` and `Hears` say
that each link, with the words under way applied to it in their order (`Told`,
`Heard`), is the one before it; `Writers`, `Unset` and `First` say who may write, and
what is so before the first report. What a sequence of words does to a key is
that of the last word about it (`After`), for which no induction is needed.

Left out: the boot protocol (`isr` is always set), limits and scaling of axes.

### Desktop: layers, windows, focus

The stack is a sequence, `layers`, from which heights follow; `slaves` and
masters are the code's. Windows are a form (login), terminals and applications'
windows, each of them a cs, an edge, a title bar and perhaps a console. The event
loop raises, drags and closes; terminals build their windows and take them apart.
All of it runs with IF=0, but a task other than the event loop gives its turn
away wherever it draws (layer.cpp:112), so `calls[t]`, the stack of updown()
calls, keeps what t is in the middle of. Positions are abstracted: a press hits
any layer that checkcrick() looks at. The shutdown button is left out.

`slip` is "crossed" once a window was made or raised while a console is above the
cursor and not yet registered (console.cpp:11), and "torn" once a freed or half
built window was reached through a pointer; "torn" ends the model. Behind a login
`nowt` still names the text box that was deleted, until the next press or Enter;
of letters typed meanwhile nothing is claimed. That key 0x4f reads nowb->owner
behind the delete that clears nowb (kernel.cpp:416-418) is in Mtask
(`KernelEndKey`), not here: it reads page 0 and frees nothing.

* `desktop` (the form, 2 terminals, 1 application's window, 2 windows made
  beside the form): `Stacked` (the cursor in front, nothing between the parts of
  a window), `Raised` (what is pressed is in front with all its parts), `Alive`
  (no freed layer is drawn and no freed window active). Two windows are what it
  takes for one to be raised while the other is built or closed. The terminals
  are interchangeable. Deadlock is not checked: windows are bounded and a torn
  desktop ends.

### Boot, KernelProofs: from nKernelmain to the event loop

The steps of kernel.cpp:225-327 with what they do to IF, to the gates and the
masks (in memory and in the controllers), to the drive table and to `bdl`. Each
step is what runs between two places where an interrupt could come. IF is
nobody's plan: whatever allocates or prints ends with cli, the detection of an
IDE disk and a CD's read end with sti, so that the drivers behind are set up with
IF=0 or IF=1, depending on the hardware, which `Init` chooses and which is
external: what answers at the IDE addresses, the PCI functions, MSI, ports, a USB
drive, the boot path. Polls of hardware are always answered; the "cd" of a drive
is always 0, for files->rc is never set; SATA and other boot drives never become
`bdl`; "Where am I" tests drvs['A'], not drvs[bdl].

`Interrupts` (run `boot`, every machine): an interrupt that can come finds its
gate and what its handler follows, and at the event loop those of all devices do
come. `DriveKnown`: bdl names the firmware's boot drive as soon as it names one,
and a task that goes through it finds the drive, where it is an IDE one. `low`
names the null pointers that are followed otherwise, into page 0: with a USB boot
drive, the first task's directory is read there (mtask.cpp:71).

`KernelProofs` proves both for every set of machines (`HardwareAssumption` gives the
types of three of their features). The invariant says what is known at each place
of the start: which lines are masked (`MasksMatch`, both in the controllers and in the
variables they are written from), which gates are set (`Gated`), what exists
(`Made`), and where no interrupt can come, whatever IF is (`Quiet`): while the
scheduler and its first task are made, IF=0, for the allocator before them ends
with cli. `Found` is DriveKnown with what the detection has not asked yet.

## The runs

TLC checks several unrelated components in one run where they are small: the run
is an either-or sum, in which a part moves only while the others are in their
initial state. A behaviour is then one of one part, and each part's states are
those it has alone. So `fat` is Fat or Dirs, `xhci` is Ring or Ports, `boot` is
Boot or Ide or Context. `memory` is one system: Memory's steps, then applications
on top of what they left. Fairness is that of the parts, on the part's actions.

| run | modules | checks | shows |
|---|---|---|---|
| fifo | Fifo, FifoQueue | NoLockError, ImplementsQueue | Where main-line code masks interrupts, the ring implements a first-in first-out queue and never meets its own lock. |
| fifo_unmasked (violation) | Fifo | NoLockError | A handler that interrupts a main-line write with interrupts on finds the lock taken and halts the machine. |
| mtask | Mtask | QueueShape, NoLostWakeup, EntriesPerKey, NoStarvation, QuietAgain | Two terminals, three keys: the run queue keeps its structure and loses no wake-up, whatever the order of keys, preemptions, sleeps and exits; every queued task gets turns even while an application runs for ever, and if applications end, the machine goes back to its hlt. |
| timers | Timers | SliceEnds, NoFreedTimer, LoopsEnd, SleepersWoken | The timer list stays a list although mt is set while linked; the slice always ends, also where count wraps; and a sleep ends unless a task gives up the processor within its slice. |
| memory | Memory, Apps | AppsOwn, FrameOwn | Two terminals that allocate and free step by step, with interrupts off, and start applications that allocate, free any address, open files, are interrupted, also within open(), and exit: blocks are disjoint, what was taken is returned and nothing of another task is, but where slip names the cause; and as long as one application runs at a time its saved frame stays. |
| memory_open (violation) | Memory | OnlyHeldInUse | freemem with interrupts on can lose an entry of the list to a preemption inside alp--, and a later free then releases nothing. |
| fat | Fat, FileStore, Dirs | ChainsApart, NoLeak, Answers, ImplementsStore, WritesEnd | Three writes of two files, crashes between any two sector writes: files stay apart, nothing leaks without a crash, and a crash tears at most the file being written. Or three commands that look up, create, list or copy the entries of directories, on drives of this system and of others: every name leads to its file, but in the cases slip names. |
| mass | Mass, SectorDisk | EventsOnce, ImplementsDisk, CallsEnd | Two tasks, two calls on a drive whose block has three sectors, of which 32 bits number the bytes of two, bad CSWs, failures and stalls: posthandle() takes each event once on every lap of the event ring, the drive is a disk of sectors, and every call ends unless a transfer stalls. |
| input | Input, HidReport | NeverAstray, KeysFollow, Aligned, ReportRead | A PS/2 mouse that loses bytes, or one of the USB mice, tablets and keyboards of MCInput, beside keys, ticks, refreshes and drives: the event loop reads what was written, keys neither stick nor vanish, the mouse decoder stays with the packets, and the fields of a report are where the class says. |
| desktop | Desktop | Stacked, Raised, Alive | The login form, then two windows, of two terminals or of one and its application, built and closed by their tasks while the event loop raises, drags and closes windows: the stack stays whole, what is pressed comes to the front, nothing freed is drawn or active, but for the interleavings that slip names. |
| xhci | Ring, FifoQueue, Ports | Ownership, OneDefault, KeepsPresent, NoDangling, ImplementsQueue, AllFetched, TurnEnds, AllStarted | Any number of laps of a transfer ring: cycle bits and the link TRB hand every request to the controller once and in order. Or two ports with devices that come and go and may fail: one device at a time answers to address 0, taking one down touches no other as long as every port found empty had a slot, addrport is given back, and where all goes well every device is started. |
| boot | Boot, Ide, Context | Interrupts, DriveKnown, CallsRight, RegistersKept | Every machine that comes up: an interrupt that can come finds its gate and what its handler follows, those of all devices come in the end, and the boot drive is known when it is used. Or two tasks that call the IDE disk and CD: calls with interrupts off are right, and so are the others unless they are crossed. Or three tasks and their applications: each finds its registers as it left them. |

The conditions in the properties (`slip`, `lost`, `far`, `cut`, `early`, `short`,
`together`, `failed`, `bad`) are the places where the code has no answer to what can happen.
They are history variables or ends of the model that name an interleaving or an
input at a source line; what the property says is that the rest is right. The
hazards of PROJECT.json name each of them.

## What is proved, what is only model-checked

Proved by TLAPS, for every value of the constants:

| module | theorem | states | inductive invariant |
|---|---|---|---|
| FifoProofs | Safety | NoLockError, with interrupts masked | PcInv, IndexInv |
| | Refinement | Fifo implements FifoQueue | the same |
| MtaskProofs | TypeCorrect, QueueCorrect, WakeCorrect | types, QueueShape, NoLostWakeup | IInv: RotateInv, AwakeQueued |
| | QueueBounded | EntriesPerKey | CountInv |
| | RegistersAlwaysKept | RegistersKept | Fine, Frames, Waits |
| TimersProofs | SliceAlwaysEnds, NoneFreed | SliceEnds, NoFreedTimer | the list as an injective array |
| KernelProofs | MemoryOwned | HeldIsOwned, OnlyHeldInUse, ListIsHeld, freemem masked | MemInv: Bits, List with a hole |
| | AppsOwned, FrameOwned | AppsOwn, FrameOwn | AInv: MemInv, Naming, Listing, Framing |
| | InterruptsFind, BootDrive | Interrupts, DriveKnown | BInv |
| | IdeCallsRight | CallsRight | IdeInv: OneCall, Straight, DiskInv |
| FatProofs | Inductive, Apartness, NothingLeaks | ChainsApart, NoLeak | owners of clusters |
| | StoreImplemented | Fat implements FileStore | Content |
| MassProofs | EventsTakenOnce | EventsOnce | OnePlace, Cycles |
| | DiskImplemented | Mass implements SectorDisk | Transfer, Calls, Merged |
| XhciProofs | RingSafety, RingRefinement | Ownership; Ring implements FifoQueue | Laps, Calls |
| | DefaultOnce, PresentKept, NeverDangling | OneDefault, KeepsPresent, NoDangling | TurnInv, SlotInv, EventInv |
| InputProofs | MouseAligned | Aligned | MouseInv |
| | NeverGoesAstray | NeverAstray | Frames |
| | KeysAlwaysFollow | KeysFollow | KeysInv |

They assume of the constants what the modules' ASSUMEs say, which TLC evaluates in
the runs: names are distinct, sizes are numbers, a slice and a delay fit the range
of the counter together, the event ring has at least two entries and a transfer fits its ring,
a FAT has at least one data cluster, the key array of a descriptor a number of
slots. MemoryOwned has one more hypothesis, `Masked`. The bounds of the models (calls, crashes, keys)
are constants too, so that the theorems hold for any number of these. What a
module assumes of its environment in its actions (Room in Fifo and Ring, one pusher
at a time in Ring, one writer in Fat, one application at a time in Context) the
theorems assume as well, and the ends of a model (`lost`, `far`, `slip`, `cut`, `bad`, `spoiled`) are in the
theorems where they are in the properties.

Model-checked only, within the bounds above:

* Liveness: NoStarvation, QuietAgain, LoopsEnd, SleepersWoken, WritesEnd, CallsEnd,
  AllFetched, TurnEnds, AllStarted. Fairness is out of the prover's reach.
* ReportRead (HidReport): what `decoderd` makes of a descriptor is a fold over its
  items, and so is the rule it is compared with; that they agree on every sequence
  of items is an induction over the sequence. The run has those MCInput lists.
* Answers (Dirs): its conditions are about whole directories (the cells of all
  files, in some order, with gaps), which createe, findfile, ls and install walk
  cell by cell; an invariant of the walks is possible, but long.
* Stacked, Raised, Alive (Desktop): no induction is in the way. A step is a
  sequence of updown() calls that may give the turn away at each, and the
  invariant would have to say of every stack of interrupted calls what the others
  may have done to the layers above it. TLC has it for the bounds of the run,
  which are those at which the interleavings that `slip` names appear.

## Not modelled

* The network (pcnet, ip, udp, nbt): its initialisation is commented out
  (kernel.cpp:245).
* Pixels, fonts and svga: data; svga is never initialised (kernel.cpp:240).
* The boot loader (edk/): runs once, before the kernel, against the firmware.
* ACPI tables: used by shutdown only, which ends the machine.
* Resetting an endpoint in xhci.cpp: nothing calls it.
* Two terminals that write files at the same time (fs.cpp:151).
* The first clusters createfs writes, the settings of a user, what commands
  print, contents of descriptors and contexts other than HID reports.

## What is open

* The three properties of Desktop for every number of windows: the invariant needed
  is sketched above, a relation between `layers` and each `calls[t]`.
* A second writer in Fat: `allocfat` tests an entry and marks it later (fs.cpp:151),
  which PROJECT.json lists as a hazard without a property.
* Several applications in Context at once: Apps shows what goes wrong with the
  stack that rsp0 names; their registers are modelled for one at a time.
