# Formal models of akcode

`akcode` is one author's collection of C programs: a firmware updater, families
of Linux drivers, System V synchronisation exercises, a file server and an FTP
client, a library of algorithms, and many exercises.  There is no single
program; each directory is a system of its own.  This project models the ones
whose state outlives a call and is shared by concurrent actors, because that is
where the code is hard to test, and the algorithms as functions against
reference definitions.  It proves the results that matter most for every size of
the system.

Paths below are relative to `src/`; many sources are encoded in GBK.

## 1. Inventory

| part | where | state | operations | why it is hard | modelled by |
|---|---|---|---|---|---|
| firmware updater, session | `c/update_tool` | client: `store_file_info`, shared by two threads, `file_packet` and `update_file` on disk; server: the locals of one thread | request, resume, stop-and-wait transfer, unpack, timeout | kills and restarts, unsynchronised threads, resumption, files replaced on the server | UpdateSession |
| firmware updater, server | `c/update_tool/server` | accept loop, one handler and one heartbeat thread per client, descriptors, `send_lock` | accept, spawn, send, stop, close | threads that outlive the frames and descriptors they use | UpdateServer |
| FTP client | `c/ftp/ftpLib.c` | control and data sockets, the reply looked at last, retries | one call of ftpXfer | transient answers, a server that goes away, which reply answers what | FtpClient |
| scull pipe | `c/ak_driver/char_device/scull/dev/pipe.c` | circular buffer, `rp`, `wp`, two wait queues, semaphore | open, release, read, write, size ioctl, poll | blocking readers and writers, open while others sleep | ScullPipe |
| scull access control | `.../scull/dev/access.c` | open counts, owners, list of clones | four kinds of open and release | a lock-free counter, blocking open, wake-ups outside the lock | ScullAccess, ScullUser |
| scull | `.../scull/dev/main.c` | quantum sets | read, write, llseek, ioctl, trim | geometry read before the semaphore is taken | ScullDev |
| scullp, scullv, sculld, scullc | `c/ldd3_codes/scull[pvdc]` | quanta made of pages, mappings and their counter | the same, mmap, nopage | the counter of mappings has no lock; pages are shared with mappings | PagedScull |
| chardevice | `c/ak_driver/char_device/chardevice/drv` | circular buffer with `cur_size` | read, write, poll, ioctl, proc | transfers in two copies, one of which fails | ChrDev |
| globalfifo | `c/ak_driver/char_device/globalfifo` | linear FIFO, two wait queues | read, write, poll, ioctl | sleeping without looking again, leaving the wrong queue | FifoDrivers |
| scull_kfifo | `c/ak_driver/char_device/ring_buffer/scull_kfifo` | kfifo, one bounce buffer | read, write, ioctl | reset without the semaphore | FifoDrivers |
| ctest | `c/ak_driver/myctest/dev` | circular buffer with a count, two wait queues | read, write, poll, ioctl | transfers in two copies, sleepers of two kinds | FifoDrivers |
| loading of all drivers | init and exit functions of `c/ak_driver`, `c/ldd3_codes` | what the kernel keeps for a driver | load, unload, every registration that fails, a process that comes in | error paths that no test takes, a device reachable before it is ready | DriverLoad |
| snull | `c/ldd3_codes/snull` | buffer pools, receive queues, status bits | transmit, interrupts, NAPI poll, watchdog | two devices that interrupt each other, unlocked fields | LddDrivers |
| short, shortprint | `c/ldd3_codes/short*` | text ring, ring of times, printer ring, timer | interrupt, bottom half, read, write, close | heads and tails without a lock, a timer racing an interrupt | ShortIrq |
| sbull | `c/ldd3_codes/sbull` | sectors, users, medium change, timer | open, release, transfer, timer | a timer that is stopped outside the lock | LddDrivers |
| tiny_tty, tiny_serial | `c/ldd3_codes/tty` | open count, timer, driver_data of the tty; transmit buffer | open, close, write, timer, unload | opens that sleep before they are counted, a timer that uses a tty | TinyTty |
| usb-skeleton | `c/ldd3_codes/usb` | a counted structure for each device, one read buffer | probe, disconnect, open, release, read, write | an open against a disconnect, reads that share a buffer | UsbSkeleton |
| producer and consumer | `c/producer_consumer` | SysV shared memory and semaphores | set up, produce, consume | set-up race, deaths without SEM_UNDO | ProducerConsumer |
| dining philosophers | `c/dining_philosophers` | SysV semaphores with SEM_UNDO | take and put forks | deadlock, starvation, undo on death | DiningPhilosophers |
| mread server | `c/ctest/test_other1/servers` | ring of blocks, map of descriptors, slots, epoll queue, sender threads | poll, pull, close, yield, send | requests in pieces, a full ring, slots reused under a thread | MreadPull, MreadSockets |
| algorithm library | `c/acm-lib`, `c/base64`, `c/fsm` | none that outlives a call, or one container | arithmetic, containers, sorting, graphs, strings | index arithmetic and links | BigInteger, SearchTree, Containers, Sorting, GraphAlgorithms, Computations |
| heartbeat clocks, package format, other drivers, API exercises, puzzles, vendored code, scripts | | | | | not modelled, see section 8 |

How the parts interact.  The updater's client and server talk over TCP, with
packets of fixed layout and no positions or sequence numbers in them.  Within
the client two threads share one global structure without a lock; within the
server the threads share an argument, stack frames and the descriptor table.
The drivers are used through file operations by any number of processes at a
time; scull's four access-controlled devices share scull's read and write, and
its semaphore, with the plain device.  In the mread server one loop reads for all
clients through one ring, and a thread for each request shares the client's slot
with it.  Different directories do not interact.

What makes each correct:

* session: data is written where it was read from; what is saved for a restart
  is true of what is on disk; only a whole version is installed; an update that
  is tried again often enough is installed;
* update server: packets on a socket are not interleaved, and each session talks
  to the client it belongs to;
* FTP client: a reply is taken for the command it answers; OK means a transfer;
  no socket is left open;
* devices that queue bytes: bytes come out in the order they went in, each once;
  nobody sleeps while there is something for it to do; counters tell the truth;
* devices that store bytes: a read returns what was written, no call leaves what
  was allocated, and what is mapped is not freed;
* access control: only those allowed have the device open, the counters add up,
  nobody waits for a device that is free;
* drivers with interrupts: no buffer, line or byte is lost or used twice, and
  something always comes that takes what is under way further;
* processes with semaphores: mutual exclusion, and what was granted kept, also when
  somebody dies; progress while nobody does;
* mread server: a request reaches the program as it was sent, and a file goes to
  the client that asked for it;
* algorithms: the answer is the reference definition's.

## 2. Modules

| module | is | code |
|---|---|---|
| `UpdateSession` | one client, the server's thread for it, the streams, the disk | `client_tool.c`, `server_tool.c`, `global.h` |
| `ResumableTransfer` | abstract: a transfer that can be interrupted | |
| `UpdateServer` | accept loop, handlers, heartbeat threads, descriptors | `server_tool.c` |
| `FtpClient` | one call of ftpXfer and any server of RFC 959 | `ftpLib.c` |
| `ScullPipe`, `ChrDev` | one device and the processes that use it | `pipe.c`, `chardevice/drv/main.c` |
| `ByteFifo` | abstract: a device that queues bytes | |
| `ScullUser`, `ScullAccess` | sculluid and scullwuid; scullsingle, and the two side by side, used by the same processes | `access.c` |
| `ScullDev` | one scull device | `scull/dev/main.c` |
| `FlatFile` | abstract: a file of bytes | |
| `PagedScull` | one device of the scullp family | `ldd3_codes/scull[pvdc]/main.c`, `mmap.c` |
| `FifoDrivers` | globalfifo, scull_kfifo and ctest, one after the other | `globalfifo.c`, `scull_kfifo.c`, `ctest.c` |
| `DriverLoad` | the init and exit functions of 40 drivers as tables of steps, and the loader that takes them | each driver's `main.c` or its like |
| `LddDrivers`, `ShortIrq` | two drivers each: snull and sbull, short and shortprint | `snull.c`, `sbull.c`, `short.c`, `shortprint.c` |
| `TinyTty`, `UsbSkeleton` | the ports of the two tty drivers; a usb driver and its devices | `tiny_tty.c`, `tiny_serial.c`, `usb-skeleton.c` |
| `ProducerConsumer`, `DiningPhilosophers` | the processes, the semaphores, their deaths | `producer.c`, `consumer.c`, `dining_philosophers_solve1.c` |
| `MreadPull` | the ring as operators, and how requests are read through it | `ringbuffer.c`, `server.c`, `main.c` |
| `MreadSockets` | the map of descriptors as operators; slots, descriptors, senders | `map.c`, `server.c`, `rw.c`, `main.c` |
| `BigInteger`, `SearchTree`, `Containers`, `Sorting`, `GraphAlgorithms`, `Computations` | the algorithms | `acm-lib`, `base64`, `fsm` |
| `UpdateSessionProofs`, `ScullPipeProofs`, `ChrDevProofs`, `MreadProofs` | theorems about one module each (the last about `MreadSockets`) | |
| `TransfersProofs` | theorems about `UpdateServer` and `FtpClient` | |
| `DeviceProofs`, `ProcessesProofs` | theorems about the modules of `MCDevices` and of `MCProcesses` | |
| `DriverProofs` | theorems about the modules of `MCDrivers`, and about `ScullAccess` | |
| `MC*` | instances for TLC | |

`UpdateSession` implements `ResumableTransfer`, `ScullPipe` implements `ByteFifo`
and `ScullDev` implements `FlatFile` until a stale geometry is used (all by
INSTANCE with a refinement mapping); `ChrDev` takes only `ByteFifo` steps until a
copy fails half way.

`MCDevices`, `MCProcesses`, `MCDrivers`, `MCMread`, `MCTransfers`,
`MCScullAccess` and `MCAlgorithms` each hold several modules that share nothing.  Their initial
states pick one module (a selector variable) and only that one moves, so that
the states add up and do not multiply; a property of such a run is the
conjunction of what the modules promise, under the selector where it matters.

### UpdateSession

State.  `store` is the client's global `store_file_info`; `record` is the file
`file_packet` (absent, empty after `open(O_CREAT)`, or a saved structure);
`updateFile` is `update_file`, which is written in place and never truncated;
`installed` is what `unpack_file` left behind.  `cpc` is the control of the
client's update thread, named after what it does next (`flag`: recv of a flag;
`reply`, `body`: recv of the rest of a packet; `save*`: write_file_info; and so
on), `hpc` that of its `heart_beat_thread`.  `spc` and `sess` are the control and
the locals of the server's `handle_tcp_connection`.  `toServer` and `toClient`
are the two directions of the TCP connection.

Actions.  `ClientStart` is main and update_process up to the request.
`RecvFlag`, `RecvReply`, `WriteBlock`, `CountBlock`, `SendAck` are the branches
of update_process's switch and recv_file_pack; `SaveOpen` and `SaveWrite` are the
halves of write_file_info; `Unpack`, `Install`, `ResetOffset` follow the last
packet.  `RecvRest` is the same switch when a recv failed before: it looks at a byte
in the middle of a packet.  `RecvBodyFails`, `WriteOrSendFails`, `ConnectionLost` are the error
paths.  `HeartbeatTimeout`, `HeartbeatCopy`, `HeartbeatExit` are the timeout path
of heart_beat_thread, in which write() copies a structure the other thread may be
changing.  `AcceptRequest` ... `RecvNak` and `ServerFails` are the server.
`ClientKilled`, `ServerKilled` and `ReplaceFile` are the environment.

Abstractions.  A version of a file is identified with its `st_mtime`, as the
server does; a file is a number of blocks, and a block of the copy is the pair
of version and position it came from.  The unread rest of a packet is the
pseudo-packet `Junk`.  Its next byte may be any flag (client_tool.c:424): the client
gives up at an unknown one, and takes the rest for a heartbeat, a reply or data at
the others; what it then reads is the rest and, for data always, part of what follows
(`Unread`), and says anything (`Garbage`, `GarbledReply`, `GarbledData`, `DataLen`).
`astray` remembers that this happened, in this connection or before; since the client
checks nothing, little can be promised from then on, and the properties say which of
them still hold.  A version is never empty (an empty file divides by zero
before anything else can go wrong).  When the heartbeat timeout fires is left
open: at once when the server is silent, and as a counted fault otherwise.
`AtomicCopy` tells whether the write() of the heartbeat thread copies the
structure in one piece.

### UpdateServer and FtpClient (MCTransfers)

`arg` is `connt_thread_arg` in main's frame, of which every thread gets the
address; `harg` and `barg` are the copies the threads make of it, field by field.
`owner` is the descriptor table.  `lock` is the `send_lock` in each handler's frame.
A heartbeat thread reads its handler's frame even after the handler has
returned; `Frames` is what it may find there.  `raced` is a history variable: main
has overwritten `arg` before a thread had copied it.

In `FtpClient` `ftAt` and `ftCmd` say where ftpXfer is and with which command;
`ftpReply` is what the loop looks at, which is not always the reply to the
command it sent; `dataSock` is the variable and `ftOpen` the sockets that are
really open.  The server answers commands in order, in one line or several, with
any class of reply RFC 959 allows there, and may go away.  `MaxRounds` bounds how
often the transfer command is repeated.

### ScullPipe and ChrDev

Everything a process does under the device's semaphore that others cannot see is
one step; the wait conditions are evaluated without the semaphore and therefore
are steps of their own, as is the wrap of a pointer.  Addresses are offsets.
`Interrupted` is a signal.  `allocated` is what kmalloc was asked for, `buffersize`
what the last open read: `Touch` records in `overrun` the first copy, failed or not,
that goes past the allocation.  From then on the processes take no step (the memory
is somebody else's), and only the ioctl goes on.  In `ChrDev` each of the two copies of a transfer is a
step, and each can fail; a failed copy may have filled part of the buffer.

### ScullUser, ScullAccess

`scull_s_available` is the atomic counter; `count` and `owner` belong to sculluid
or scullwuid, whichever `Waits` selects.  What scull does with the data is reduced
to who is inside, with the semaphore or, in scull_trim, without.

### ScullDev, PagedScull, FifoDrivers (MCDevices)

`ScullDev` keeps the list of quantum sets with their bytes.  A call copies the
quantum and the qset first and takes the semaphore then; `stale` remembers that
somebody's copy was not the device's any more, after which the device is no
longer required to be a `FlatFile`.  `Hole` is what a position holds that nobody
wrote, `Junk` what an allocation may contain.

`PagedScull` follows pages and not what is in them: a quantum is the number of
its first page, a page has a reference count, and a mapping is the list of pages
that were looked up in it.  A call may be at any position, since lseek sets it.
The four drivers differ in the allocator, in whether there is a mapping at all,
and in nopage; `psDriver` is which one it is.  An order is given by the pages it
stands for, the order 0 by 1.  A write follows the list before it goes astray, so the
list is longer afterwards even if the pages of the quantum are not enough; a read at
the end of the file follows the list too, as the code tests for `>`.  The model stops
at a race for `vmas`, a stale geometry or an access outside what was allocated
(`psRaced`, `psStale`, `psWild`), where the code may do anything.  One of those
accesses is follow's, which sets the next item to 0 without a look at whether
kmalloc has returned it (`FollowFails`, remembered in `psNull`).

In globalfifo and ctest an operation on a wait queue is an interval, since the code
takes the lock of the wrong queue for one of them (`LockR`, `ListR` and their like
say which control points hold which lock and work on which list); none looks again
after it has slept.  Messages may be empty: a write of 0 bytes wakes readers who then
find nothing.  `excused` and `ctExcused` are the history that a call which moves
nothing is explained by, `cleared` and `ctCleared` the one a writer that sleeps on
is.  scull_kfifo has one bounce buffer for all.

### ProducerConsumer, DiningPhilosophers (MCProcesses)

A semaphore is a number, `semop` waits until it can be done; a process may be
killed anywhere.  `adj` holds the adjustments the kernel keeps for SEM_UNDO; it
refuses a semop that would take one past SEMAEM, and the program does not look.
`robbed` is the history of the philosophers whose grant the death of a neighbour took
back.  The adjustment is a sum, so a neighbour takes back a grant he did not give if
he ever gave one before.

### LddDrivers, ShortIrq (MCDrivers)

Interrupt handlers, bottom halves, timers and processes are actors that
interleave; a handler with the lock is one step, and what the code does without
the lock is several.  The `|=` on snull's `status` is a read and a write, and so is
the `++` of short's count, between which the bottom half may reset it.  snull's NAPI
handler disables receive interrupts whether or not the poll it asks for will come:
`netif_rx_schedule` does nothing for an interface that is down (`RxSchedule`), and
`deaf` remembers the interfaces nothing will enable again.  A write to sbull has two
segments; `bios` says whether whole bios are transferred, in which case every segment
is taken to be as long as the first, and `uneven` remembers the sectors that are
wrong since.  The history variables (`forced`, `torn`, `lost`, `shared`, `spDouble`, `sbLate`, ...)
record that one of the unlocked windows was hit; the properties hold but for
those, and say which.

### TinyTty, UsbSkeleton, DriverLoad (in MCScullAccess)

`TinyTty` follows the port of tiny_tty from the processes' side: an open is cut
where kmalloc or down may sleep (`creating`, `locking`, `timer`), a close where
down may; the tty core's part is that a tty lives from the first open to the last
close and that a failed open is closed again.  A timer is absent, idle or pending,
and its function is two steps, since del_timer does not wait for it.  `slips`
remembers which of the windows of the code were hit and `ttFault` what came of it
(a freed tty, a NULL timer, a timer added twice, code that was unloaded); a
behaviour is followed to its second slip.  The port of tiny_serial, with the
uart layer's buffer and its sleeping writers, stands in the same module.

In `UsbSkeleton` every device plugged in gets a structure with a reference count;
`skFreed` counts how often it was freed, so that a structure freed twice, and one
never freed, can be told.  A packet is its number, and a read is two steps, the
bulk message and the copy, between which others use the one buffer.

`DriverLoad` writes the init and exit functions of the drivers as tables of steps:
take (which may be refused, and then an error path is what is left to do), give
back, use, return.  The loader executes them, and a process comes in through
whatever is registered at the moment; the kernel counts it at once where the
driver sets `fops.owner`, later where its open function does it, or never.  A
step that gives back what is not held ends the behaviour.  The properties name
the drivers that are not right, with the line.

`MCScullAccess` picks scull's access control, one of the ports, the usb driver or a
driver to load (`opened`), and stutters for all but the first, which stop where
their models do.

### MreadPull (MCTransfers), MreadSockets (MCMread)

The first parts of `MreadPull`, for the ring, and of `MreadSockets`, for the map,
are the two data structures as operators, so that what an
insertion, an erasure, a resize or a collection does to the links is computed
and not assumed.  The rest of `MreadPull` is the main loop with them, and clients
whose requests TCP cuts anywhere; `MreadSockets` leaves what a pull finds open
and follows descriptors, slots and the threads that send the file.

Room for the copy of a request is made by taking the blocks of a client that is
not closed (`EvictSilently`).  The server goes on with what its offset leads to:
a free block keeps what it held while a list leads to it (`Seen`), the next
client may be given it, and the first one's next event then hands on the bytes of
that client, or frees its blocks, or fails an assertion.  `robbed` are the
connections this happened to, and those in whose blocks the server then writes on
their account.  Only a list that goes round, or through a header that has become
part of another block, is not followed (`Wanders`).

### The algorithms (MCAlgorithms)

Each module computes the code's result, loop by loop where the loop carries
state, and compares it with a definition that does not know the algorithm: big
integers with integers, the search tree and the containers with a map or a set,
sorted arrays with permutations, shortest paths with the minimum over paths, and
so on.  `SearchTree` and `Containers` are state machines whose calls come in any
order; the others take one step from the arguments to the result.  Where the
code is wrong for some inputs the property says for which (section 6).

## 3. Runs

| run | instance | distinct states | what it shows |
|---|---|---|---|
| `session` | 2 names, 2 versions of 1 and 3 blocks, 3 faults, 2 replacements, `AtomicCopy`; after a packet was misread no second fault or replacement | 2.6 million | blocks are written in place but for the connection in which a packet was misread (`WritesInPlace`); until then the saved record is truthful (`RecordTruthful`), no mixture is ever installed (`NeverCorrupt`), the session implements `ResumableTransfer` |
| `live` | 1 name, 2 versions, 3 faults, 1 replacement, until a packet is misread | 110 thousand | `EventuallyInstalled` under fairness |
| `torn_record` | `AtomicCopy` false | violation | the heartbeat thread can save the offset of one version with the mtime of another |
| `transfers` | 3 connections, 2 handler threads, 2 descriptors; 1 retry, 4 rounds of the transfer command; a ring of 36 bytes with headers of 8, 2 clients, requests of 3 bytes, 7 bytes sent by the connections that are open | 1.7 million | update server: within a session packets are whole, and sessions mix only through the argument main overwrites; FTP client: replies stay matched, sockets are accounted for, OK means a transfer, but for the cases the properties name; mread: a request is handed on as it was sent, but for those in three pieces and those of the clients that were robbed |
| `pipe` | 3 processes, 2 bytes, sizes 2 and 3 | 3.3 million | `ByteFifo` is implemented until a copy leaves the allocation; an open device has its buffer, which no copy leaves unless an open made the device larger than it; a reader is never forgotten, a writer only by another open |
| `access` | scull: 4 processes, two users, one after su, one root; tty: 3 processes, 3 ttys, 2 structures, counts up to 3, 3 characters; usb: 2 files, 2 devices of 3 packets, 1 write under way; loading: 40 drivers, every refusal, one process | 460 thousand | scullsingle is open once and its counter adds up; scullwuid is held by those allowed and forgets no sleeper; the timers of the ports serve ttys that are there, structures are freed once and when the last holder is gone, reads return their own packet, but for the windows the properties name; a driver gives back what it took, once, and has what those inside it use, but for the drivers the properties name |
| `chrdev` | 3 processes, 2 bytes, size 3, 2 failed copies | 4.5 million | a FIFO with an exact count until a copy fails half way; no sleeper is forgotten even then |
| `devices` | scull: 2 tasks, 2 geometries, 2 positions; paged: 2 tasks, 2 geometries, 2 pages of memory, a file of 3 pages; globalfifo and scull_kfifo: 3 tasks, 2 bytes, size 2; ctest: the same tasks and bytes, size 3; messages of 0 to 2 bytes | 797 thousand | scull is a file until a call uses a stale geometry; mappings show the device and no page is lost unless `vmas` was raced for; the three FIFOs keep order, forget no sleeper, and explain every read of 0 bytes |
| `processes` | 2 producers, 1 consumer, 2 shelves, 1 death; 3 philosophers, SEMAEM 1, 1 death | 744 thousand | the shelves are a queue, neighbours exclude each other, exactly those whom a neighbour's death robs lose a grant, and nobody starves while nobody is killed |
| `drivers` | snull with one device sending 2 or 3 packets, or both 1; short with pages and rings of 3 and 2 readers; shortprint with 2 writers; sbull with 2 users, 4 sectors and writes of two segments | 3.1 million | no buffer, line, byte or sector is lost, no sleeper forgotten and nothing left without an interrupt or timer to come, except through the unlocked windows, the interface that is down and the uneven bios the properties name |
| `algorithms` | see the .cfg: radix 3 in groups of 2, 4 keys, arrays of 6, graphs of 4 vertices, numbers up to 30, texts of 5 letters, 7 bytes of base64 | 543 thousand | every answer is the reference definition's, outside the inputs of section 6 |
| `mread` | 3 or 4 connections on 3 or 2 descriptors, an epoll queue of 2 | 676 thousand | an event finds the slot it is for; a file goes to the client that asked |

Why the bounds are enough.  *Session*: a version of one block makes the first
packet the last one, one of three has a first, a middle and a last; with two
versions a copy can hold blocks of both; three faults allow an attempt that is
interrupted, a second one interrupted elsewhere, and a third; two replacements
bring the first version back (v1, v2, v1).  The proofs of section 5 remove all of
these bounds.  *Transfers*: two descriptors for three connections make accept run
out of them, and two handlers make one thread outlive its session while another
serves the descriptor it had; four rounds let the transfer command be repeated
after the retry limit of one; the ring has room for two blocks with data, so that
a third piece needs a collection or costs a client, and seven bytes are two
requests of one connection, or of two, and a part of a third: a second request
is handed on, and so is one that is another client's altogether.  *Queues*: three processes are the least in which
two sleep and a third acts; buffers of two and three bytes wrap, fill, and hold
transfers that end at, before and beyond the end; two sizes let the ioctl shrink
and grow the buffer.  *Access*: one process of each kind that access.c tells
apart.  *tty and usb*: a third process opens the port while two first opens race;
two structures are what such a race makes, and a third tty is one that comes after
a freed one; a device is plugged in again while a file of the first is open.  *Loading*: nothing is
bounded but the number of processes inside, which is one: the next one would find
no other state of the driver.
*scull*: two tasks suffice for a stale geometry, and the two geometries
have the same number of bytes in an item, cut differently.  A behaviour is followed
to the first call with a stale geometry (`Fresh`, the constraint of the run): after
it no property says anything of the device until a trim has emptied it, and the
states after that trim are reached without the stale call too.  The theorems of
`DeviceProofs` hold with what lies in between.  *Paged*: an order of 1 has two pages in
a quantum, of which a mapping holds one; two pages in memory make allocations
fail; a file of three pages has a second item, whose one page a write of two pages
passes.  *Drivers*: rings of three wrap within the four or five interrupts and
bytes that are sent.  *mread*: few connections share three descriptors, and one
call fails; many come back to every slot.

CHECK_DEADLOCK is FALSE where the system really may stop: a client that misread a packet waits
for the rest of it while heartbeats keep coming, the update server's
process may have ended, ftpXfer returns, a computation ends with its result, a
server that has hung or failed an assertion stops, killed processes leave a
semaphore down, and the model of a device ends where the code may do anything.

## 4. Fairness

`live` assumes that the client's and the server's threads are scheduled (weak
fairness of `UpdateThread`, `Server`, `HeartbeatCopy` and `HeartbeatExit`), that a
server that says nothing any more is noticed (the loop of heart_beat_thread looks
at the clock every second), and that whoever wants the update runs the client
again after it has exited.  Faults, kills and replacements are never required to
happen, and happen a bounded number of times.  The update is not required to get
on while the heartbeat thread holds the structure.

`processes` assumes that producers, consumers and philosophers are scheduled
(weak fairness of `Worker` and `Philosopher`), and that semop serves those who
wait for a semaphore (strong fairness of `PSlot`, `PMutex` and `PGuard`: the
kernel keeps the waiting processes in a queue).  Nobody is required to be killed;
after a death nothing is promised.

## 5. Theorems

All are proved for arbitrary sets of names, versions, processes and arbitrary
bounds, from the ASSUMEs of the modules, which TLC evaluates on the instances.
The ASSUMEs say that sizes are positive numbers, that the sets of processes and descriptors that
are counted are finite, and that values which stand for nobody are not processes.

| theorem | states |
|---|---|
| `TypeCorrect` (UpdateSessionProofs) | []TypeOK of `UpdateSession` |
| `AgreementHolds` | the inductive invariant of the stop-and-wait protocol |
| `WritesInPlaceHolds` | []WritesInPlace |
| `RecordTruthfulHolds` | AtomicCopy implies []RecordTruthful |
| `NeverCorruptHolds` | AtomicCopy implies []NeverCorrupt |
| `ImplementsTransfer` | AtomicCopy implies that the session implements ResumableTransfer |
| `SingleOpenHolds`, `ConservedHolds`, `TypeCorrect` (DriverProofs) | `ScullAccess`: []SingleOpen, []Conserved, []TypeOK |
| `HoldersAllowedHolds`, `SleepersNotForgottenHolds` (DriverProofs) | `ScullAccess`: []HoldersAllowed, []SleepersNotForgotten |
| `BufferInUseHolds`, `SleepersNotForgottenHolds` (ScullPipeProofs) | `ScullPipe`: []BufferInUse, []SleepersNotForgotten |
| `FifoImplemented` (ScullPipeProofs) | `ScullPipe` implements `ByteFifo` until a copy leaves the allocation |
| `TypeCorrect`, `SleepersNotForgottenHolds`, `CountExactHolds` (ChrDevProofs) | `ChrDev`: []TypeOK, []SleepersNotForgotten, []CountExact |
| `FifoStepsHolds` (ChrDevProofs) | until a copy fails half way, `ChrDev` takes `ByteFifo` steps only |
| `TypeCorrect`, `SessionFramesWholeHolds`, `SharedOnlyByRaceHolds`, `AddressMatchesHolds` (TransfersProofs) | `UpdateServer`: []TypeOK and the three invariants the run `transfers` checks of it |
| `RepliesMatchedHolds`, `TransfersAccountedHolds` (TransfersProofs) | `MCTransfers`: []RepliesMatched, []TransfersAccounted (the FTP client) |
| `MemoryKeptHolds` (DeviceProofs) | `MCDevices`: []MemoryKept, for scull, the scullp family and the three FIFOs |
| `TypesKeptHold`, `SleepersNotForgottenHolds` (DeviceProofs) | globalfifo, scull_kfifo, ctest: their types, [](CtPollHonest), []SleepersNotForgotten |
| `FifosInOrderHolds`, `EmptyReadsExplainedHolds` (DeviceProofs) | the same: the action properties FifosInOrder and EmptyReadsExplained |
| `ScullIsFileHolds` (DeviceProofs) | `ScullDev` takes `FlatFile` steps only, until a geometry that was replaced is used |
| `ShelvesKeptHolds`, `ForksKeptHolds` (ProcessesProofs) | `MCProcesses`: []ShelvesKept, []ForksKept |
| `DiskKeptHolds`, `DriverSleepersNotForgottenHolds` (DriverProofs) | `MCDrivers`: []DiskKept, []DriverSleepersNotForgotten |
| `BuffersConservedHolds`, `LinesInOrderHolds` (DriverProofs) | `MCDrivers`: []BuffersConserved, []LinesInOrder |
| `ClientsKeptHolds`, `WritesReachTheirClientHolds` (MreadProofs) | `MreadSockets`: []ClientsKept, []WritesReachTheirClient |

*The session.*  None of the properties is inductive, because no packet says where
it belongs.  `Agreement` (UpdateSessionProofs) says, for each place the server's
thread can be in, where its last block is: nowhere yet, in the stream, in the
client's hands, counted, or acknowledged, and in each case how the server's
offset relates to the client's.  A reply that has not been read yet counts as if
it had been (`EffOffset`, `EffVer`).  When a recv has failed, or the client is about to
exit (`Over`), nothing need agree any more until the next connection; a packet that
is sent again only ever meets a client in that state (`NakWhenOver`), which will give
up or has gone astray (`AstrayAgrees`).  `WritesInPlace` follows at once.  What is on
the disk is argued for as long as the client has never gone astray (`InStep`); since
no step leads back to that (`StillInStep`), the invariants below are kept as
InStep => ....

`Truth` adds what is true of the disk: what is counted is there, for `store` as
for `record`, and no block of a version is written before `record` is of that
version (`Checkpointed`).  That needs `AtomicCopy`: without it the theorem is
false, as `torn_record` shows.

`SizesKnown` and `LastCompletes` (the last part of UpdateSessionProofs) say that the packet marked
as the last one completes the version; with `Truth` the copy is then that
version, so the additive sums of unpack_file are never what the installation
depends on.  The second half of the module puts all of it together: `Strong` is
the conjunction of the invariants, and under it each step is a step of
ResumableTransfer or leaves its variables alone.

*Access.*  The counter of scullsingle is 1 less the number of processes inside
(`Conserved`), those granted and those about to give back alike; hence at most one
finds it at 1.  The proof counts with the cardinality theorems of the library,
and needs the set of processes to be finite.  For scullwuid the inductive
invariant is Shape /\ NoQueue /\ Counted /\ HoldersAllowed /\
SleepersNotForgotten: the count is the number of holders, so that a count of 0
means that there are none and somebody is about to wake the sleepers.

*Pipe.*  `TypeOK` is not inductive: `rp` and `wp` move by what fits a buffer that
exists.  `InUse` adds that whoever reads or writes has the device open for it, and
that an open device has an allocation and a size, that `rp` and `wp` are inside the
allocation until `overrun`, and that the size was then the larger of the two (a copy
ends at `buffersize` at most); it is kept by release because a sum of 0 readers and
writers leaves nobody (`NoneOpen`).  For the sleepers the
positions are looked at as they are once wrapped (`ReaderSafe`, `WriterSafe`),
since a step that moves a pointer to the end must not seem to add data.  The
one step that is not immediate is `WriteWrap`: wrapping `wp` frees nothing.
`FifoImplemented` needs the queue as the places from `rp` to `wp`, each wrapped: a
read drops the first of them, a write adds behind the last, a wrap changes none;
and an index is congruent to at most one of them, so that a write touches nothing
that is queued.

*chardevice.*  Between the two copies of a transfer nothing is what it says:
`Halves` tells where the pointers stand then (one of them at 0, the other ahead of
what is left).  `Attended` is stronger than `SleepersNotForgotten`: of those that
would wake a sleeper it names only the ones between their first copy and their
wake-up.  `Counted` gives `cur_size` outside a
transfer and between the halves of a read, where it runs ahead by what was copied
already; it is claimed only while no copy of one of two parts has failed, which is
just what the code can keep (section 6).  For `FifoStepsHolds` the contents are
read off the places again (`Queued`), and `Span`, not the remainder, is what the
lemmas count with.

*The update server.*  `Locked` says that whoever of a session sends has its
`send_lock`, until the handler destroys it after its last packet.  For the
sessions, accept takes the lowest free descriptor (that there is a lowest one is
well-foundedness, cited from the library).  `Sharing` says: unless main has
overwritten an argument, a thread that has not copied its argument is the only one
(`OneStarts`) and finds in it what accept returned (`PendingKept`, `AddressKept`),
what was copied belongs to the session (`TakenKept`), and descriptors of different
sessions differ (`Distinct`).

*The FTP client.*  `FtInv` counts replies.  `Flows(q, L)` says that what can be read
falls into the replies q, each ending where ftpReplyGetEnhanced would end it
(`Reads`: no line before its last has its code without a '-'), and that L is all
that is due: q answers the first of L, or ends with the farewell of a server that
is gone; the rest are the end of the transfer under way and the commands that the
server has not looked at (`Coming`).  In step (`Matched`) L is what ftpXfer awaits.
After a greeting in two replies, or a command sent again while its transfer is
under way, exactly one reply more is due (`Behind`), and that stays so: it gets no
further than to take the answer to PORT for that to the transfer, since no other
reply has the code 227, and none of 200 and 500 lets it use the data socket.
Therefore only a client in step comes to the end of its loop, and the loop leaves
at most one socket behind.  `FtSocks` and `FtPlaces` say which sockets are open
where.  That a server refuses PORT and transfers nevertheless, goes away with or
without a word, or answers in several lines, are cases of the proof.

*The three FIFOs.*  Each has an invariant that only its own steps change.  For
globalfifo it says that a wait list is worked on by one task at a time (`GfLocks`),
which follows from the lock alone, as the semaphore does not protect w_wait; and
that a reader which goes on finds something, or was robbed after its wake-up or
woken by a write of 0 bytes (`GfRobbed`).  scull_kfifo needs `KfBounce`: only a reader that is about to copy has
bytes in the bounce buffer, so none is overwritten.  In ctest, too, a wait list
belongs to one task (`CtLocks`), and a task that goes on and finds nothing to move
has one of the excuses of `ctExcused` (`CtRobbed`); that the sequence of the ring
changes at its two ends only is `CtReadMoves` and `CtWriteMoves`.

*scull.*  `ScullInv` says that, as long as no call has used a geometry that was
replaced, every set that is allocated has qset slots and every quantum that is has
quantum bytes (`ScullShaped`); that during a trim, which needs two steps to change the
geometry, nothing is allocated; and that the items of the list cover the size.  For
any geometry the place of a position is its number written with three digits: item,
slot and offset (`PlaceIs`, from `Digits`).  So two positions in one quantum are as far apart as
their offsets (`SameQuantum`), what follows a position up to the end of its quantum
is in that quantum (`NextInQuantum`), and a call, which never goes on past its
quantum, ends inside the items up to its own (`EndCovered`).  `Written` says that a
write changes what is seen at the places of one quantum only (`OnlyAt`); `PutFile`
reads off that the file changed at the positions of the write and that elsewhere at
most holes became junk, also when the copy from the user fails half way.
`TrimStays` is the walk of scull_trim, which believes the qset of the device.

*The scullp family.*  `PsInv` is inductive: while nothing was raced for, replaced or
left (`PsStrong`), the items have as many quanta as the device says (`ItemsMade`), two
quanta share no page (`BlocksApart`), a page is counted by those who map it and by the
quantum it is in (`PagesHeld`), and a process has pages only while it is mapped
(`MapsInOrder`): no trim goes on under a mapping, because the counter is right.
Without `ItemsMade` nopage could look past a set, without `BlocksApart` a page of two
quanta would be freed twice.  `BlocksGrow` and `ItemWritten` say what one call does to
the list: what was in it stays, and at most one quantum is new, of pages that
nobody had (`QuantumStep`).  `PastBlock` is the other half of `PsWithinBounds`: a
call with the device's own geometry passes its pages only in an item after the first,
or in a cache that is too small.  `PsMeans` turns the counts back into the sets of
`PagesCounted`.  The geometries are any that have a page and a slot; only the two
at load time are those of the code.

*The processes.*  `DpInv` ties the program counter of a philosopher to the shared
state the others read (`StatesTold`), says that a semaphore is up only for one who
was granted his forks and has not taken them (`ForksGranted`), that whoever is being
granted forks waits (`GrantsDue`), that no grant is lost but by those who were robbed
of it (`NoGrantLost`), and that these never get another one (`RobbedLost`): `test`
marks only who is hungry.  It needs the undo values of a death to concern other
philosophers only downwards, and neighbours at that (`OwnForksOnly`).  `PcInv` counts: a process between
its two semops holds what it took (`Slots`), so that who may bring a good finds room
and who may fetch one finds a good; that is what makes the shelves between the
indices a queue (`Queue`).  `SetFirst` shows that nobody is let past a semaphore
while one process sets them, and `AddUp` that only deaths lose any.  The sums are
taken with the cardinality theorems, one process at a time (`CountsMove`).

*The drivers.*  Again each has an invariant that only its own steps change.  In
sbull what is on the disk is what was written, but for the sectors in `uneven`, and
there are none of those while segments are transferred one by one; users are
counted, and the timer is pending under a user only after a release
has started it late (`SbTimerStopped`).  In shortprint a process sleeps only after
it found at most half of the ring free, and a full ring must not look half free:
`SpFullRing` shows that it does not, if a page has more than 2 bytes
(`ShortPrintAssumption`).  In short, until the ring is overrun or two readers race,
what is unread is what lies between the indices (`ShUnread`), and one reader at a
time copies, at most what is there (`ShOneReads`), so that the tail never passes the
head.  snull has the long proof.  A stopped queue is woken only by the return of the first buffer to an empty
pool, so a queue that is stopped while the pool has buffers has a thread that is
about to look, with the last of the pool in its hand (`SnStoppedKnown`); it will find
that it is the last, since whatever is at the end of a pool has no next
(`SnEndsAtBottom`).  That holds only because a buffer is in one place at a time, of
the hands of four threads, two pools and two receive queues (`SnApart`), and in no
list twice (`SnNoneTwice`).  For a packet that has arrived `SnAwaited` names what
comes for it, which is less than `SnPacketsAwaited` would allow, and `SnPolled` why
its interface has interrupts, a poll, or is deaf.

The same places give `BuffersConserved`.  `SnEverywhere` says that every buffer is in
one of them (with `SnApart`, in exactly one), and `SnHandsRight` where a thread has
a buffer in hand.  `SnEmptyStopped`: the queue of an empty pool is stopped, unless it
was started by force; hence nobody who transmits finds the pool empty.
`SnSkbHeld` follows one skb from the transmission to the interrupt that frees it,
through the bit that announces it, and so shows that two free it only after a torn
status or an early watchdog.

`LinesInOrder` follows the times of short on their way.  A time is in the ring of
times, in a line that waits to be copied (`ShWaiting`, by its distance from the tail,
less what the reader that is about to move the tail has already), or told.
`ShToldUp`, `ShLinesUp` and `TvUp` say that they go up along that way, `ShAll` that
none before the last one is off it; the gaps that `ShTimesInOrder` excludes would
have to lie in front of something later.  Here `~again` is used: a bottom half that
ran for nothing would hand on a stale time.  The counts need what the bottom half
has read and not yet reset, and of the top half whether what it has read is still the
count or was reset meanwhile (`ShCounted`).  For shortprint `SpRing` numbers the bytes:
a cell at rank k of the ring has the byte k after the last one printed.

*The mread server.*  `MsInv` says of the map that every descriptor in it is on the walk
from its bucket and in one node only (`Reachable`, `OnceEach`), and that the map and
the slots in service name each other (`MapRight`); of the free list that it is a
sequence without repetitions of the slots that are free and not lost (`FreeList`); of
the owners that descriptors, open slots and connections match one to one
(`OwnersRight`).  An insertion changes the link of one node at most, and that node
was the last of its list, hence all other walks come by where they did
(`WalkGrows`); a walk that does not go round has a last node within the table
(`LastIs`); and a node is always free, since there are more nodes than slots
(`NodeFree`, by the pigeonhole principle).  Without a link no walk goes round
(`CirclesChained`), and free_socket can be NULL or wild only when the last free slot
was taken.  For the senders, `SendersRight`: who is not excused has the slot of his client
(`Served`) or will see at his next look that he must end (`Told`).  Walks through the
map and the free list are functions on Nat defined by recursion; induction over Nat
is stated for a set (`AllNumbers`) and follows from the order being well-founded, and
`Iteration` gives the functions that the recursions define.

Only model-checked:

* `EventuallyInstalled` and `NobodyStarves`: liveness is out of the prover's reach.
* the algorithms: what a RECURSIVE operator computes for every input cannot be
  proved here.
* of `access`, the properties of the tty ports, the usb driver and the loading of
  drivers (`PortsKept`); of `transfers`, the reading of requests (`RequestsIntact`).

## 6. Where the code disagrees with its documentation

The violation run `torn_record` is recorded as a finding in `PROJECT.json`, with
the comment it contradicts.  What follows was met while modelling and has no
run of its own; where a property makes an exception for it, the property says so.

*Updater.*

* `client_tool.c:157`: once `file_packet` exists the name on the command line is
  ignored, also after a finished update.
* `client_tool.c:224`: after a failed recv the client asks for the packet again
  ("tell the server to send this packet again", says the comment) and reads on in the middle
  of the one it has: an unknown byte makes it end with "update request fail!" although
  the server refused nothing, and a byte that happens to be a flag makes it take
  what lies there for a packet.  A block may then be written anywhere, and the record
  may name a version the copy is not of; if the file has that version, the next
  update goes on from there.  The client may also wait for the rest of a packet for
  ever, the heartbeats keeping it from a timeout.
* a torn record whose offset is past the end of the file makes the server send
  empty packets marked 'F' for ever, the offset never being equal to the size.
* `server_tool.c:425`: recv() returning 0 is taken for 0 bytes more, so
  recv_data never returns once the peer has closed; thread, descriptor and
  heartbeat thread remain.  The model has the stuck thread.
* `server_tool.c:136`: a heartbeat thread that outlives its session may send on a
  descriptor that is another client's by then, and two handlers with a lock each
  can serve one socket.

*FTP client.*

* `ftpLib.c:628` tests the reply to the command before: after one transient
  answer a transfer command that is accepted is repeated, never yields OK and
  leaks its data socket; with STOR both sides may wait for each other for ever.
* 471-482: with no `pDataSock` the command is sent, then a data connection is made
  and the command sent again; the comment at 413-415 says that no data connection
  will be established.
* 552: a lost connection yields OK with a closed socket.  577-580 cannot be
  reached, and the retry on the control answer (617) is not counted.
* 909: a greeting of 120 leaves every reply one command behind.
* 804: a reply is terminated by a newline, not by NUL; 1008: the result of the
  parse is ignored and the port may be uninitialised; 760: a negative readn on
  the non-blocking socket is not the end of the file; 867: the check of the
  address cannot hold and gethostbyname's result is overwritten.

*scull and its family.*

* `pipe.c:81`: open empties the buffer and leaves writers asleep.  After the size
  was changed while a file is open, the next open sets `buffersize` to the new size
  and keeps the old allocation, so `dev->end` may lie past it and reads and writes
  leave it: the properties end with the first that does.
* `access.c:92`: a process admitted to sculluid by su, or root, is let in but
  does not become the owner, so its own user is refused a second file; the trim
  of an open for writing runs while others are inside.  `access.c:57`: an open that
  fails makes another one fail that comes while the first is still giving back
  what it took, even if the device is free by then.
* `scullp/main.c:156`: items after the first are zeroed, so their order is 0 while
  their quantum is computed with the device's order: with an order above 0 a
  read or write in item 2 runs past its single page.
* `scullc/main.c:560`: the cache is made for the quantum at load time, which the
  ioctl can enlarge.  `sculld` and `scullc`'s mmap.c lack the
  `page = virt_to_page(pageptr)` of scullp's; scullc's mmap is not in its fops;
  scullv maps devices of any order but looks at quantum n for page n.
* `mmap.c`: vmas and the test of the order are not under `dev->sem`.
* `scull/dev/main.c:377`: a write of 0 bytes after an lseek past the end moves the
  end, which no other file does.  `scullp/main.c:155` and the same lines of the
  other three set what kmalloc returned to 0 even if that is NULL.

*Other drivers.*

* chardevice: after a copy that failed half way the count the ioctl reports is
  wrong.
* `short.c:422` and 436 count without a lock: an increment that has read the count
  before the bottom half's reset (385) brings it back, and those interrupts are
  reported twice; one that comes between 384 and 385 is not reported.
* `snull.c:405`: the NAPI handler of an interface that is down disables the receive
  interrupts, netif_rx_schedule does nothing, and no open enables them again.
* `sbull.c:138-140`: every segment of a bio is transferred with the length of the
  first; shorter ones are written from behind their buffer, longer ones are cut.
* `globalfifo.c:121`: a reader that was woken returns 0 bytes when another one was
  faster, or when it was woken by a write of 0 bytes; 164: it leaves the other
  queue, under the other queue's lock.
* `scull_kfifo.c:92`: bytes whose copy to the user fails are lost; 171: reset takes
  no semaphore.

* ctest: a task that was woken does not look again and may return 0 bytes; a reader
  leaves the other queue, under that queue's lock (161, 213); clearing
  makes room and wakes no writer; `ctest.c:121`: poll does not know the second of
  the two ways to be full.
* Loading: `globalmem_two.c:237` keeps a minor, `ctest.c:478` its device,
  `lddbus.c:163` the bus, `sculld.c:604` the driver, `sbull.c:426` the block device
  (it unregisters another name), tiny_tty its driver.  The error paths of scull,
  scull_kfifo, chardevice, sculld, snull, sbull, short and shortprint give back
  what they do not have.  globalfifo, globalmem_lock, scullc and others can be
  entered before semaphore, queues or cache are ready; short, shortprint, silly
  and scull_kfifo stay loaded without a buffer, mapping or queue they use; nothing
  counts who is inside the /proc files of jit, jiq, hello_proc and procfs1-2, and
  chardev, chardev1 and procfs3 count too late.

* `tiny_tty.c:97`: each open sets driver_data to NULL before it may sleep, so that
  others who have the port open get -ENODEV or are closed without being counted;
  101-112: two first opens make two structures, of which one is lost with its
  timer; 128: an open that finds no memory for the timer leaves open_count at 1
  and the close of it passes NULL to del_timer; 160: del_timer does not wait, and
  the function adds its timer again, for a tty that is freed or a driver that is
  unloaded.  179: tiny_write returns -EINVAL also when it has written; 344-350:
  DTR sets RTS; modem lines, counters and the wait queue are never initialised.
* `tiny_serial.c:215`: the same del_timer, so that the next startup may add a timer
  that is pending.
* `usb-skeleton.c:120-128`: reads of one device share bulk_in_buffer without a lock;
  203-205: the error path of a write reads an urb that may be NULL, and frees its
  buffer twice.

*Processes and servers.*

* `producer.c:85`: a process may use the semaphores before they are set to their
  values; no semop has SEM_UNDO, so a death between p and v stops everybody.
* `dining_philosophers_solve1.c:117`: a philosopher's v for a neighbour is undone
  when he dies; a neighbour who has not taken his forks yet waits for ever.
* mread: `map.c:136` can link nodes into circles; `server.c:699` computes an index
  from a NULL free_socket; 650 evicts a client whose node keeps pointing at freed
  blocks, and whose next request may then be another client's; `ringbuffer.c:370` garbles a request in three pieces; 244 fails its assert
  when recv fills the block; 131-132 compute the head from a NULL block_next;
  `rw.c:141` reuses flag and slot of a closed connection, and 128 is not protected
  from SIGPIPE; a failing epoll_ctl costs a slot (`server.c:281-285`); send_file
  leaks its file on error returns.  The client: `fileclient.c:303` has a stray
  semicolon, 279-285 uses an uninitialised pointer for fstat, 437 reuses the last
  command after the end of input.

*Algorithms.*  `is_prime.cpp:40` returns in the first round, and falls off the end
for 3, 5 and 7; `gcd.cpp` does not compile; `disjoint_set.cpp:59` assigns where it
should compare, so ranks stay 0; `aoe.cpp:144` takes a time of 0 for none;
dijkstra leaves 0 for vertices it cannot reach; the depth-first search of dfs_bfs
marks a vertex when it is pushed; prim writes `visited[-1]` on a graph that is not
connected; the convex hull of one point runs off the end; deleteItem of an empty
heap returns what the array holds; `quick_sort.cpp:104` divides by zero for two
elements; `graph_p_centre.cpp:124-135` skips `s[1]`.

## 7. Checking

Each run is `tlc -config X.cfg M` with the module and configuration named in
`PROJECT.json`; each `*Proofs` module is checked with `tlapm`.  `PROJECT.json` maps
every definition to the lines it models, and names for every property a plausible
slip in the code (`NotWrapped`, `TrimsAlways`, ...) that would violate it; these
operators stand next to the definition they vary and are used nowhere else.

## 8. Not modelled

* The clocks of the two heartbeat threads (5 s and 10 s): the timeout may fire
  at any time instead, which allows more than the code does.
* The package format and the sums of unpack_file: a whole version passes, any
  other copy may pass or not.
* poll and fasync of the drivers, /proc reports, the clone list of scullpriv,
  asynchronous I/O of the scullp family, plain port I/O and irq probing of short.
* What is in the pages of the scullp family (`ScullDev` does it for scull, whose
  code they share).
* The ring buffer exercises, which nothing calls; the other character drivers, of
  which globalmem_lock is globalfifo without its queues; c/ldd3_codes' scull, the
  ancestor of the one modelled; the modem lines and /proc of tiny_tty.
* The mread client and its progress bar, and `vx_ftp_client.c`, which does not compile.
* Duplicates: `homework/` and the copies of the updater.
* API exercises, contest solutions and interviews, vendored code, scripts: no
  state across calls, pure I/O, or not the author's.  `PROJECT.json` lists each
  group with its reason.

## 9. Plan

Done, in this order: the session with its abstract specification; its server;
the pipe with its abstract specification; access control; chardevice; the proofs
about the session and the access control; scull and its family; globalfifo and
scull_kfifo; the processes with semaphores; the four drivers of ldd3_codes; the
mread server; the algorithms; the FTP client; the proofs about the pipe; the tty
and usb drivers.

Since then: the proofs about chardevice, the threads of the update server, the
refinement of the pipe, the three FIFO drivers, the processes with semaphores,
the four properties of the ldd3_codes drivers, the two of the FTP client, scull as
a file, the clients of the mread server, and the pages of the scullp family.

Next:

1. Proofs: `PortsKept`; `RequestsIntact`.
2. The heartbeat clocks, as a module that composes with the session.
