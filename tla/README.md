# TLA+ models of CommunicationSpeed

CommunicationSpeed is a set of small programs that measure how fast a machine
moves data: over RDMA (`rdma/`), over TCP (`net/`), to a disk (`disk/`) and
through its caches (`mem/`). This directory models the parts of it that have
state worth checking, states what makes them correct, checks it with TLC on
small instances and proves nearly all of its safety for every instance with TLAPS.

## 1. Inventory

| part | source | state | operations | interacts with |
|---|---|---|---|---|
| RDMA transfer | `rdma/rc_example.c` 84-270, 475-657, 719-869 | program counter of two processes, TCP stream, queue pair, receive and send queue, completion queue, registered buffer | `sock_connect`, `sock_sync_data`, `connect_qp`, `modify_qp_*`, `post_receive`, `post_send`, `poll_completion`, `rcmain` | the peer over TCP, the adapters through libibverbs |
| RDMA resources | same file, 272-473, 659-707 | `struct resources`, `dev_list`, file descriptors | `resources_init`, `resources_create` with its exit path, `resources_destroy` | kernel, libibverbs |
| Atomic operations | `atomic.h` | one shared integer | `atomic_inc`, `_dec`, `_add`, `_exchange`, `_compare_exchange` in four widths, pointer variants | callers in several threads; `casthread`, `cassmpthread` |
| Cache patterns | `mem/permutate.cpp` | the array | `l1h`, `l1ml2h`, `l2ml3h`, `l3m`, `warmUpL1..4` | called by the drivers |
| Memory drivers | `mem/numatest.cpp`, `mem/smptest.cpp`, `mem/mypcm.cpp` | array, loop variables, counters | `memthread`, `casthread`, `smpmemthread`, `cassmpthread`, `initpcm` | libnuma, PCM |
| TCP echo | `net/Network.cpp` | two processes, two streams, buffers | `clientThread`, `serverThread`, `receiveHandler` | each other, `MyClock` |
| Stopwatch | `clc/MyClock.cpp` | `m_begin`, `m_timeByUSec` | `begin`, `stop`, `resume`, `end` | the echo client |
| Disk write | `disk/Generate.cpp` | one file, one buffer | `genRecord`, `diskmain` | kernel |
| Asynchronous counters | `pcm/cpuasynchcounter.h` | two snapshots of every counter group, a mutex, a thread | constructor, `UpdateCounters`, `get`, `getSocket`, `getSystem`, destructor | reader threads, PCM |
| Counter width extension | `pcm/width_extender.h` | last raw value, extended value, a mutex, a thread | constructor, `internal_read`, `read`, destructor | reader threads, the hardware counter |
| Counter states and metrics | `pcm/cpucounters.h`, `mem/mypcm.cpp` | two states of all counters | accumulation by core, socket and system; about forty metrics of two states | the drivers, PCM |
| Other PCM headers | `pcm/*.h`, `lib/libintelpcm.so` | declarations to a binary | | `mypcm.cpp` |
| Rest | `murmur_hash.*`, `debuglog.h`, `clock.h`, `test.*` | which test was built | a hash, logging, time reads, an entry point | the tests |

What is hard in this code:

* two processes that synchronise only through four one-message exchanges while
  two adapters move data between their buffers;
* every call of the RDMA program may fail on one side only; a failure is seen by
  the other side as an end of file, a reset, a completion with an error, or
  nothing at all;
* TCP keeps no message boundaries, and both TCP programs read as if it did;
* a completion queue of one entry, polled without looking at what completed;
* clean-up on two paths over the same structure;
* an exchange loop on a shared integer;
* two threads that are cancelled and not joined before their data is released;
* a hardware counter that wraps, extended by whoever comes by in time;
* counters that go on while they are being read, and cores that are offline;
* a report that is printed whether or not the work was done;
* chains of indices that rely on what an earlier phase left in the array.

What makes each part correct:

* *RDMA transfer*: a SEND meets a posted receive; what is printed is what the
  peer wrote; nobody touches a buffer that a request uses; the completion queue
  suffices and each poll takes its own completion; nobody waits in a circle;
  both sides agree on the outcome; the exchanges are a rendezvous.
* *RDMA resources*: whatever fails, everything acquired is given back once, in
  an order the verbs accept.
* *Atomic operations*: each one takes effect in one step and returns the value
  its comment promises.
* *Memory benchmark*: each level is measured on its own pattern, all of it warm.
* *Asynchronous counters*: a reader's two snapshots belong together, the intervals
  of different groups can be compared, every reader returns.
* *Width extension*: a read returns a count that was true during the call, across
  wraps and beside other readers; the value keeps up without readers.
* *Metrics*: they say what the cores did; what is documented as 0..1 is in 0..1
  even when the reads are disturbed; what one socket sends the other receives.
* *Echo*: nothing is lost, added or reordered; the client gets through; the
  stopwatch counts the rounds and nothing else; the receiver outlives the
  connection.
* *Disk write*: a report without an error message speaks of records that are in
  the file.

`PROJECT.json` lists every component, and under `hazards` each hard spot with its
line and the properties that watch it.

## 2. Plan

Order: what can go wrong in most ways first.

1. `RcExample`, `SyncBarrier`: the two RDMA processes and the rendezvous they
   need. Done, with the refinement and all safety properties proved.
2. `RcResources`: acquisition and release in one process. Done, with all
   properties proved.
3. `AtomicCell`, `AtomicOps`: the abstract integer and the instruction
   sequences. Done, with the refinement proved.
4. `MemBench`: builders, warm-ups and drivers. Done, with all properties proved.
5. `MyClock`, `EchoNet`: the echo test with its stopwatch. Done, with all safety
   properties proved.
6. `AsyncCounters`: the updating thread, its readers and its teardown. Done, with
   all safety properties proved.
7. `WidthExtender`: the extended counter, its watchdog and its teardown. Done,
   with linearizability of the reads and the teardown proved.
8. `CounterMetrics`: the metrics against what the cores really did. Done, as far
   as the code is in the headers, with all properties proved.
9. `DiskWrite`: the write loop over several runs. Done, with its property proved.
10. `Tests`: the entry point, which composes `RcResources`, `EchoNet` and `DiskWrite`.
    Done.
11. To do: the sizes of mappings in `MemBench` (`numa_free` is given cells in place
    of bytes); `barrierThread1/2` and store order, if they are called again.
12. Not proved: liveness (section 5 says why).

## 3. Modules and the code

`PROJECT.json` maps every definition to its lines. Operators marked "Mutation of"
are variants of the definition that follows them; no specification uses them. They
document which error in the code each property would notice.

### RcExample (rdma/rc_example.c, both processes)

`pc[p]` is the place of process `p` in `rcmain` and the functions it calls. Each
call that blocks, each verbs call and each access to the buffer is one step:
`listen`, `accept`/`connect`, `create`, the write and the read of the four
exchanges (`con_`, `q_`, `r_`, `w_`), `to_init`, `post_recv`, `to_rtr`, `to_rts`,
`send`, `poll1`, `use1`, `post_read`, `poll2`, `use2`, `post_write`, `poll3`,
`finish`, `destroy_qp`, `close_sock`, and the ends `exit`, `aborted` (assertion)
and `killed`.

The TCP connection is two counters per direction (`wr`, `rd`) and the state of
each end (`conn`). `con[p]` records for every byte of the received connection data
which byte of the peer's stream it is, so a garbled structure is one where
byte `i` is not `i` (`PropsOK`). The bytes are treated as distinct, although some
fields may be equal in a real run. `total` is `total_read_bytes`, and `synced`
counts the calls that returned 0.

The adapters are external: `HcaSend`, `HcaRead` and `HcaWrite` execute a request at
the peer, `HcaAck` returns the completion, `HcaFail` stands for exhausted retries.
A queue pair connected with garbled data reaches nobody (`Reaches`); that the
wrong data names another live queue pair is not modelled.

`Faults` says which failures may happen: `bind`, `accept`, `refused`, `create`,
`gid`, `segment`, `modify`, `post`, `poll`, `timeout`, `loss`, `destroy`, `kill`.

`SyncBarrier` is the abstract rendezvous: a process arrives at its next exchange
and leaves it only when the peer has arrived at the same one. The mapping takes
"arrived" from the bytes written and "passed" from `synced`.

### RcResources (one process)

The acquisitions are the list `CreateSteps`; each may fail, and then
`resources_create_exit` walks `CleanupOrder`, `resources_destroy` walks
`DestroyOrder` on what is left. `ptr` is which pointers are set, `held` which
objects exist: the two differ exactly where a release failed or a pointer was
forgotten. Descriptors are numbers handed out lowest first, because
`sock_connect` closes descriptor 0 in client mode. `stray` collects every release
of something that is not there. A client that is started with descriptor 0 closed
gets the connection as descriptor 0 and closes it as `listenfd`; `SockLive` says
that this is the only way to lose it (`Stdins` allows both starts).

### AtomicOps, AtomicCell (atomic.h)

Threads call operations on one integer of `M` values (2^8 to 2^64 in the code).
A locked instruction is one step; the increment of the result register, the plain
load of `atomic_exchange` and each turn of its loop are steps of their own.
`AtomicCell` is the promise: call, one indivisible effect, return. The mapping
decides the result at the locked instruction (`Decided`), before the register
holds it.

### MemBench (mem/)

Each thread function is the list of its steps; `build` runs a builder over the
array, `warmUp` and `measure_*` are one turn of a loop each. Memory that was never
written holds `Junk`, a value outside the array. `numatest` and `smptest` differ in
which functions they call, whether they have a remote half, and in `initpcm`. One
variable, `prog`, tells them apart.

### EchoNet, MyClock (net/, clc/)

The client's write, read, `stop` and comparison are separate steps; a read takes
any non-empty part of what is under way, up to `strlen(buf)`, and leaves the rest
of the buffer as it was (`Landed`). Without a socket the calls fail and the client
goes on; on a socket that never connected `write` raises SIGPIPE. On the server,
`accept` may fail because its length argument is not initialized. When the receiver
thread cannot be created the server only says so: it is `unserved`, a listening
socket with nobody behind it, until `pthread_join` of an identifier that was never
set fails or crashes and the process drops whoever has connected. The
buffer of each turn is uninitialized; it always comes fresh from the receiver
thread's own arena, where nothing is ever freed, so it is zero and `strlen` counts
the bytes read. `heap` counts the buffers, none of which is ever freed. While the
client is there each costs at least a byte, and `ReceiverLives` says that memory for
as many buffers as bytes will do. After a clean close the loop turns without
waiting, until memory is exhausted; after a reset (a client that closes with bytes
unread; what it had sent may be lost or already be queued at the server) the next
`write` raises SIGPIPE.
The comparison after each round is of the buffer the client sent from and read
into, so a round without an answer compares equal: `AlarmComesLate` says
what an alarm does mean.
`MyClock` keeps the seconds and microseconds of `gettimeofday` apart as the code does.

### AsyncCounters (pcm/cpuasynchcounter.h)

The counter groups (cores, sockets, system) are numbered in the order of an update
pass; a snapshot is the value of one growing counter, 0 before it was read. `main`
is the owner in the constructor and the destructor, `upd` the thread, `rd` the
readers, whose two loads inside `func(states1, states2)` are separate steps. The
seven `get` templates differ only in the group they read. Cancellation is deferred:
it acts in `sleep` and inside a counter read (a system call in the binary library,
so the model lets such a read also complete), never in lock or unlock. After
`delete[]` a step of the thread sets `fault`: the process may die or live on. A
failed `pthread_create` leaves readers with the constructor's snapshots and the
destructor with an uninitialized thread id. That readers are done before the
destructor begins is the caller's obligation, and a guard of the model.

### WidthExtender (pcm/width_extender.h)

`main` is the owner in the constructor and the destructor, `th[p]` the frame of
`internal_read` in a reader or in the watchdog: `lock`, `read_raw`, `extend`,
`unlock` are its steps. The hardware counter `raw` has `W` values and `Increment`
moves it at any pace, also more than `W` between two reads. Of the sources of raw
values, `msr` stands for `MsrHandleCounter`, whose read is a system call that may
fail and leave 0, `client` for `ClientImcReadsCounter` and its kin, loads from
mapped memory. `WatchDogProc` is in the binary library: it sleeps and calls
`internal_read`. Cancellation acts in its sleep and in the read of a register,
where the thread holds the mutex. `count`, `seenAt` and `sound` are history: the
true count, its value at the last raw read, and whether no raw read failed or came
`W` or more events after the one before.

### CounterMetrics (pcm/cpucounters.h, mem/mypcm.cpp)

A counter state is a function from register names to counts, a `double` is a
fraction. Where a `double` is converted to an integer, the result may be one off:
`Truncated` takes the fraction's quotient and a rounding `e` of -1, 0 or 1, and the
properties are stated for all of them.
In a `Tick` every online core does one thing (an access served by some
cache level or by the other socket's memory, a wait, a sleep), and the registers
advance by what the hardware counts for it. `BeginRead` and `EndRead` fill a
state; ticks between them disturb it, and `early` says what had already been read:
some cores, some registers of all cores, or some registers of the uncore, so that the
idle flits of a link and the uncore's clock, or its cycles and those in L0p, can come
from different moments. A miss sends eight flits of data from the other socket and
one flit, the request, to it. A link has `LinkFlits` flits in a tick, of which
the uncore counts those that carry something or those that are idle, and
`LinkSpeed` is what the library says of its speed: the two are independent. Some
models have links whose outgoing traffic is not counted.
The metrics are operators over two states with the code's branches, clamps and -1
results; `SocketCounterState` and `SystemCounterState` are the accumulations. `did`
is the truth the metrics are compared with. How the library fills a state and what
its events mean is external, taken from the comments of the header. A difference
of registers is taken modulo `Modulus`, as the unsigned subtraction is.

Two things the model shows that a user of the metrics should know. An Atom that
reads its references and its misses at different moments can report more misses
than references, hence a huge number of hits (`getL2CacheHits` subtracts unsigned
numbers). With a core offline the time of the system is divided by all cores, so
the incoming utilization of a link can exceed 1 (the run `metrics_util`), and the
outgoing bytes of a Beckton uncore fall short: `LinksBalance` says by how much.

### DiskWrite (disk/Generate.cpp)

One action per call of `diskmain`: `usage`, `Generate` (the unchecked
`posix_memalign`), `open`, `genRecord`, `write`, `loop_end`, `report`. `write` is
whole, short (the assertion aborts) or an error (printed, then the report follows
all the same). A record of `file` is the number of the run that wrote it, since the
file is opened without `O_TRUNC` and `Rerun` starts over what is there.

### Tests (test.cpp, test.h)

Every test is a function of the type `testfunc`, and `main` calls the one that `func`
names; `TEST(...)` sets it at build time (to `numatest` in this commit). `Tests` holds
the three tests that move data out of the machine and lets `func` be any of them, so
that one instance checks all three. They share no state: the variables of a test that
was not built never change. Their specifications stay apart for the proofs: `Spec`
(`RcResources`), `NetSpec` (`EchoNet`), `DiskSpec` (`DiskWrite`).

## 4. Runs

| run | expected | checks | shows |
|---|---|---|---|
| `rc_clean` | pass | `CleanRunSucceeds` | without faults all interleavings end with both sides returning 0 |
| `rc_faulty` | pass | `SendMeetsReceive`, `ShownRight`, `CqFits`, `CompletionMatches`, `BufferQuiet`, `NoMutualWait`, `Agreement`, `AbortCause`, `EndsOrHangs`, `ImplementsBarrier` | with all faults together: data, queues and outcome are right, the exchanges are a rendezvous, and a process ends or hangs in one of two known places |
| `rc_segments` | violation | `ConDataIntact` | connection data in two pieces is garbled and accepted |
| `rc_eof` | violation | `FailureEndsBoth` | a failure of one side leaves the other in the read loop for ever |
| `tests` | pass | `NoStrayRelease`, `BusyHasCause`, `MrBacked`, `AllReleased`, `SockLive`; `EchoConserves`, `AlarmComesLate`, `ClockExact`, `ReceiverLives`, `ClientEnds`; `ReportHonest` | for `rcmain`, clean-up is complete, single and in a legal order; for `netmain`, conservation, what an alarm means, exact stopwatch, the receiver outlives the connection, the client ends; for `diskmain`, over three runs on one file a report without a write error is true |
| `atomic_ops` | pass | `TypeOK`, `ImplementsCell`, `ExchangeLockFree` | the instruction sequences implement the atomic cell; the exchange loop is lock-free |
| `mem_bench` | pass | `WalkOnPattern`, `WarmUpTouchesAll`, `CrashCause` | walks stay on their pattern, warm-ups cover it, no assertion fires |
| `mem_half` | violation | `HalfOfL2` | the walk through L2 loads all of its lines, where a comment says half |
| `async_counters` | pass | `SnapshotPair`, `NoNegative`, `NoBlankStart`, `IntervalsOverlap`, `TouchCause`, `GetReturns` | readers get pairs of one moment, never negative, over intervals that overlap; every get returns; only a thread that was awake when cancelled uses released memory |
| `width_extender` | pass | `ReadLinearizable`, `TeardownCause`, `CatchesUp` | reads are true counts of their own duration across two wraps; the watchdog alone keeps the value up; which watchdogs use the released object |
| `counter_metrics` | pass | `MetricsExact`, `RatiosInRange`, `LinksBalance` | on five processor models, with and without offline cores: the metrics are exact when nothing disturbs the reads, and how far they can go astray otherwise |
| `metrics_util` | violation | `IncomingUtilizationInUnit` | with a core offline a link can seem more than fully used |

`AbortCause` in `rc_faulty` says when `assert(rc == xfer_size)` fires: for example in
the client when `accept` fails on the server, whose exit resets the connection.

Two comments of the memory benchmark describe other code. `permutate.cpp:59` says that
the L2 chain goes at twice the step and visits half of L2: the step is five lines, and
`WarmUpTouchesAll` in `mem_bench` says that the chain visits all of them; `mem_half`
shows the comment to be wrong. "On a failure just exit" (`numatest.cpp:72`): the
`return` is commented out, and in `MemBench`, too, the measurement goes on whatever
`program` returned (`pcm`); the counters it would print are not modelled.

Two properties speak of a part of what can happen, because nothing in the
repository says how the rest should be. `NoBlankStart` is about cores and sockets:
the constructor does not read the system (`cpuasynchcounter.h:158`), so until the
second pass `getSystem` subtracts an empty snapshot and returns the count since the
counters were started. `ReportHonest` is about reports that no write error precedes:
after one (`Generate.cpp:98`) the report of all records follows the error message.

The violations are recorded as `findings` with the line of code or comment that
says otherwise.

### Bounds

* `ConLen = 3` (40 bytes in the build): enough for a message cut into one, two or
  three pieces and for a read that takes the next exchange's byte with the last
  piece. The number of exchanges, four, is the code's own.
* `MaxFd = 5`: three standard descriptors, a listening one, the connection and
  the device.
* `M = 4`, two threads, arguments {1, 2}: all operations against each other,
  wrap-around in both directions, and a value changed and changed back between a
  load and its cmpxchg. The proof covers the rest.
* `LineCells = 2`, caches of 4, 8 and 12 cells, a last level of 24 and an array of
  96: 4, 6 and 12 lines, like the machine's 2048, 49152 and 1572864 without the
  divisor 5, and a last level of a quarter of the array's cells. `WarmUpRound = 2`
  (100 in the code), `Iters = {0, 3}`.
* `MsgLen = 2`, `BufLen = 3`, `TestCases = 3`: messages cut anywhere, a server read
  that spans two messages, a shift that lasts into a later round. `HeapCap = 7`
  is more than the turns the server can take while the client is there.
  `MaxTime = 2` with two "microseconds" to a "second": an interval within a second
  and one across its end.
* Two cores, one socket, two readers, `MaxNow = 3`: three different readings are
  enough to tell an old from a new snapshot in the constructor and in a pass, and
  the order of two groups within it.
* `W = 3`, `MaxCount = 6`, two readers: two wraps, a late read that misses one, and
  a wrap inside another thread's read. The proof covers every `W`. At most one raw
  read fails in a behaviour.
* Three cores on two sockets, `MaxTicks = 2`: a tick inside either read and one
  between them, every pair of things a core can do, one core offline on the larger
  socket; each core does a part of the activities (`MayDo`). The models are one of
  each branch of the metrics, and one with links that are not counted on their way
  out. One link per socket, of nine flits in a tick: a line and a request, so that it
  is busy to the last flit in some ticks; `LinkSpeed = 72` is the bytes of these
  flits. Registers do not wrap during a measurement (`NumbersAssumption`).
* `MaxRuns = 3`, `MaxRecords = 3`: a longer run, a shorter one over it, and a third
  over both; `fileSize` also 0 and negative.

### Fairness

* `RcExample`: a process that can run is scheduled, and an adapter answers or
  gives up (retries are finite). Nothing makes `accept` fail or a signal arrive,
  so these have no fairness.
* `AtomicOps`: a thread inside an operation is scheduled. Nobody has to call.
* `EchoNet`: the client and the receiver thread are scheduled, and so is the main
  thread of a server that comes to `pthread_join` without a receiver. The set-up of the
  server has no fairness (it may never be started), and time need not pass.
* `AsyncCounters`: the updating thread and a reader inside `get` are scheduled. A
  reader that waits for the mutex gets it in the end (strong fairness): the
  thread is away from it for a second after each pass. The owner has no fairness,
  it may keep the object for ever.
* `WidthExtender`: the watchdog's sleep ends, a thread that holds the mutex is
  scheduled, and a free mutex is given to somebody who waits, not necessarily to
  the watchdog: `CatchesUp` does not need more, because a reader that gets it
  brings the value up as well.

Deadlock is not checked in the runs of `RcExample` with faults: a server really may
block in `accept` for ever, and ended programs do nothing. For the same reason `Tests`
has a step of `netmain` that does nothing (`NetIdle`); that the client is never stuck
is `ClientEnds`.

## 5. Proofs

All theorems hold for every value of the constants that satisfies the assumptions
named in the modules: `ConLenAssumption` and `FaultsAssumption` (`RcExample`),
`StdinsAssumption` and `MaxFdAssumption` (`RcResources`), `MAssumption` and
`ArgsAssumption` (`AtomicOps`), `LinesAssumption`, `SizeAssumption` and
`FactorAssumption` (`MemBench`), `EchoAssumption` and `ClockAssumption` (`EchoNet`,
`MyClock`), `TopologyAssumption`, `MaxNowAssumption` and `ReadersAssumption`
(`AsyncCounters`), `WAssumption` and `ReadersAssumption` (`WidthExtender`),
`BoundsAssumption` (`DiskWrite`), `TopologyAssumption` and `NumbersAssumption`
(`CounterMetrics`). They say that sizes are positive numbers, that a
cache is a whole number of lines and the array less than 2^32 cells, that the table
has room for the program's descriptors, and that no reader has the name of a state of
the mutex. `CounterMetrics` assumes two sockets with finitely many cores, one core
of each at most that reads the other's memory, a link with room for a line and a
request in a tick (nine flits or more) of whatever speed, and registers wide enough for the measurement (`Modulus` exceeds 64 bytes
for each core and tick). The bounds of the runs are constants too, so the theorems
hold for any number of rounds, runs and wraps. Two theorems have a hypothesis of
their own: `CrashCauseAlways` and `WarmUpTouchesAllAlways`.

`RcExampleProofs`:

* `TypeCorrect`: `Spec => []TypeOK`.
* `BarrierRefinement`: `Spec => ImplementsBarrier`. `TypeOK` does not say how the
  byte counters and the program counters belong together. `SyncInv` does: a
  process outside its exit path has completed exactly the exchanges before its
  place, has written their bytes (and those of the current exchange while it
  reads), has read at least the bytes of the completed ones, and never more than
  the peer has written. A read loop that ends has therefore read bytes that the
  peer writes only in the same exchange or later; this holds although a read may
  take bytes of the next exchange, since that only makes `rd` larger.
* `SendMeetsReceiveAlways`: `Spec => []SendMeetsReceive`. `RecvInv` adds that from
  the client's `post_recv` to the arrival of the message the receive request is
  there and the client does not get past its poll; the server's SEND is posted
  only after its second exchange, which by `SyncInv` the client has begun, so the
  client is past `post_recv` and in RTS.
* `NoMutualWaitAlways`. `SyncInv` bounds the bytes read from below only; `ReadInv`
  says that a process is at most one byte ahead, the one that the read of the
  connection data took along, and that the two processes are never both ahead. The
  second part is what makes the wait of both impossible.
* `CqFitsAlways`, `CompletionMatchesAlways`, `BufferQuietAlways`. `QueueInv` says that
  a process has no request and no completion outside the place that waits for it
  and the way out, which request it is there, and how many exchanges the process
  has then been through. So the peer of a process that uses its buffer cannot have
  an RDMA request under way: it is not between the exchanges that enclose one.
* `ShownRightAlways`. `DataInv` follows the contents of both buffers from phase to
  phase, with `Arrived` for a request that was carried out and not yet polled: the
  server's text for the read is in its buffer before the third exchange is written,
  and the client's RDMA write can only come after the client has used the read.
* `AgreementAlways`, `AbortCauseAlways`. `ConnInv` says that only a process on its way
  out closes the connection, and what a process that meets a reset or ends without
  success can conclude of the other (`ResetCause`, `EndCause`). The hard case is the
  last exchange: a process that has written its byte of it and gives up while
  reading does so only when the peer is gone without having completed it.

`AtomicOpsProofs`:

* `TypeCorrect`: the integer never leaves its width.
* `CellRefinement`: `Spec => ImplementsCell`, for any number of threads and any
  width. The invariant `RegisterInv` says what the accumulator holds before each
  instruction; the arithmetic it rests on (adding 2^w - 1 is subtracting 1) is the
  lemma `SumMinusOne`.

`RcResourcesProofs`, for a descriptor table of any size and either state of
descriptor 0:

* `NoStrayReleaseAlways`, `BusyHasCauseAlways`, `MrBackedAlways`, `AllReleasedAlways`.
  `HeldInv` is about ownership. `Pending` is what the release path under way will
  still release: the pointers that are set and, in `resources_destroy`, whose turn
  is yet to come. All of it exists, so nothing is released twice, and all that
  exists besides was refused once, so at the end nothing else is left. `ptr` alone
  does not do: `resources_destroy` never resets a pointer.
* `SockLiveAlways`. `FdInv` says which descriptor is the connection, and that the
  lowest free number, which the kernel hands out next, is never this one.

`MemBenchProofs`, for every size of a line, of the caches and of the array:

* `WalkOnPatternAlways`. `PlaceInv` says that a walk runs at the builder that prepared
  it, so the array is neither freed nor rebuilt under it. `PatternInv` says that each
  cell of the pattern points into the pattern, save the one that the CAS variant
  has incremented and not yet decremented. That the builders write such cells is
  the lemma `RemainderOnLine`: the remainder of a multiple of the line by a multiple
  of the line is a multiple of the line.
* `CrashCauseAlways`, under `ArrayOfCode`: the array has as many cells as the last level
  has bytes (`numatest.cpp:60`, `permutate.cpp:6-8`), and no cache is larger than L3.
  Then every range fits and no builder's assertion fires. With an array of another
  size this would be false, hence the hypothesis.
* `WarmUpTouchesAllAlways`, under `ChainOfCode`: no range is a multiple of five lines, as
  in `permutate.cpp` with its 2048, 49152 and 1572864 lines. A stride of five lines on
  a multiple of five would visit one line in five, hence the hypothesis. `ChainInv`
  says at which cell the warm-up is after each turn and that the cells of all turns so
  far have been loaded. That some turn comes to a given line, for any number of lines,
  is the lemma `FiveReaches`: among the five numbers that differ from the line by 0 to
  4 times the number of lines, one is a multiple of five, and its fifth is the turn.

`EchoDiskProofs`, for every length of the message and of the buffer, every number of
rounds, and every number of runs and records of the disk test:

* `EchoConservesAlways`. The property says that received and travelling bytes together
  are the bytes sent; `StreamInv` adds that all is empty before the connection and
  that the server holds bytes only between its read and its write.
* `AlarmComesLateAlways`. `RoundInv` counts: the client never has received more than
  `MsgLen` bytes for each round, and as long as it has received all of them its
  buffer still holds the message, since a round's answer is what it sent, at the same
  place. An alarm therefore needs a round that began with bytes missing.
* `ReceiverLivesAlways`. `HeapInv` says that the buffers allocated and the bytes still
  under way to the server are together no more than the bytes sent, since a turn of
  the receiver takes a byte while the client is there; by `RoundInv` those are at most
  the bytes of all rounds, which `EchoAssumption` leaves memory for.
* `ClockExactAlways`. The seconds and microseconds that `stop` subtracts apart are
  quotient and remainder of one number; `ClockInv` adds what holds before `begin`.
* `ReportHonestAlways`, of `DiskWrite`. `WrittenInv`: the records before the offset are
  whole and of this run, whatever the file held before. `SaidInv`: what has been
  printed at each place, and that a report without a write error is reached only from
  the end of the loop.

`AsyncCountersProofs`:

* `TypeCorrect`, `SnapshotPairAlways`, `NoNegativeAlways`. `LockInv` says who may
  touch the snapshots: the constructor alone, then whoever holds the mutex, and no
  reader once the destructor has begun (after that the mutex no longer protects
  anything: the thread may pass a destroyed one). `PairInv` follows the two loads,
  `OrderInv` orders the two snapshots of a group except between the constructor's
  two readings of it.
* `NoBlankStartAlways`. `BlankInv` says which snapshots the constructor has taken at
  each index, and that nobody starts before it is through.
* `IntervalsOverlapAlways`. The property is about a free mutex; in the middle of a pass
  it is false. `OverlapInv` says what holds there: the groups whose end was renewed
  in this pass end after the begin of every group already copied, and after the end,
  the coming begin, of every group not yet copied.
* `TouchCauseAlways`. `CauseInv` says that a thread that was asleep when it was cancelled
  does nothing but end.

`WidthExtenderProofs`:

* `TypeCorrect`: `Spec => []TypeOK`.
* `ReadLinearizableAlways`: `Spec => []ReadLinearizable`, for every width, any number
  of wraps and any number of readers. The property alone says nothing of the
  shared values, so the induction needs three parts. `LockInv`: whoever is
  between `lock` and `unlock` holds the mutex while the object lives, so there is
  one of them. `ValueInv`: the raw counter is the true count modulo `W`, and while
  reads are sound the extended value is the true count at the last raw read, minus
  the difference a thread at `extend` is about to add. `ResultInv`: the call of a
  reader lies before its raw read, so its result is bounded from both sides. The
  arithmetic of one wrap is a lemma about `Difference`.
* `TeardownCauseAlways`. `CancelInv` remembers what the watchdog may still do after it
  was cancelled asleep, or was never started.

`CounterMetricsProofs`, for any number of cores on the two sockets, any of them
offline as long as each socket has one, any number of ticks, threads per core and any
nominal frequency:

* `MetricsExactAlways`, `RatiosInRangeAlways`, `LinksBalanceAlways`, all from one inductive
  invariant, `Inv`. The properties compare two states at the end of a measurement with
  what was done between them; `Inv` follows the registers all the way.
  `BoundInv` keeps the registers within the ticks, so that sums over cores stay below
  `Modulus` and an unsigned difference is the true one. `OrderInv` says that a state
  read first is behind one read later and behind the registers, however the reads are
  disturbed, and that the same holds of the distance of two registers one of which
  never advances without the other (`Pairs`: an Atom's references and misses, the time and
  the time in a C-state), as long as no disturbed read separates them. `WorkInv` says that offline cores do nothing.
  `ExactInv` says that after an undisturbed read there is a number of ticks `T` such that
  each register has advanced by what `T` ticks of the activities in `did` count for
  (`Since`, `Weighted`, `LinkWork`).
* The metrics are sums over sets of cores, by `SumFunction` of the community modules. The
  theory they need (an element taken out, unions, linear combinations, order, constants)
  comes first in the module. It is an induction over the subsets of a finite set; stated
  about a set of subsets, `SubsetInduction`, and proved from the well-foundedness of
  strict inclusion, it is first-order.
* For the exact metrics, the totals of each register over a core, a socket and the system
  are turned into seven numbers, how often each activity was done (`Shares`); each metric
  is then arithmetic. For the ratios that stay within 0..1 under disturbed reads it is
  `OrderInv`, or a clamp of the code, that gives the bound. For the links, the
  utilization is a quotient and the bytes a truncated product with it: `BytesByIdle` and
  `BytesByFlits` bound the bytes from both sides, for every rounding. The speed of
  the link is any number; that it is the bytes of its flits is the premise of the
  balance alone, within the property.

Only model-checked:

* the liveness properties (`CleanRunSucceeds`, `EndsOrHangs`, `ExchangeLockFree`,
  `ClientEnds`, `GetReturns`, `CatchesUp`), which need fairness and are
  beyond the prover.

Every invariant that a passing run checks is also proved, and so are both refinements.

## 6. Not modelled

* Option parsing, printing, logging and timings: no property is about them.
* `murmur_hash`: 64-bit multiplications, a pure function nobody calls.
* A connection of the RDMA client to some other program on the same port, and a
  system clock that is set back (the two-second limit may expire at any time in
  the model, which covers its effect).
* `barrierThread1/2`: their calls are commented out.
* The byte-order macros: `htonll` and `ntohll` swap on every machine, because both
  names in `#if _BYTE_ORDER == __LITLE_ENDIAN` (`rc_example.c:26`) are undefined. On
  the x86 builds this is right, and both sides of the transfer do the same.
* The rate that the disk test prints, and the sizes given to `numa_free`
  (`numatest.cpp:147`): nothing in the programs depends on them.
* The run of a benchmark after `PCM::program` failed (`numatest.cpp:75`) is in
  `MemBench`; what the counters then show is in no model.
* In `cpucounters.h`: package C-states, thermal headroom, PCIe, memory-controller and
  power-control counters, Joules, and class `PCM` itself. Their code, or the code
  that fills them, is in `lib/libintelpcm.so`. The metrics without a clamp may leave
  0..1, also those documented as 0..1: the incoming utilization of a link with a core
  offline (`metrics_util`), and the residency in C0 or a deep C-state
  (`cpucounters.h:1857`, where only C1 is clamped) when the machine goes on between the
  reading of the time and of theirs; `RatiosInRange` says that nothing else does it. How
  far such a read takes them is not bounded.
* The rest of `pcm/` (`types.h`, `pci.h`, `utils.h`, `client_bw.h`, and `msr.h` except
  `SafeMsrHandle::read`): register layouts, declarations of access classes whose code is in the binary, output
  helpers.
