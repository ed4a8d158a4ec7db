# Verification of the network, thread and key handling programs

The repository is a collection of notes, logs, patches and programs. The
programs with state of their own are the examples under
`src/Programming/Advanced Linux System & Network Programming Examples/alsp`
(called `alsp/` below; `1st_Edition/alsp` is a byte-for-byte copy), the BGPsec
code under `src/Programming/openssl_util_code` (called `openssl/`) and the
prefix and AS number databases under `src/Programming/Database_perf_test`
(called `db/`). This directory holds TLA+ models of them, TLC runs on small
instances, and proofs checked by TLAPS.

## The system

### Inventory

| Component | State | Operations | Interacts through |
|---|---|---|---|
| Threaded epoll server, `alsp/src/appendix/io_epoll/{io_epoll_pthread,mng_thread,mng_io}.c`, `alsp/include/io_epoll_pthread.h` | `p_conninfo` (count, mutex, condition), `p_fdlists`, one `EVLIST` per worker, the epoll set, a System V message queue | `start_listener`, `start_poller`, `start_iosched`, `start_worker`, `add_efd`, `del_efd`, `push_evlist`, `pop_evlist` | shared memory with mutexes and conditions, the message queue, epoll |
| Job queues, `alsp/src/8.pthread/pthread_cond.c`, `pthread_speckey.c`, `alsp/src/10.realtime/pthread_cond_rts.c` | `struct share_data`: ring, index, count | `tfunc_a` inserts, `tfunc_b` pulls | mutex and condition; bytes come from a FIFO |
| Loop servers, `alsp/src/7.io_multiplexing/*.c`, `alsp/src/10.realtime/io_rts.c` | socket table and count | accept, receive, `add_socket`, `del_socket` | one thread; the kernel |
| Echo pools, `alsp/src/6.io_interface/` (`in_stream_serv1..3.c`, `un_stream_serv.c`, three socket option programs, `in_stream_cli.c`) | `proc_tab`, connections | fork, accept, echo, `restart_child`, `kill_child` | signals, sockets |
| Trigger servers, `io_epoll_trigger.c`, `alsp/src/10.realtime/io_rts.c` | registered sockets | accept, receive, close | epoll, real-time signals |
| Semaphores, `alsp/src/5.ipc/` | kernel semaphores | take, give, abort, remove | processes |
| Message queues, shared memory, `alsp/src/5.ipc/` | queues, segments | send, receive, notify; write, read, remove | processes |
| pthread samples, `alsp/src/8.pthread/` | a counter or a table and its lock | create, lock, work, unlock, join | shared memory |
| Signals, timers, AIO, `alsp/src/9.signal/`, `10.realtime/` | mask, pending signals, control blocks | handlers, `sigwait`, timer, `lio_listio` | signals |
| SRx crypto library, `openssl/srxcryptoapi-*.c`, `bgpsec_openssl-*.c`, `crypto_utils.c` and the tests | the API object; keys in a hash and in an array; EC_KEYs | init, bind, unbind; register, unregister, sign; validate a path | calls, `dlopen`, shared buffers |
| OpenSSL tools, `openssl/ecdsa_link.c`, `ecdsatest.c`, `util_openssl.c` and others | objects on the heap | create, load, sign, verify, free | calls |
| Databases, `db/patricia.c`, `demo.c`, trie, uthash and array tests | tree, hash, array | insert, delete, search, walk | calls |
| Everything else: emulator and installation scripts, book sources, logs | none worth checking | | |

`PROJECT.json` lists every component with its status and, for those left out,
the reason.

### What is hard here

* Threads read shared fields outside the lock (`n_ev` in `start_worker`'s loop,
  `cur_open_files` in `start_poller`) and act on them later.
* Conditions are signalled only when a counter becomes 1, and waited for with
  `if`, so a lost or a spurious wakeup is not obviously harmless.
* Edge triggering: the kernel tells of data once, and the notice then passes
  through three threads, a message queue that drops messages when full, and a
  table that is filled after the registration.
* Descriptors are reused at once, while stale notices about the old owner are
  still on their way.
* Error returns inside critical sections.
* The loop servers change their socket table while they go through it, with
  reports that are older than the changes, and with blocking sockets.
* The preforked server does its work in signal handlers that interrupt one
  another, with signals that are not counted and an uninitialised `sigaction`.
* The crypto code gives keys and buffers from function to function, with a
  cleanup label that every failing call jumps to; the caller, the array, the
  hash and the record share pointers.
* The Patricia tree is changed in place, with glue nodes and reference counts.
* Processes of the semaphore samples abort inside their critical section, start
  twice and remove what others wait for; queues fill.

## Modules

| Module | Models | Grain |
|---|---|---|
| `EventFifo` | what an event list promises: abstract specification | one step per event |
| `EvList` | one event list: `push_evlist`, `pop_evlist`, the loop of `start_worker`; implements `EventFifo` | lock, body, unlock |
| `EpollServer` | the whole epoll server | one step per critical section or system call |
| `JobQueue` | the three condition-variable programs | one step per critical section |
| `LoopServer` | `io_poll.c`, `io_poll_LT.c`, `io_select.c`, `io_select2.c`, `io_epoll.c` | one step per system call or loop iteration |
| `Prefork` | process table and signals of `in_stream_serv3.c` | one step per system call or write of `proc_tab` |
| `EchoPool` | seven echo servers with a pool of children, and their client | one step per system call |
| `Triggers` | `io_epoll_trigger.c` in both builds, `io_rts.c` | one step per system call |
| `Semaphores`, `MsgQueues`, `ShmSegments` | the programs of `5.ipc` | one step per system call |
| `ThreadSamples` | the eight lock and barrier programs of `8.pthread` | one step per lock call or access |
| `Signals`, `AioCopy` | `9.signal`, the timer and the list copies of `10.realtime` | one step per delivery or call |
| `Ownership` | the machine that runs a C function as a sequence of calls on objects | one step per call |
| `SrxKeys`, `OpensslTools` | the functions of `openssl/` written for that machine | |
| `KeyStore` | `registerPrivateKey` and its kin, hash, array, test drivers | one step per API call |
| `BgpsecPath` | `cl_BgpsecVerify` | one step per signature |
| `SrxCrypto` | `srxCryptoInit`, `srxCryptoUnbind` and two users | one step per call |
| `PrefixTable` | what the Patricia library promises: abstract specification | one step per call |
| `Patricia` | `patricia.c` and `demo.c`; implements `PrefixTable` | one step per library call |
| `AsTables` | trie, uthash and array of AS numbers | one step per load or question |
| `MC*` | constants and suites for TLC | |
| `EvList_proofs`, `EpollServer_proofs`, `LoopServer_proofs`, `Prefork_proofs` | theorems about the module of that name | |
| `Ipc_proofs` | theorems about `ShmSegments`, `Semaphores`, `MsgQueues` and `JobQueue` | |
| `Crypto_proofs` | theorems about `BgpsecPath`, `SrxCrypto` and `KeyStore` | |
| `Samples_proofs` | theorems about `ThreadSamples`, `Signals`, `EchoPool`, `Triggers` and `AioCopy` | |
| `Database_proofs` | theorems about `AsTables` and `Patricia` | |

`EpollServer` uses the event lists as FIFOs. That they are is the refinement
`ImplementsFifo` of `EvList`: every step on a list is a step of the bounded FIFO
`EventFifo`, whose readings are exact for the first `MAX_EVENT_QUEUE` of them, and
`EpollServer` stops a list there (the guard of `SchedPush`).

Each action is named after the function it is part of; `PROJECT.json` maps every
definition to its lines. Definitions called "Mutant of X" are wrong versions of
X, used by nothing: putting one in X's place makes TLC refute the property it is
paired with in `PROJECT.json`.

### EvList

Variables carry the names of `struct evlist`. `mutex_lock` is the holder,
`cv_barrier` the set of sleepers. `pc` places the scheduler in `push_evlist` and
the worker in `start_worker` or `pop_evlist`. A read past the end of `q_ev`
returns any descriptor or `Garbage`. The refinement mapping to `EventFifo` reads
the queue back from the slots, the `n_ev` of them before `i2_ev` round the ring, and
takes what was popped for what was taken.

### EpollServer

The kernel is modelled from its use here: `fdtable` (accept returns the lowest
free number), `registered` and `ready` (the epoll set and the descriptors with an
edge to report, which `epoll_wait` may return in any order), `mq` (a bounded queue that outlives the process: `StaleMq` gives its
possible contents at start, any messages of descriptors). Clients connect, send, close and reset as they
like. `exited` says why the process ended; most error paths of this server call
`exit`. `lost` records the clients for which the code dropped an event. Sizes of
data are in packets; a reset drops unread data and makes one `recv` fail.

Left out: logging; failures of `pthread_create`, `epoll_create`, `socket`,
`bind`; the failure of `msgrcv`, which needs an operator to remove the queue.

### JobQueue

`Buf` is what a read of the FIFO may return; a newline ends the insertion.
The constant `Broadcasts` and the variable `rechecks` tell the programs apart;
`rechecks` is chosen in `Init` and never changes, so that one run has the programs
that test the queue again after a wakeup and `pthread_speckey.c`, which does not.
`woken` remembers what ended a thread's wait. What `pthread_speckey.c` prints from thread-specific data, and the real-time signals
by which `pthread_cond_rts.c` reports a job, change nothing the queue depends on.

### LoopServer

One model for the programs, which differ in a few places: `prog` says which one
runs, and `FirstIndex`, `AfterAccept`, `LeaveAccept`, `MoreToScan`, `NextIndex`
and the choice of `AddSocket` or `add_ev` hold the differences. `reported` is
`revents` or `fds_read`, `ep_events` the array of `epoll_wait` in any order.
`served` and `refused` are histories. A failed `accept` in `io_select2.c` has no
`break`: it adds descriptor -1 to the table. Such an entry watches nothing: in
the builds of the examples `FD_SET(-1)` sets bit 63, which `select` ignores
while descriptors are below 63.

`del_socket` moves the last entry, `revents` included, into the hole; the model
looks reports up by descriptor, which is the same thing as no descriptor is
reused within a cycle. Left out: the `ENABLE_MSG_OOB` branches (not in the
default build), failures of `poll` and `epoll_ctl`, `POLLERR` without `POLLIN`.

### Prefork

`stack` holds the frames of `main`, `restart_child` and `kill_child`, the
running one first; a signal that is pending and not masked pushes a frame
between any two steps. A child inherits the disposition of SIGTERM, the mask and
the table: a child that gets SIGTERM before its own `set_signalset` runs
`kill_child` itself (`ChildTerm`). `set_signalset` sets `sigact_term` a second
time where it means `sigact_chld`, so the flags and the mask of the SIGCHLD
handler are undefined: `SigFlags` and `SigMask` give the values looked at.
`kill_child` tests an entry, reads it again and signals it in three steps
(`in_stream_serv3.c:194-195`); SIGCHLD is not masked there, so that `restart_child`
may change the entry in between, which `raced` remembers.
SIGINT is handled like SIGTERM and not told apart. Process numbers are given out
in turn and not used twice. The echo loop of a child is in `EchoPool`; here it only
matters as a way to die.

### EchoPool and Triggers

`EchoPool` has one model of seven servers; `pool` tells them apart. An octet is
its client and a number, so that an echo can be compared with what was sent and by
whom; the buffer of a child is kept from one session to the next, as in the code. A
client leaves with octets under way in both directions; what was not read makes
the connection a reset one, and a send to it raises SIGPIPE (at once in
`un_stream_serv.c`, whose AF_UNIX sockets know that the peer has gone). In `so_timeo.c`
a receive may time out, and a `setsockopt` that fails ends the child. `proc_tab` of
`in_stream_serv3.c` is modelled here as far as the pool's size goes; its races
are in `Prefork`.

`Triggers` has the level-triggered and the edge-triggered build of
`io_epoll_trigger.c`, which receive two octets per event, and `io_rts.c`, which is
told by queued signals and receives everything. Descriptors run out (`Fds`), the
signal queue overflows (`MaxQueued`) into SIGIO, and `epoll_ctl` may fail, which
ends the server wherever it calls `ADD_EV` or `DEL_EV` (`EpollCtlFails`).

### Semaphores, MsgQueues, ShmSegments

Two instances of a semaphore program run at once, as their comments invite the
reader to try, and find one semaphore. The child with index 2 aborts inside its
section: `SEM_UNDO` gives the semaphore back, POSIX semaphores do not. The
instance that ends first removes the object while the other may wait for it. The
wait-for-zero child calls `semop` and then sleeps, in two steps; its fork may fail,
which nobody looks at.

The sender of `MsgQueues` reads a file of lines; a line is good, too short or too
long (`msgsnd` fails), with a type. The queue holds `Cap` messages. System V receivers choose by
type, POSIX receivers may ask for a signal, which comes once per registration. The
look at `mq_curmsgs`, `mq_notify` and `mq_receive` of `posix_msg_sigev.c` are three
steps, and a receiver sleeps only once it is in the last.

A segment of `ShmSegments` has two cells, and a short text fills only the first,
so that mixed texts can be told from whole ones. `shmget` and `shmat` are two steps,
between which the segment may be removed. Memory that was created and has
no size yet traps, and so does the -1 of a `shmat` that failed.

### ThreadSamples, Signals, AioCopy

Programs of one shape (create, work, join, destroy) with different locks. A
thread is in its section for more than one step, so that an overlap shows. The
`shmget` with `IPC_EXCL`, the one after `EEXIST` and their failure are steps of their
own. `pthread_rand` has no lock, and `Isolated` speaks of the other programs only. A
signal is pending once; a handler runs with the mask `sigaction` gave it. Users send
any signal, SIGCHLD too.

`AioCopy` numbers the blocks of a file, of two octets each. The library looks at the
control blocks it was handed in any order and at any time. It reads a control block
field by field: `seen` collects the versions that the block has had since it began, and
it may use each field of another one (`Torn`), so that a `memset` and the stores that
follow (`aio_listio.c:66-73`) can be seen half done. It copies the buffer octet by octet,
each of any block that the buffer holds a part of at that moment. The copy is opened
without `O_TRUNC` over a file of one of the `OldLengths`. A source is a regular file that
is read without errors: a `read` that fails is not modelled.

### Ownership, SrxKeys, OpensslTools

A C function is a sequence of records: the call, the pointer, what happens on
failure. `Ownership` runs one function with every combination of failing calls
(the results a function does not look at lead to the next step). A pointer is null, live or freed; the caller's
pointer (`arg`) may come in live. The programs hold every call on an object in the
order of the source, jumps and returns included, and the alternatives that macros
choose between (`USE_EC_PRIVATE` and the other decoders of a key) as programs of
their own; bytes and messages are left out.

### KeyStore, BgpsecPath, SrxCrypto

`KeyStore` has the hash of records keyed by AS number, the array of slots and the
ids, and is driven by what `perf_test_code/` calls. `hashv` and `IdModulus` stand for the hash function and the mask; the
headers with `ID_NUM_MAX` and `RET_ID_OFFSET` are not in the repository, and the
model takes 256 (scaled down) and 1. `registerPublicKey` gives the five-parameter
`inputKeyInfo` a sixth argument (line 1738), which is ignored; the build must lack the
prototype. Three places end in undefined behaviour and with it the program:
`inputKeyInfo` without memory releases a pointer that was never set (1359, 1401) or
clears NULL (1375; both `RegistrationDies`), and `unregisterPrivateKey` reads the next
pointer of the record that it has just released (1865, 1877); `UnregistrationDies` is the
case where something else is found there, `DropRecords` the one where it is intact. Buffers and EC_KEYs are objects that a
program, a record and a slot may share. `blame` collects what can make an id or a
pointer outlive its object, and `StoreSound` allows a fault for those causes only. Two
of them came out of its proof: a key whose slot is the last a byte can number gets id
0, with which `main` of `test_loadKey.c` later releases it ("id_zero"), and when the
hash has another number of buckets than the array has slots, `unregisterPrivateKey`
leaves a record that points to the buffer it releases ("record_stays"). `BgpsecPath` takes a signature to be the
term of what was signed with which key: two terms verify when equal; `SigLists` gives,
for each length, the lists of signatures that an update may carry. The AS of a segment
and the key that checks its signature are different things: the key is the caller's or
the one in the file that the signature's SKI names, and nothing compares it with the
segment's AS. Segment lengths, keys that were not given or come without data, missing
key files, missing and superfluous signatures are inputs; allocations of libcrypto
objects within a verification succeed (their failures are in `SrxKeys`). `SrxCrypto`
takes the configuration, `dlopen` and `dlsym` as inputs. It models the build without
`HAVE_LTDL_H`.

### PrefixTable, Patricia, AsTables

`Patricia` keeps the nodes with their bit, prefix, children and parent, and the
reference counts of prefixes; every routine that `demo.c` calls is one action that
contains the whole descent, the insertion of glue and the removal of glue nodes.
Its refinement mapping takes the set of prefixes of nodes that have one;
`ImplementsTable` is the specification of `PrefixTable` under it: an insertion
that finds the prefix changes nothing, exact and best search and both walks give
the answers of a set of prefixes, `search_best2` with and without the prefix
itself. A call is part of the abstract state (`asked`), so that an answer must be
the answer to its question. An octet has one bit and an address `maxbits`, which makes
trees of every shape small enough; the comparisons of whole octets remain, but what
`comp_with_mask` does with the rest of an octet (`mask % 8`) never happens. `calloc` may return any free address; the model's addresses are strings of
bits, and it returns the string that a node or prefix stands for, when that is free, so that
equal trees are equal states. Nothing in the code reads an address; that the string
of a new node is always free is part of the proof of `TreeCorrect`, and a call that finds its
prefix in the tree holds a second object of it, anywhere, until it returns: `Spare` is there
for the full tree. `AsTables` writes AS numbers in base `N`.

### Deviations that no run is about

These show in the models as they do in the code, and the properties allow for
them by naming them.

*Servers.* `pop_evlist` never wraps `i1_ev` (`mng_io.c:150`; `FifoUntilWrap`
holds until then), and the overflow branch of `push_evlist` returns with the
mutex locked, so that the next push never returns (`mng_io.c:108`).
`epoll_wait` is called with a count that was read before the unlock; 0 is EINVAL
and ends the process (`mng_thread.c:111`). `make_threads` clears the port that
`main` has parsed (`io_epoll_pthread.c:160`), so that the kernel chooses one. With
two workers, two events for one descriptor can both read its end, and the second
close hits the next owner (`mng_thread.c:218`): `contested` collects the descriptors that
one worker was closing while another had an event for them, and `ClosesRightly` excepts
these. A `recv` of a worker blocks for as long as its client says nothing
(`mng_thread.c:212`), and with it the worker's list. `DEL_FDLIST` can clear the slot of the
next owner (`mng_thread.c:219`); data and end of file that share an edge leave a
client open (`mng_thread.c:212`). The insertion loop of `pthread_cond.c:121` can
overwrite waiting items; a thread of `pthread_speckey.c:204` that was woken for nothing
processes its last item again. `kill_child` can signal a number that was reaped, or the
-1 of a fork that failed, when a SIGCHLD comes between the test and the call
(`in_stream_serv3.c:194-195`). A socket that does not fit in the table of a loop server
is forgotten and not closed (`io_poll.c:115`). Deaths that share a SIGCHLD cost
the pool a child (`in_stream_serv3.c:214`, the comment at 166 says so). In the
echo servers a receive error leaks the descriptor, and SIGPIPE kills a child that
nobody replaces but `in_stream_serv3.c`. The edge-triggered build of
`io_epoll_trigger.c` leaves what exceeds two octets unread. In `io_rts.c` data
that comes before `F_SETOWN` is not signalled, a reset only prints, a failed accept
ends the server, and an overflow of the signal queue kills it.

*Keys.* A failing sign frees the key that the store still holds. `deleteKeyInfo`
gives a DER buffer to `EC_KEY_free`. The readers of certificates lose the empty
`X509_new` when the file cannot be decoded (`srxcryptoapi:1813`, `bgpsec_openssl:446`).
A key that its AS does not own verifies that AS's segment. `testUnregisterKey` frees the buffer twice.
`registerPrivateKey` returns id 1 when there is no memory, though its comment
says 0. The hash is keyed by the AS number alone, so that two keys of one AS share
a record. `IS_DER_PRIVATE` misreads encodings of 127 to 129 octets.
`sca_loadKey` releases twice on one path. The list of signatures may be shorter
than its length field. `unregisterPrivateKey` compares the id with a bucket of the
hash, which is the slot only while both have as many places. `perf_test` calls methods after an init that failed;
`test_loadKey` uses an API object that `malloc` did not clear.

*Databases.* No caller tests the NULL of `ascii2prefix`; `Clear_Patricia` leaves
the head dangling (the callers drop the tree); walking an empty tree in order
follows NULL; the trie finds no numeral with leading zeros while the hash does;
`array_test` prints "found" in any case.

*IPC and samples.* Errors of `semop` and `semget` are ignored; a second instance
of `posix_nameless_sem` runs `sem_init` again; an aborting child blocks the POSIX
programs; `sem_unlink` splits the critical section in two. The System V sender
drops the rest of its file when the queue is full, and its key press removes unread
messages; a short line gives `memcpy` a negative length. `sysv_shm` compares the
result of `shmat` with NULL. Answering "c" twice clears a mutex in use; the normal
mutex locked twice hangs. `aio_listio` writes every (NUM - 1)th block from a stale
buffer, its NOWAIT build reuses control blocks and buffers under way, so that a block
may land at offset 0 or behind the end, and a longer file that is copied over keeps its
tail. `PREFER_WRITER_NP` has no effect.

## Runs

| Run | Instance | Shows |
|---|---|---|
| `evlist` | 2 slots, 2 descriptors, 5 calls | no pop of an empty list, no lost wakeup, nothing overwritten, order kept until `i1_ev` runs out, every event popped; the list is a bounded FIFO |
| `epoll_two` | 2 clients, 2 descriptors, 2 workers, stale queue | count, epoll set and open descriptors agree; the poller is awake; unread data has an event, events are dealt evenly; only ended clients are closed, but for contested descriptors |
| `epoll_limits` | a table of one slot, fair threads | events drain |
| `jobqueue` | 2 consumers, with and without the second test, 2 slots, 3 reads | wakeups, a job processed twice has one of two causes, order while insertions do not overlap, for every item one is pulled, and the very item unless it was overwritten |
| `loop` | all programs, 3 clients, 2 descriptors, a table of 3 | watched is what is open; `recv` never blocks; `io_poll.c` and `io_epoll.c` serve every report; ended clients are closed |
| `prefork` | a pool of 2, 5 process numbers, 2 deaths, 1 SIGTERM, five settings of the flags, both of the mask | each dead child has its `waitpid`; each child is in the table once; `kill_child` hits children only, but for two named races; dead children are replaced; SIGTERM ends the server |
| `prefork_orphan` | the flags that were meant, no death but by `kill_child` | violation: a replacement forked during `kill_child` survives |
| `crypto` | every function on every error path; 2 keys of one AS and one of another, 4 slots, 2 buckets, 4 objects; paths of up to 3 signatures by 2 keys; every configuration | ownership, key store, validation, binding |
| `database` | addresses of 3 bits, ten texts; AS numbers 0 to 6 in base 2 | the tree implements a table of prefixes and is well formed; what trie, hash, search and `array_test` say of one number, and where they differ |
| `ipc` | 2 instances, pools of 2 and 3; 2 receivers, 2 messages; 3 users | exclusion, no line sent behind one that was not, sleeping receivers are told, text, nobody waits for ever but where named |
| `samples` | 2 or 3 threads; 2 signals each; copies of 0, 1 and 4 blocks by lists of 3, over a file of 2; 2 children, 2 clients, 3 octets; 2 descriptors | sections, handlers, copies, echoes, closes, and progress |

The last four are suites: a behaviour runs one of the programs, chosen in the
initial state, while the others are in the state of a program that has ended or
was not started. Nothing is shared between the programs of a suite, so that a
suite checks exactly what one run for each would.

A property of a suite is the conjunction of named parts, each stated with its
comment in the component's module:

| Property | Parts |
|---|---|
| `OwnershipKept` | `OwnTypeOK`, `TwiceOnlyAfterCallee`, `NoUseOfReleased`, `OutParameter`, `FailureLosesNothing`, `DnssecKeysClean`, `SelfTestClean` |
| `StoreSound` | `KsTypeOK`, `IdMeansItsKey`, `DeadKeyNeedsFailedSign`, `DeadBufferNeedsCause`, `WildAccessNeedsCause` |
| `ValidationExact` | `PathTypeOK`, `AcceptsOnlyTrueChains`, `RefusesNoTrueChain` |
| `BindingSound` | `SrxTypeOK`, `GuardedCallsLand`, `AstrayCalls`, `NoCoreDangles`, `OneHandle` |
| `TreeSound` | `OnlyBadTextStops`, `WellFormed`, `PrefixOwned` |
| `SemaphoreKept` | `Exclusion`, `ZeroMeansFull` |
| `MessagesKept` | `NoGaps`, `AsleepIsArmed` |
| `SegmentsKept` | `TextOnText`, `TrapHasCause` |
| `IpcLive` | `NobodyWaitsForEver`, `SentArrives`, `SenderEnds` |
| `SectionsKept` | `Isolated`, `TwiceTaken`, `BarrierTogether`, `DestroyedUnused` |
| `SignalsKept` | `HandlersNest`, `EachChldReaps`, `KilledByDesign` |
| `CopiesKept` | `CopiedBlocks`, `NeverOlder` |
| `EchoKept` | `EchoInOrder`, `FailuresCost` |
| `TriggersKept` | `ClosedAtEnd`, `RecvHasInput`, `ReturnsOnlyFull` |
| `SamplesLive` | `MainReturns`, `NothingPends`, `PoolServes`, `LeftIsClosed` |
| `EventsKept` | `TypeOK`, `DataHasEvent`, `RoundRobin` of `EpollServer` |
| `TableTrue` | `TypeOK`, `EachChildOnce`, `ZombieHasSignal` of `Prefork` |

Deadlock is not checked: a worker may sleep for ever when no client speaks, and
the processes end.

### Bounds

* A list or ring of two slots fills, wraps and overflows. `MaxPush` and
  `MaxRead` let an index go round twice.
* Two clients on one or two descriptors: two descriptors in one message,
  concurrent clients, and reuse of a number by a second client. A third client
  adds no new pair.
* One message in the queue makes every drop possible.
* One packet per client. A packet and an end of file are enough to share an
  edge. Three octets with a buffer of two take two receives.
* Three clients on a table with two free entries and two descriptors: the last
  entry is moved, descriptors run out, and a -1 of `io_select2.c` fills the
  table so that a client is refused.
* Two children and two deaths share a SIGCHLD; five process numbers let each
  child be replaced and one replacement be replaced.
* `MaxChild` is the largest number of children an instance of a semaphore program
  is asked for: three, one of which aborts inside while two can wait for it.
* Two keys of one AS share a record and a slot, in every order of registration,
  signing and removal; a third, of another AS, has the last slot and a bucket of
  another number. Three signatures give a first, a middle and a last one. Paths of one
  signature have every input out of the ordinary, those of two fewer, those of three none
  (`MCInputs`), one signature of a list may be made with the wrong key or name another.
  `KeyLengths` straddles the lengths at which the DER header changes.
* Prefixes of up to three bits make trees with glue above glue; the ten texts
  hold nested, disjoint and equal prefixes.
* Files of no block, of one, and of twice a list's length less two end the copy loop at
  each of its places, the last one after the first entry and buffer were used again. An
  older file of two blocks is longer than some and shorter than others.

### Fairness

`FairSpec` asks weak fairness of each thread: a thread that can run does, which
is what the kernel's scheduler gives threads that do not wait for one another.
Mutexes are part of the enabling condition. Nothing is asked of clients, of the
writer of the FIFO or of spurious wakeups, nor that a blocking `recv` of a worker
returns: `EventuallyPopped` has `RecvReturns` as its hypothesis, and `EventsDrain` names
a blocked worker. In `LoopServer` it is the one thread,
in `Prefork` the server and each child; nothing makes a child die or a fork
succeed. `ThrFairness`, `SigFairness`, `PoolFairness`, `TrgFairness`,
`SemFairness` and `MsgFairness` say the same of the threads and processes of the
suites; keys are pressed, signals sent, names removed and connections made and
left at will.

## Proofs

All theorems hold for every value of the constants that satisfies the modules'
ASSUMEs (sizes are positive, the garbage value is no descriptor, and so on).

* `EvList_proofs`: the inductive invariant says who holds the mutex at each
  label, ties `n_ev` to the histories, bounds the worker's loop (`i` counts pops
  since the loop began, so an `n_ev` read without the lock can only grow until
  the pop), and relates `i2_ev` to the number of pushes modulo
  `MAX_EVENT_QUEUE`. `TypeOK`, `CountExact`, `NoUnderflow`, `NoLostWakeup`,
  `PendingStored` and `FifoUntilWrap` follow. The strengthening is needed:
  none of the six is inductive, the count because of `UpdateBody`'s neighbours,
  the wakeup because of the unlock steps. `FifoRefined` is the refinement, step by
  step: under the invariant `PushInsert` is the abstract `Put`, `PopBody` the abstract
  `Take`, and every other step a stutter.
* `EpollServer_proofs`, for any number of clients, descriptors and workers.
  `ConnInv`, over the kernel's tables and the count, gives `CountsRegistered` and
  `PollerAwake`, with finite-set cardinality facts for the count. `EvInv` gives
  `EventsKept`: it types what every thread holds, counts what the scheduler has
  dealt (`Dealt`: the lists before `idx_rr` were given one event more), and
  follows an event from the ready set through the poller's buffer, the message
  queue, the scheduler's buffer and a list to the worker's `recv`; `DataHasEvent`
  is inductive only with those types, since a stale message must still name
  descriptors. `ClosesRightly` is proved for any number of workers from `CloseInv`: a slot
  of `fdlist` that holds its descriptor is registered but for the moment between the close
  and the clearing of the slot (`SlotsRegistered`); from `recv` to that moment the
  descriptor of a worker stays the same client's unless it is contested (`WorkersHold`);
  and a descriptor that one worker closes while another has it in hand is contested
  (`Alone`).
* `LoopServer_proofs`: `TypeOK`, `WatchedIsOpen`, `RecvReady` and `AllServed` for all
  programs and any number of clients, descriptors and table entries. Two facts
  carry the proof. No client is behind two descriptors or behind one and in the
  backlog (`Clientele`), so that a receive from one socket leaves the others
  readable. And what lies ahead of the loop's index and was reported is still open
  and readable (`TableAhead`, `EpollAhead`): `del_socket` moves an entry from ahead
  of the index to the index itself, and `accept` adds entries that were not
  reported. `AllServed` adds that `ret_poll` is the number of reports not served
  yet, that all of them lie ahead, and that nothing served does (`ServedInv`).
* `Prefork_proofs`: `TableTrue` and `KillHitsChild` for any pool, any process
  numbers and every setting of flags and mask. `PInv` describes the stack of
  interrupted functions: `main` at the bottom, one `kill_child` at most, one
  `restart_child` at most without `NODEFER`, and with the mask no `kill_child` on top
  of a `restart_child` (`StackInv`); no SIGCHLD is handled before `main` pauses
  (`PhaseInv`). Without `NODEFER` and `NOCLDWAIT` an entry names a process that was
  reaped only while a `restart_child` on the stack is replacing it, and a child that is
  not in the table is in a frame about to store it (`TableInv`). For `KillHitsChild`
  `KInv` follows a number from the test of its entry to the call: until a handler has come
  in between (`raced`) it is in the table, or about to be replaced by a `restart_child`
  below.
* `Ipc_proofs`. `SegmentsKept` for any number of users: without overlapping
  `memcpy`s there is one writer, what it still has to write was typed last and the
  other cells are up to date (`CellsFollow`); memory without a size still has its maker
  (`SizeComes`). `SemaphoreKept` for any number of instances and children: as long as
  nothing is in `blame`, everybody holds the semaphore that key or name leads to
  (`OneSemaphore`), what the kernel will give back is what the children inside have
  taken (`UndoKept`), and value and processes inside add up (`PermitsAddUp`). That
  a process without an object finds a spare one is a pigeonhole argument
  (`SpareNumber`). Both are action properties; the theorems follow from the
  invariants in two consecutive states. `MessagesKept` for any number of receivers and
  any file: what was sent is behind the sender's place in the file without a gap
  (`LinesBehind`), which needs to know who has which queue and that
  one that exists was made by a process that still knows it (`QueuesKnown`); a
  queue that nobody is registered for has a receiver that will look again
  (`SomebodyLooks`), so that not all of them sleep, and nobody sleeps before a message
  (`SleepsOnEmpty`). The window between `mq_notify` and `mq_receive` is what makes the last
  two needed.
  Of the job queue: `TypeOK`, `CountExact` and `SleepersSignalled` for any queue
  size, input and number of consumers, with broadcast or with signal and one
  consumer; and `PhantomsExplained` for all programs, which needs that a thread whose wait
  has ended was woken by something, and that no signal told of more than was inserted
  (`WokenInv`). `FifoUnlessOverlapped` needs
  `OrderInv`: what was pulled is the beginning of what was inserted and the `cnt`
  slots from `idx` on, round the ring, hold the rest of it.
* `Crypto_proofs`. `ValidationExact` for every set of AS numbers, path lengths, key
  encodings and signature lists: `PathInv` says that `targetAS` is the AS that the
  segment at hand must have signed for, that the counter runs down as the place
  runs up, and that what the walk has left behind is a piece of a true chain, each
  signature by the key that its SKI or the caller names. `BindingSound` for
  every set of configurations: it is not inductive, since a call after an init that
  failed lands where that init left the methods (`FailedIsReset`), and an init that
  finds a handle relies on what an earlier one has bound (`HandleBinds`). `StoreSound`
  for every set of keys, every hash, any number of slots, buckets and objects: `KsInv` says that a
  slot names a live EC_KEY until a signature fails (`KeysLive`), that while no two
  keys have met in one slot the slots of the keys in use differ and each is filled for its
  own key, which is what an id names (`Apart`), that without a cause the buffers of programs
  and records are live and no two keys share one (`BuffersLive`), and that a record, and
  an id, has its filled slot (`RecordsFiled`); the calls that die leave the store as it was
  but for the fault.
* `Samples_proofs`.
  `SignalsKept` for any number of signals: `SigInv` says which
  signals each handler on the stack has blocked, now and in the masks that those
  above it will restore (`Masks`), and that SIGCHLD is pending or in the hands of one
  handler until the child is reaped (`OneDeath`).
  `SectionsKept` for any number of threads, in one process or two: whoever
  is in a section has the lock, and no lock has an owner and readers (`Owning`), so that
  what it has read there is still true (`Reading`); nobody gets past the second lock of a
  normal mutex, and a recursive one is counted (`Doubling`); who has come to the barrier
  waits or has passed it (`Gathering`), and what `main` destroys was joined for
  (`Joining`, `Destroyed`).
  `EchoKept` for any pool, clients and octets: what a client has not heard is in its
  child's buffer or unread, in order (`Octets`, `Echoes`), one child serves one client
  (`Sessions`), although the buffer still has octets of earlier ones behind what the last
  receive has put there, a child that died had a client of its own (`Deaths`), and an open
  descriptor without a session was reset (`Costs`).
  `TriggersKept` for any number of callers and descriptors: a descriptor of the server
  belongs to one caller and a caller to one (`Lines`), so that a close within a round
  leaves the events behind it true, although descriptors are reused at once.
  `CopiesKept` for every list length, file and file copied over: where list, file position
  and octet count stand (`Listing`), which blocks a buffer may hold octets of (`Buffers`),
  that every field of every version the library may have seen is, for itself, zero or right
  for an entry of that index (`Requests`), so that a torn control block can only point to
  offset 0 or to the end, and, where `lio_listio` waits, which octets are awaited and which
  written (`Waits`); arithmetic modulo the list's length does the rest.
* `Database_proofs`.
  `LookupsExact` for every base and range, what `array_test` prints included: it needs what three recursive functions
  compute. The library's induction cannot be used, but a recursion whose argument
  goes down a measure has a solution and only one (`SolutionExists`,
  `SolutionUnique`), which follows from the least element of a set of numbers; from
  that `NumeralRead` (`atoi` undoes `sprintf`) and `SearchFinds` (binary search in a
  sorted array finds what is there) are proved by least counterexample.
  `TreeSound` for every address length, every set of texts and every sequence of calls.
  A node's address is the string of its bits, which makes the tree's shape a statement
  about neighbours: a child is a longer string that begins with its parent's, on
  the side that its next bit says, and names that parent (`Linked`); a node without a
  prefix has two children (`Needed`); a node's prefix is the object with the node's
  bits, counted once, and every counted object is some node's (`Filed`); and the
  count is the cardinality of the allocated nodes (`Counted`). `PatInv` is these four, the
  types, and that nothing has failed. `patricia_lookup` needs where its descent ends and
  what every node passed on the way agrees on with the prefix, so that `differ_bit`
  and the climb find the one place where the new string fits; then a leaf is
  hung, a node spliced in, or a glue node and a leaf (`LookupSound`). `patricia_remove` takes
  a leaf, a leaf and its glue parent, or a node with one child out (`RemoveSound`).
  `PATRICIA_WALK` visits every node once (`AllNodesListed`: what is still to visit
  gets smaller, and the subtrees on the stack are disjoint), so `Clear_Patricia` frees all of
  them and its final assertion holds (`ClearSound`). That the descents, the climb and the walk
  have values at all is `SolutionExists`, with the length of the string or the number of nodes
  still to visit as the measure.

Each of these inductive invariants was checked by TLC as an invariant of the
instances of the runs, and some of larger ones, before it was proved.
`TypeOK` of the first four modules and
`CountExact` are theorems for every value of the constants and not repeated in the
runs, but for `EpollServer` and `Prefork`, where it is part of what the runs check.

Only model-checked:

* liveness (`EventuallyPopped`, `EventsDrain`, `Drains`, `EndedIsClosed`,
  `Reforked`, `TermEnds`, `IpcLive`, `SamplesLive`), which is beyond the prover;
* `ImplementsTable`: the proof of `TreeSound` shows which prefixes a call adds and takes
  away, but the answers of the searches and the order of the two walks against numbers
  that are folded from bits are left to TLC;
* `OwnershipKept`, which is about a given list of functions and has no constant to
  generalise but the object names.

## Not modelled

* Datagram programs, `sig_pgid.c`, `aio_basic.c`, `dir_notify.c`, and the memory,
  file, process and text samples make one sequence of calls and keep no state.
* The urgent-data builds: `ENABLE_MSG_OOB` in the loop servers and
  `in_stream_serv_OOB.c`.
* libcrypto, libconfig, `dlopen`, the hash function and the kernel are external:
  modelled from their use.
* Hexadecimal dumps, timing, and the bytes of signatures and addresses.
* The emulator and the scripts drive other programs; the Go samples and the book
  sources are third-party material; `1st_Edition` is a copy.

## Plan

1. `ImplementsTable` as a theorem: `LookupSound`, `RemoveSound` and `ClearSound` give what
   the changes do to the set of prefixes; the answers of `patricia_search_best2` and the order of
   the walks are missing.
2. The urgent-data builds.
