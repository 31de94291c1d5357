# vmp-rl in TLA+

vmp-rl is the daemon that stands beside a video streaming application. It starts
the application `vmp-sa`, watches it through a byte in shared memory, restarts it
when it stops feeding that byte, samples the machine's load, and answers RPC
requests about both. The repository also builds nmon (`app/lmon16f.c`), the monitor
whose `/proc` readers the daemon took over. This directory models the parts in which
processes, threads, signals and intervals meet, checks them with TLC on small
instances and proves their safety properties with TLAPS for every instance. Paths below are
relative to the repository's `src/` unless they start with `app/`.

## 1. Inventory

| Component | State | Operations | Meets others through |
|---|---|---|---|
| `ipcs/ipc_shared.c`, `vmp/vmp_shared.c` | System V semaphore; shared segment with the `dog` byte and the stream count `vmon.number` | daemon: `ipc_shared_init`, `ipc_shared_proc`, `ipc_shared_done`; vmp-sa: `ipc_share_init`, `ipc_watchdog_feed`, `ipc_stream_conn` | memory shared by two processes, `shm_lock`/`shm_unlock` |
| `load/load_child.c`, `vmp/vmp_process.c` | thread, `cond`, last `vmon` copy, the child process | start, watch loop, `kill_app`, `vmp_run_process`, stop, done | fork/exec, `killall -9`, join |
| `rpc/pbc/pbrpc-clnt.c` | list `outstanding` of `rpc_node_t`, `id_gen`, bufferevent | `pbrpc_clnt_call`, `process_response`, new, destroy | caller's thread and event thread share the list; TCP |
| `rpc/pbc/pbrpc-svc.c` | callout list `svc_head`, listener | `pbrpc_svc_register`, `rpc_invoke_call`, `process_request`, framing filter | task threads register, server thread walks |
| `rpc/rpc_svc.c`, `rpc/rpc_clnt.c` | thread, `svc`/`clnt` pointer | create, set, start, stop, destroy | pointer published to other threads |
| `load/load_core.c` | pointers to all tasks | start server, watchdog, tasks; loop | creates every thread |
| `load/load_vmon.c`, `load_demo.c`, `load_node_state.c` | thread, `cond` | register a method, answer it | handlers run on the server thread |
| `load/load_system.c`, `vmp/vmp_nmon.c` | two sample buffers, latest figures | sample every second | unlocked reads by the node state handler |
| `rpc/service-*.c`, `rpc/clnt_*.c` | per-call context | pack, call, unpack, callback | stubs around client and server |
| `app/vmp-daemon.c` | SIGCHLD handler | reap one child per signal | signal |
| `rpc/service/*.pb-c.c` | field tables | init, pack, unpack | stubs of both sides |
| `rpc/pbc/list.h` | `next`, `prev` of heads and elements | add, delete, move, splice, append, replace, rotate | client's list of calls |
| `vmp/vmp_thread.c` | mutexes, conditions, `attr_recursive` | allocate, lock, try, wait, signal | any thread |
| `app/lmon16f.c` (nmon) | two halves of the database, cached `/proc` texts, section and first-time flags, tables of keys, disks and processes, `maxloops`, `nmon_children` | sampling loop, sections, `checkinput`, `child_start`, `interrupt` | user, `/proc`, child processes, signals |
| `support/`, older RPC files, copies of nmon | - | - | see section 7 |

What is hard here:

* **Two processes, one segment.** `dog++` and `dog = 0` race unless the semaphore
  works. Either process can be killed anywhere, also while it holds the semaphore;
  whether the kernel then gives it back depends on `SEM_UNDO` inside libvpk, which
  is not part of the repository.
* **A restart of the daemon** finds a semaphore and a segment in use and sets them
  up again.
* **Failures that are not looked at**: `semget`, `shmget`, `shmat`, fork, exec, the
  result of a write, the result of a registration.
* **Lists without locks** in the RPC client and in the RPC server (`svc_lock` is
  declared and never used).
* **Ordering by `sleep`**: the tasks assume that the server exists one second later.
* **A byte stream**: messages arrive in pieces and in bunches, and the reader trusts
  the lengths it finds.
* **Double buffering and caches** in the sampler: a reading used twice or a buffer
  mixed up gives figures that still look plausible.
* **Integer widths**: the byte `dog`, the unsigned `number`, the 32 bit call id, the
  seconds of nmon's wait.
* **Signals**: SIGCHLD is not queued, a handler may run between a fork and the store
  of the child's number, and nmon's handler blocks.
* **Tables compared by position**: nmon's disks, the daemon's network interfaces.
* **Ownership across failures**: the context of a call, a wrapper after a failed
  start.

What makes each part correct: the watchdog loses no tick and no feed, kills only a
process that has not fed for 60 ticks, always restarts, and counts streams
faithfully; at most one vmp-sa runs; the semaphore is never lost; every response
runs the callback of its own call once; every registered method is served and every
request answered; the receiving side of a connection is a queue of whole messages;
the load figures are those of the last interval, in the daemon and in nmon; a caller
is told what the handler answered; nmon's tables stay in step with what the user and
the system do. `PROJECT.json` lists the hazards line by line with the properties that
address them.

## 2. Modules

### `IpcShared` - the watchdog

One thread of the daemon (`dpc`) and a set of processes that can be vmp-sa
(`cpc`). A place name starting with `i_` is inside `ipc_shared_init`, `p_` at the
head of `ipc_shared_proc`, `t_` in a turn of its loop, `f_` in `ipc_watchdog_feed`,
`n_`, `o_`, `x_` in `ipc_stream_conn`. Increments are a read and a write, so that
whatever the semaphore does not exclude interleaves.

| Code | Model |
|---|---|
| semaphore value, `SEM_UNDO` bookkeeping, `semid` | `sem`, `semadj`, `semok` |
| `shmbuf` of each process (valid, `NULL`, `(void*)-1`) | `shmbuf` |
| segment contents, `IPC_RMID` | `dog`, `number`, `segment` |
| local `watchdog`, `thiz->shared.vmon` | `watchdog`, `vmon` |
| `cond`, `free` of the load_child object | `owner` |
| `ipc_sem_open` (with `SETALL`), `ipc_shm_open` | `SemOpen`, `ShmOpen` |
| `memset` under lock | `DaemonLock`, `DaemonClear`, `DaemonUnlock` |
| a turn of the watch loop | `DaemonLock`, `TickInc`, `TickWrite`, `TickCopy`, `DaemonUnlock` |
| `kill_app`, `vmp_run_process` | `KillApp`, `KillAppEnd`, `RunProcess`, `RunProcessFails`, `AbortEnd` |
| `ipc_shared_done`, `load_child_stop`, `load_child_done` | `SharedDone`, `Stop`, `Done` |
| the functions marked "child process" | `ShareInit`, `FeedEnter`, `ConnEnter`, `FeedWrite`, `OpenRead`, `CloseRead`, `ConnWrite`, `ChildUnlock` |
| kill, crash, end of a process; the daemon started again | `ChildExit`, `DaemonCrash`, `DaemonStart` |

`streams`, `early` and `stale` are history: what each vmp-sa has counted, what of
that a memset has wiped, what dead processes have left behind. `SemUndo` says how
libvpk calls `semop`. `Faults` names what may fail.

Two abstractions of time: seconds are not modelled, a tick is possible whenever the
loop is at its sleep; and fork and exec are one step, since `usleep(1000)` follows
the fork, so that `killall vmp-sa` finds the process by its name. A process that
`killall -9` has signalled executes nothing further.

### `Watchdog` - what it promises

The same with every operation in one step and without the semaphore: `Tick`,
`Feed`, `Count`, `Reset`, `Start`, `Exit`, `Killed`. `starved` is the decision to
kill. In the refinement mapping `alive` is the set of running vmp-sa and `starved`
holds from the write that brings the byte to the limit until `kill_app` is done.

### `PbrpcClnt` - the RPC client

The calling thread (`cpc`) and the event thread (`lpc`) over the links `next` and
`prev` of `clnt->outstanding`, store by store. Calls are named by their 64 bit id;
`nid` is the `int32_t` stored in the node, `ToInt32` its conversion, `Matches` the
comparison of the two widths. The two threads interleave freely, as they do in
`load_core_test`, which makes four calls in a row. `clashed` is history: it is set when
`list_del_init` of the last call meets a `list_add_tail` behind it, the one overlap that
damages the list (section 4). A step is a store with the loads of its operands; outside
that overlap no other thread writes what those loads read, so a finer grain would show
nothing else. `ReadRsp` may drop its response for want of memory. The server is
`ServerReply`, what `process_request` does as seen from the client: one answer per
request, in order.

### `LoadCore` - start-up, registration and dispatch

`load_core_thread` (`cpc`), `rpc_svc_thread` with its event loop (`spc`) and one
thread per task (`tpc`). The callout list is `svc_head` and `sc_next`; linking a
callout and publishing it are two steps, and so are the steps of a walk.
`Prompt` is the assumption behind `sleep(1)`. Two tasks may be between the two steps at
once, and then the later to publish puts the earlier's callout out of the list; `raced`
is the history of who was between the steps when a callout was published, `Unraced` the
callouts nobody has since put out in this way, and `known` those when a walk began.
The core thread's client test mode is left out.

### `Framing` - messages on a connection

The filter and the read callback that server and client share. A byte is the number
of its message and its place in it, so a length read at a wrong place is any number
(`Lengths`) and a reader out of step is seen. `Arrive` delivers any number of bytes;
`FilterStop` and `FilterMove` are the two outcomes of `filter_pbrpc_messages`;
`ReadCb`, `Proc` and `ReadCbEnd` are `generic_read_cb`. How libevent calls them is
external: the filter as long as it moves something and data is left, the read
callback once if anything was moved, and the filter's `BEV_ERROR` is no more than
"moved nothing". The abstract `MsgQueue` says what `xdr->proc` may rely on: the
messages in order, whole and once. The mapping counts what was written (`Len(body)`)
and what was handed over (`done`).

### `LoadSystem` - the sampler and the node state handler

`system_net_proc` reading by reading and store by store (`spc`), and the handler's two
reads of the memory figures (`hpc`). What a file says at a reading is any member of
`Tables`, `Time` or `Memory`, but that the clock has ticked since the last. `p` and `which` are the buffer
switch, `read` and `proc_cpu_done` the flags of the caches, `lastRx`, `lastCpu` and `lastFree` the history of what was read. The
share of idle time is the pair that is divided. Time counters are taken modulo
`CpuMod`, and less than one turn passes between two readings. A slot that was never
written gives any rate; the uninitialised `proc[]` may end the daemon (`StartFault`).

### `Wire` and `Calls` - a call from end to end

`Wire` has the four methods' messages: a structure is a function of its fields, a
packed message the function of the fields that are in it, and unpacking refuses one
that lacks a required field. The conversions of the stubs (`DemoCall`, `DemoExec`,
`DemoInfo` and their like) go field by field; unsigned fields are taken
modulo `UIntMod`.

`Calls` puts a client process (`load_core_test`) and a server process side by side:
creation and start of the wrappers, the threads that publish `clnt` and `svc`,
connection, registration, the four calls, dispatch and the reply callbacks. The two
unlocked lists, which `PbrpcClnt` and `LoadCore` take apart store by store, are sets
here, so that a call or callout lost to their races is not lost again here, and the
connection is the queue that `Framing` implements. A read callback takes all that has
arrived (`batch`), or without memory leaves it there until more arrives (`left`).

| Code | Model |
|---|---|
| `vmp_rpcsvc_create`, `vmp_rpclnt_create`; `_start` with its failure path (stop, destroy, free) | `Create`, `Start_` |
| `rpc_svc_thread`, `rpc_clnt_thread`; publication of `svc` | `New`, `Share` |
| connection made, refused, lost | `Connect`, `Disconnect` |
| `load_*_register` | `Register` |
| `generic_read_cb` of either side | `Read`, `Take` |
| `process_request` with `rpc_invoke_call` and the handler | `Serve` with `Answer` |
| `clnt_*_call`, `rpc_clnt_*`, `pbrpc_clnt_call` | `Call` with `Send`, `Fail`, `Skip` |
| `process_response`, `*_reply_cb` | `Reply` with `RunCallback` |

Memory may run out at these places, and the code then does what the model does: for the
wrapper (the server does without, the client's core thread uses NULL); for a handler
(NULL is written to) or a callout (the registration does not come); for the context or
the packed request (NULL is written to), the method's name or the entry (-1, the context
is nobody's), the written request (dropped, 0 is returned); in a read callback (all is
left lying); for the unpacked request (used all the same), the result (an empty one is
sent), the reply (none is sent); for the response (dropped, the call stays outstanding)
and in the stub for the unpacked result (the caller is told -1). `dropped` and `starved`
are the history of the calls this has happened to.

The registry call is for a method that the daemon registers nowhere: it is the case
of the empty answer. What a use of freed memory does is open: the process may go on
or end.

### `Reaper` - the daemon's children

`load_child_thread` with fork and exec as two steps, so that `killall` may come
before the exec, and the SIGCHLD handler of `vmp-daemon.c`, which waits for one
child per signal. The protocol on the segment is `IpcShared`'s; here the watch
returns whenever it likes. `merged` and `missed` are history.

### `ListHead` - list.h

Every function of the header as assignments to the links, in the header's order,
beside the sequence that a caller takes each list to be (`list`). An element of a list
is named by its place in it. A head whose elements were moved without an `_init` is
`stale`; callers leave it alone until they initialise it. `list_add_order` walks back
from the tail one cell at a time (`OrderBegin`, `OrderBack`, `OrderAdd`; `walk` is the
walk under way), while the caller's view says at once where the element belongs.

### `Threads` - vmp_thread

One lock, one condition, several threads. `attr` says whether
`vmp_use_pthreads_init` has run, which decides whether a lock asked to be recursive
is; a wait releases one level. `leaving` marks a thread on its way out, which takes
the lock no more before it has released every level.

### nmon: `NmonLoop`, `NmonKeys`, `NmonDisks`, `NmonProcs`, `NmonSignals`

`NmonLoop` is `main` from the start of the samples to `switcher`, one action per
section, in the order of the code. A sample is abstracted to its age in loops: 0 is
this loop, 1 the last, 2 older, 3 never taken. A rate is right when it is taken from
ages 0 and 1 or from a sample copied to the other half. `shown` are the `show_`
flags, `first` the `_first_time` flags, `db` the two halves and the cached texts;
`rep` is the rate a section has just shown, `heads` and `rows` what a recording
contains; the rows `CPUUTIL%03d` are told apart by their number, since their headings
are numbered from 1 and the rows from 0 (`Util`). A session says how nmon is used: screen, file or rrd, which keys, which
options, which `/proc` files are missing, how many CPUs come and go.

`NmonKeys` is the wait and `checkinput`, key by key, with the tables that keys
change: descriptors of mount points, ring of the long-term graph, command lines of
`ps`. `NmonDisks` has the two disk tables, compared by position and filled line by
line (`DiskSection`, `ReadLine`, `Show`), and the disk groups. `NmonProcs` has the growing tables of processes. `NmonSignals` is a
recording with the commands of `NMON_START` and `NMON_SNAP`, the commands that
`linux_bbbp` runs for the header and the `ps` of `args_output`, which are children of
`popen` that `pclose` or the handler reaps, the sleep and the handler `interrupt`. Each of the five is
a model of its own: what `NmonKeys` and `NmonDisks` refine is only a switch or a
sample to `NmonLoop`.

### Modules for TLC

`MCIpcShared`, `MCPbrpcClnt`, `MCLoadCore`, `MCFraming`, `MCLoadSystem` and `MCCalls`
hold the fault sets, the symmetry set, the task order and the tables of the runs.
`NmonProgram` puts the five modules of nmon together, and `Support` `Reaper`, `Threads`
and `ListHead`: these share no state, so an initial state chooses the part and the
others stand still, and a property is claimed for its part. Both are checked by one run
and proved about as they are; `MCNmon` and `MCSupport` give them their values.
Definitions such as `SemOpenUnset` or `LinkHeadForgotten` are deliberate slips, each
beside the definition it distorts; no specification uses them, they show that the
properties notice.

## 3. Runs

| Run (cfg) | Instance | Result |
|---|---|---|
| `ipc_safety` (`IpcSharedSafety`) | 2 processes, limit 2, count mod 3, 1 stream, undo, exec/fork/shm failures, daemon crash and one restart | `TypeOK`, `MutualExclusion`, `AtMostOneChild`, `StreamCount`, `UndoFreesLock` hold; about 3.3 million states |
| `ipc_refines` (`IpcSharedRefines`) | limit 3, exec/fork failures | implements `Watchdog`; about 114,000 states |
| `ipc_live` (`IpcSharedLive`) | undo, semaphore and segment may fail to open, fairness | `ChildRecovers`, `HungChildIsKilled`, `StopReturns`, `CountIsReported` hold |
| `clnt_calls` (`PbrpcClntCalls`) | 5 calls of which 3 have an id that fits, every interleaving of the two threads, memory, write and connection faults, fairness | `ResponseMeetsCall`, `AnsweredIsCalled` hold; about 56,000 states |
| `clnt_overlap` (`PbrpcClntOverlap`) | 3 calls, nothing fails | `AnswerFindsCall` violated |
| `core_serves` (`LoadCoreServes`) | the 3 tasks and an unknown method, bind and memory faults, sleep not trusted, fairness | `RegistrationKept`, `KnownIsServed`, `RequestIsAnswered`, `TasksRegister` hold; about 7,700 states |
| `core_assert` (`LoadCoreAssert`) | bind may fail, sleep trusted | `SvcIsSet` violated |
| `framing` (`Framing`) | header 2, bodies up to 2, 4 messages, memory and connection faults, fairness | `NoOverrun`, `EveryMessageTaken` hold, implements `MsgQueue`; about 23,000 states |
| `sampler` (`LoadSystem`) | 2 slots and tables of 0, 2 and 3 interfaces, idle and busy time modulo 2, 2 values of free memory, fairness | `CpuOfInterval`, `TrafficOfInterval`, `AnswerWithinTotal`, `MemoryCatchesUp` hold; about 508,000 states |
| `calls` (`Calls`) | 4 calls, 4 bit integers, memory, thread, bind and connection faults, fairness | `ContextOwned`, `AnswerIsHandlers`, `CallAccounted`, `CallEnds` hold; about 158,000 states |
| `nmon` (`Nmon`) | 19 sessions of `NmonLoop`, 10 sets of keys, 4 disks for 3 entries, 3 processes, 3 loops with 5 children, fairness | `RateIsOfInterval`, `HeadingBeforeRow`, `ErrorsFade`, `KeysTables`, `KeysAreRead`, `DisksCompared`, `ProcsInBounds`, `SnapKilled`, `UsrStops` hold; about 234,000 states |
| `support` (`Support`) | 2 threads with depth 2, 2 heads and 3 elements, 3 children, fairness | `TimedWaitReturns`, `LinksAreLists`, `ZombiesAreMergedSignals`, `OneChildUnlessExecLate` hold; about 44,000 states |

Why the bounds suffice. Two processes are what it takes to have an old and a new
vmp-sa at once, and names are reused after death. The limit only has to be larger
than 1 to tell a first tick from the last; 3 in `ipc_refines` leaves a feed in the
middle. `DogMod` is above the limit, as 256 is above 60. With `NumberMod` 3
and one stream the count wraps below 0, and `ipc_refines` has two streams and 4.
`ipc_safety` runs with undo and `ipc_refines` without; `Exclusion` is proved for both.
Five calls let a node be unlinked at the head, in the
middle and at the tail of the list; `IdHalf` 4 brings 2^31 within reach.
The tasks are the real three. A header of 2 bytes can be cut in the middle, bodies of
0, 1 and 2 bytes make messages of different lengths, and 4 of them let one be left
over after a failed allocation, one be half there and one be behind it. Three
interfaces for two slots reach the cap of `vmp_proc_net`, none stands for a file
that cannot be opened; counters that are 0 or 1 rise, stay and fall.

In `calls` the calls are the four that `load_core_test` makes, and the handlers'
answers have distinct values, one of them with the highest bit of an unsigned
integer set. The sessions of
`nmon` pair the sections that share a sample, a text or a first-time flag; one CPU
that comes and goes reaches the headings of added CPUs and the CPUUTIL rows of CPUs
that have none, and the missing files are
the two the code tests for. A ring of 2 entries wraps, 4 bit seconds overflow after
two doublings, 3 typed keys put `0' in front of, at and behind the number of disks.
Four disks for three entries fill the table, and the groups have an unknown name in
front, in the middle and not at all. With two other processes and room for one more
the table of processes is filled to the last entry and grows. Three loops let a
command outlive its loop, be killed in the next and be reaped late. Three elements
give every list shape in which a first, a middle and a last one differ; equal keys
occur. Three children let one be missed, one be killed and one run.

**No deadlock check**: the systems may stop. The daemon ends after `load_child_done`
or `exit(-1)`, the client has made all its calls, the server's thread ends when its
port is taken, the peer has written all its messages or the connection is gone, or
the uninitialised `proc[]` has ended the daemon.

**Fairness.** A thread that can run keeps running (weak fairness of the daemon's
thread, of the caller, the event thread, the tasks, and of a vmp-sa that is inside
one of the functions of `ipc_shared.c`). Strong fairness is assumed for
`DaemonLock` alone: Linux queues the waiters of a System V semaphore, so a daemon
that waits while vmp-sa takes and releases it over and over gets its turn. Nothing
makes vmp-sa start a call, end, or feed; nothing makes a client send; nothing makes
`load_child_stop` be called. That a request the client has sent is answered is
weak fairness of `ServerReply`. In `Framing` the event thread runs and the network
delivers as long as the connection lives; in `LoadSystem` the sampler
runs. Nothing makes a peer write or a request come. In `Calls` the threads run and a
connection is made or refused; nothing makes it break, and nothing makes a task
register, since it may have been refused for want of memory. nmon's loop runs, and its
wait reads keys; in `NmonSignals` signals are delivered, `ps` ends and (strong
fairness of `Sleep` and `HeaderEnd`) a loop asks `ps` for finitely many processes and a
header runs finitely many commands, while the command
of `NMON_SNAP` may run for ever. In `Threads` a holder gives the lock back, time
passes, and a thread is not passed over for ever at a lock that is free again and
again (strong fairness of `Acquire` and `Reacquire`). Nothing makes a thread take a
lock or signal.

Conditions inside the properties name what the code does not give: the exclusion
and the count are claimed for a semaphore that could be opened and a daemon that
was not restarted; the liveness properties allow `Orphaned`, a semaphore taken by a
dead process, and `UndoFreesLock` shows that this state does not occur with
`SEM_UNDO`. Without `SEM_UNDO` it does occur. `RegistrationKept` and
`KnownIsServed` except a callout that a task put out of the list which was between its
two accesses to `svc_head` when the callout was published;
`EveryMessageTaken` but for a read callback that found no memory (`nomem`), whose
messages do wait for the next data; `ResponseMeetsCall` and `AnsweredIsCalled` for
ids below 2^31, above which a response is dropped, and until `clashed`; `TrafficOfInterval` while the
number of interfaces stays the same, since the slots are compared by position;
`AnswerWithinTotal` for requests after the first sample, since one that straddles it
subtracts from 0; `CpuOfInterval` rests on a clock that ticks between two samples.

The same holds of the others, and each exception does occur in its model:
`ContextOwned` lets the context of a call that returned -1 live on, because nobody
frees it. `AnswerIsHandlers` lets a served call be told -1 when its stub has no memory to
unpack the result. `CallAccounted` lets an entry stay whose connection was lost or whose
message found no memory, and `CallEnds` excepts these, a process that has ended, and a
message that a read callback without memory left and that nothing came after. What a
process does with a wrapper that a failed `pthread_create` has freed is in the model, and
no property claims that it is not used.
`RateIsOfInterval` excepts the first NFS rate of a file that appears late or of the rrd
mode; `HeadingBeforeRow` (in `Excused`) the VM row without `/proc/vmstat`, NFS that starts late,
the row `CPUUTIL000`, whose heading is never written since the headings go from 1 to
`cpus` and the rows from 0 to `cpus - 1`, and the CPUUTIL rows of CPUs that were not there
all the time, since these headings are written once.
`KeysAreRead` excepts `0' typed behind more keys than there are disks, which makes
the scan start again for ever, and `+' that has overflowed. `DisksCompared` excepts
what lies behind a disk's first transfer and a group with an unknown name in front.
`SnapKilled` excepts a command reaped before its number was stored, `UsrStops` a
handler that waits for a command that does not end. `OneChildUnlessExecLate` excepts a child
that `killall` missed. `TimedWaitReturns` excepts a thread that waits on a lock it
holds twice, and one that takes a normal lock twice.

## 4. What the violated properties show

* `AnswerFindsCall`: a call linked behind a node that is being
  unlinked disappears from the list; its response is dropped.
* `SvcIsSet`: `if (thiz->svc)` tests the wrapper and not the server in it; when the
  port is taken the assertion in `pbrpc_svc_register` ends the daemon.

## 5. Proofs

Eight modules hold proofs, one beside the module of each component or composition. Every safety theorem is
`Spec => []P` for an inductive invariant that was first checked by TLC on the run's
instance; each has a lemma per action or group of actions, and below it a step per
conjunct that the action can disturb. The assumptions are the named `ASSUME`s of the
modules, which TLC evaluates on every run.

**`IpcSharedProofs`**, for every set of processes, every limit below the byte's range,
every modulus and bound and (but for `Refinement`) every set of faults:

* `TypeCorrect`: `TypeOK`. Strengthened by `RegOK`, what the register of
  an increment in progress holds; without it the write could leave the type.
* `OneChild`: `AtMostOneChild`. `ChildInv` adds that nothing runs at the
  places from which the daemon forks.
* `Exclusion`: `MutualExclusion`. `LockInv` adds that the semaphore is 0
  or 1, that at 1 nobody is in a critical section, and that each process's undo is
  exactly what it owes: without the last part the exit of a process could raise the
  semaphore above 1.
* `Refinement`: `Clean => (Spec => ImplementsWatchdog)`, where `Clean` says that only
  fork and exec may fail and the daemon is not restarted. `CountInv` adds that the
  register of an increment in progress is still one more than the memory it came
  from, which follows from exclusion, and that the byte is below the limit while the
  loop goes on, so that it never wraps.
* `CountExact`: `StreamCount`. `StreamInv` adds that the register of
  `ipc_stream_conn` is still next to the number it was read from, and that a process
  that does not exist has counted nothing. The arithmetic modulo `NumberMod` rests on
  the uniqueness of quotient and remainder (`Remainder` and the lemmas after it).
* `LockIsFreed`: `UndoFreesLock`. Exclusion is not enough here, since a daemon
  started over another's remains sets the semaphore while a vmp-sa is inside a
  section. `UndoInv` adds the balance: the semaphore plus what all exits would give
  back is at least 1 as long as the daemon uses it. That is a sum over processes,
  written as the difference of two cardinalities; hence `IsFiniteSet(Child)`.

**`FramingProofs`**, for every header size, every length of message, any number of
messages and any cutting of the stream: `NeverOverrun` (`NoOverrun`) and
`QueueRefinement` (`Spec => ImplementsQueue`). `StreamInv` says that the callback, the
two buffers and the wire together carry one run of bytes, from the first message that
was not handed over to the last that was written, with whole messages in the callback
and behind the filter. A run is defined over all pairs of its bytes and not over
neighbours, so that splitting and joining runs needs no induction.

**`LoadSystemProofs`**, for any number of slots, any tables and any modulus:
`ShareOfInterval`, `RateOfInterval` and `AnswerBounded`. The invariants say, for every
point of `system_net_proc`, which of the last two readings each buffer holds:
`data_switcher`'s static lags behind `p` before the first exchange (`SwitchInv`), and
the figures are right only because both buffers are alike until then. `Undef \notin Nat`
separates what was never written.

**`CallsProofs`**, for every set of faults and every modulus of the unsigned fields:
`ContextIsOwned`, `AnswersAreHandlers` and `CallsAreAccounted`, from
`CallsInvariant`: a call is on the connection at most once, as a request or as a
response, it is then in the list of outstanding calls with a live context, and only the
response of a call that was served carries its handler's result. `BatchInv` adds that what
a read callback has taken or left is still there, so that `Serve` and `Reply` have a
message to take, and `ListedInv` the other direction: an entry whose message is neither
under way nor dropped belongs to a lost connection.

**`PbrpcClntProofs`**, for any number of calls, any width of `rpc_node.id`, any faults
and every interleaving of the two threads: `OutstandingIsSorted` is
`[](clashed \/ Sorted)`, the invariant, and `ResponsesMeetTheirCalls` is
`ResponseMeetsCall`. `InOrder` says that the successor of a node is the least call above
it, which `OrderAdd` and `OrderTake` show for the two functions of `list.h`. In the
middle of an insertion, a removal or both, `ListInv` describes the list that the stores
still to come will make; the stores of the two functions commute as long as the removed
call is not the last, and when it is, the second to store sets `clashed`. The search
stays at or below the call of its response (`ScanInv`). That order is also why an id that
has wrapped to a small positive `int32_t` is not taken for another: the search stops
before it gets there.

**`LoadCoreProofs`**, for every order of tasks, every set of methods and faults, and
whether or not `sleep(1)` is long enough: `RegistrationsAreKept` (`RegistrationKept`)
and `KnownAreServed` (`KnownIsServed`). What a walk meets is the least set of pointers
that is closed under `sc_next` (`Meets`), so the proofs argue with closed sets where a
recursive definition would need an induction. `KeptInv` adds that a callout about to be
published still leads to every callout whose publication it has not raced with,
`WalkInv` that a walk has the method it looks for
ahead of it; linking a callout outside the list changes nothing a walk can reach
(`MeetsKept`).

**`SupportProofs`**:

* `ZombiesBounded` (`ZombiesAreMergedSignals`) and `OneApplication`
  (`OneChildUnlessExecLate`), for every finite set of process ids, with the additions
  that a merged signal is of a child that has ended, and that whatever is alive when
  vmp-sa is to be started was missed by `killall`.
* `LinksHold` (`LinksAreLists`), for any heads and elements, any keys and any order of
  calls. `CellsAssumption` says that no cell is a head and an element, and that keys are
  integers. The property speaks of one list at a time and is not inductive, since a call
  on one list could write to another's cells. `Whole` adds what callers rely on: an
  element is in one list at most and there once, and a stale head has none. Then the
  cells that `Join` and `Unlink` write are known (`JoinLinks`, `DelLinks`,
  `ReplaceLinks`), a list that has none of them is untouched (`FrameRound`), and the
  rings with an element more, less or exchanged are closed again (`InsertRound`,
  `RemoveRound` and the lemmas after them). `Walked` says that `list_add_order` has
  passed only greater elements, which is why its result is the sorted place.

**`NmonProofs`**, about each part of `NmonProgram`:

* `RatesAreOfInterval` (`RateIsOfInterval`) and `HeadingsComeFirst`
  (`HeadingBeforeRow`), for every session. The invariant says what has been sampled at
  each of the 23 places of the loop (`DoneInv`), that the previous half is of the last
  interval for the sections that were on (`PrevInv`), how cached texts and copies relate
  to the halves (`DbInv`), and which headings a recording has (`HeadInv`).
* `TablesAreWhatKeysAsk` (`KeysTables`), for every set of keys, mount points and
  processes and all sizes of the ring and of the list. `KeysInv` has a part per table:
  while file systems are shown all of them have a live descriptor (`JfsInv`); the ring
  read from its index is the last samples (`SnapInv`), which needs the arithmetic of an
  index taken modulo the size; the entries of processes come first in `arglist` and end
  before the first mark (`ArgsInv`), so that `args_lookup` does not stop short.
  `KeysAssumption`: a number that `ps` lists is positive, as 0 and -1 are marks.
* `DisksAreCompared` (`DisksCompared`), for every file of disks, every group and every
  `DISKMAX`. Where a line ends up is the number of lines kept before it, a cardinality
  (`Pos`), so that two readings put a disk at the same place when they keep the same
  lines before it; no fold and no induction is needed. `BeingRead` says this of the table
  that is being filled, `WasRead` of the finished ones, and `GroupStored` that a group's
  position is where its disk was at the start. `DisksAssumption`: a disk has one line.
* `ProcessTablesInBounds` (`ProcsInBounds`), for every finite set of processes and every
  growth. `Reading` adds that the processes still to be read are not in the table, and
  that the reading goes on only while there is room.
* `SnapKilledIsChild` (`SnapKilled`), for any number of commands. `SignalsInv` adds that
  commands are started in order, that the number stored is of a command that was
  started, and that one forked and not yet stored is a child of nmon or was reaped early.

Some leaves name a longer time limit (`SMTT`); no other pragma is needed but `Zenon`
and `PTL`.

Every invariant and every refinement that a passing run checks is stated by a theorem.
Only model-checked are the liveness properties, which are out of the prover's reach:
`ChildRecovers`, `HungChildIsKilled`, `StopReturns`, `CountIsReported`,
`AnsweredIsCalled`, `RequestIsAnswered`, `TasksRegister`, `EveryMessageTaken`,
`MemoryCatchesUp`, `CallEnds`, `ErrorsFade`, `KeysAreRead`, `UsrStops` and
`TimedWaitReturns`.

## 6. Plan

1. **Watchdog** (`IpcShared`, `Watchdog`): done.
2. **RPC client** (`PbrpcClnt`), **server and start-up** (`LoadCore`), **framing**
   (`Framing`, `MsgQueue`), **sampler and node state** (`LoadSystem`): done.
3. **Life cycle and end to end** (`Wire`, `Calls`): done.
4. **Children and signals of the daemon** (`Reaper`), **lists** (`ListHead`),
   **threads** (`Threads`): done.
5. **nmon** (`NmonLoop`, `NmonKeys`, `NmonDisks`, `NmonProcs`, `NmonSignals`): done
   but for what section 7 names.
6. **Theorems**: done for every invariant and refinement of the runs (section 5).

## 7. Not modelled

* `support/`: set once before the threads start, and logging.
* `service-server-registry.c`: the daemon does not register it; the client's call to
  it is in `Calls`.
* The older `pbrpc_client.c`, `pbrpc_server.c`, `app/rpc-client.c`,
  `app/rpc-server.c` and the demo programs under `rpc/service/`: predecessors.
* `samples/lmon16f.c` is an older copy of `app/lmon16f.c`, `app/nmon_cpu.c` and
  `app/nmon_net.c` are excerpts of it, `app/time-test.c` is a manual test.
* Of nmon: layout and wording of the screen and of the recording, the parts compiled
  for POWER and for GPUs, the parsing of `/proc` texts (each is the figures in it), disks that appear or go while nmon runs (in
`NmonDisks` the file has the same disks at every reading, and only their transfers vary),
  `proc_disk_io` for kernels 2.4, option parsing beyond the switches it sets,
  SIGWINCH, which redraws.
* Packed bytes of protocol buffers: libprotobuf-c's.
* `ipc_shared_vmon`, `vmp_waitpid`, `vmp_proc_net_stat`, `load_system_destroy`,
  `pbrpc_clnt_destroy`, `pbrpc_svc_unregister` and `pbrpc_svc_destroy` are reached by
  no path of the programs. The teardown in `load_core_thread` cannot be reached:
  nothing clears its `cond`, and `load_start` never returns.
* `load_child_stop` is modelled but nobody calls it; if it were called, the thread
  would start vmp-sa once more and remove the semaphore and the segment under it,
  against the comment in `vmp_shared.c:121`. A 64 bit call id above 2^31 and a
  failed `rpc_write_request`, which `pbrpc_clnt_call` reports as success, are in
  `PbrpcClnt` and named in the conditions above.
