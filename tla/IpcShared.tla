------------------------------ MODULE IpcShared ------------------------------
(***************************************************************************)
(* The watchdog of vmp-rl.  The daemon's load_child thread starts the      *)
(* streaming application vmp-sa, counts up a "dog" byte in a System V      *)
(* shared memory segment once a second, and kills and restarts vmp-sa when *)
(* the byte reaches DogLimit; vmp-sa clears the byte (ipc_watchdog_feed)   *)
(* and counts its video streams in the same segment (ipc_stream_conn).     *)
(* One System V semaphore guards the segment.                              *)
(*                                                                         *)
(* Sources: ipcs/ipc_shared.c, vmp/vmp_shared.c, vmp/vmp_process.c and     *)
(* load/load_child.c.  dpc is the place of load_child_thread (inside the   *)
(* functions it calls), cpc[c] the place of a vmp-sa process c.  A loop    *)
(* turn of ipc_shared_proc is four steps, a call of ipc_stream_conn three, *)
(* so that whatever the semaphore does not exclude can interleave.         *)
(***************************************************************************)
EXTENDS Integers, FiniteSets

CONSTANTS
    Child,        \* the processes that can run vmp-sa
    Daemon,       \* the load_child thread of the daemon
    DogLimit,     \* 60 in ipc_shared_proc
    DogMod,       \* 256: proc_status.dog is an unsigned char
    NumberMod,    \* 2^32: vmon_connection_t.number is an unsigned int
    MaxStreams,   \* bound: streams one vmp-sa has open at a time
    MaxRestarts,  \* bound: how often a dead daemon is started again
    SemUndo,      \* whether vpk_sem_p and vpk_sem_v pass SEM_UNDO
    Faults        \* the system calls that may fail, and daemon crashes

ASSUME ProcAssumption == Daemon \notin Child /\ IsFiniteSet(Child)
ASSUME DogAssumption == /\ DogLimit \in Nat \ {0}
                        /\ DogMod \in Nat
                        /\ DogLimit < DogMod
ASSUME NumberAssumption == /\ NumberMod \in Nat \ {0}
                           /\ MaxStreams \in Nat \ {0}
ASSUME RestartAssumption == MaxRestarts \in Nat
ASSUME FaultAssumption == /\ SemUndo \in BOOLEAN
                          /\ Faults \subseteq {"sem", "shm", "exec", "fork",
                                         "crash"}

Procs == Child \cup {Daemon}

VARIABLES
    sem,       \* value of the semaphore
    semadj,    \* what the kernel adds to sem when the process exits
    semok,     \* the processes whose vmp_shmdev_t.semid names the semaphore
    shmbuf,    \* vmp_shmdev_t.shmbuf: "ok", "null", or "bad" for (void*)-1
    segment,   \* the shared memory: "live", or "removed" with IPC_RMID
    dog,       \* g_data->appstatus.proc.dog
    number,    \* g_data->vmon.number
    dpc,       \* where load_child_thread is
    cpc,       \* where each vmp-sa is, "dead" when there is no such process
    reg,       \* register of the increment in progress
    watchdog,  \* local of ipc_shared_proc
    vmon,      \* thiz->shared.vmon, what load_child_connection_get returns
    owner,     \* the load_child object: "live", "stopping" (cond = 0), "freed"
    restarts,  \* how often the daemon has been started again
    streams,   \* streams each vmp-sa has counted and not uncounted
    early,     \* those of them that the last memset forgot
    stale      \* counts since the last memset that dead processes left behind

semVars   == <<sem, semadj, semok>>
shmVars   == <<dog, number, segment>>
ghostVars == <<streams, early, stale>>
localVars == <<reg, watchdog, vmon>>
hostVars  == <<shmbuf, owner, restarts>>
vars == <<semVars, shmVars, ghostVars, localVars, hostVars, dpc, cpc>>

DaemonLabels == {"sem_open", "shm_open", "i_lock", "i_clear", "i_unlock",
                 "run0", "loop", "p_lock", "p_clear", "p_unlock", "watch",
                 "t_inc", "t_write", "t_copy", "t_unlock", "kill", "run",
                 "abort", "done", "ended", "dead"}
ChildLabels == {"dead", "boot", "up", "f_write", "f_unlock",
                "n_read", "o_write", "x_write", "n_unlock"}

\* The places between a shm_lock and the shm_unlock that follows it.
DaemonCS == {"i_clear", "i_unlock", "p_clear", "p_unlock",
             "t_inc", "t_write", "t_copy", "t_unlock"}
ChildCS  == {"f_write", "f_unlock", "n_read", "o_write", "x_write", "n_unlock"}

Alive == {c \in Child : cpc[c] # "dead"}
Holding(p) == IF p = Daemon THEN dpc \in DaemonCS ELSE cpc[p] \in ChildCS

TypeOK ==
    /\ sem \in Nat
    /\ semadj \in [Procs -> Int]
    /\ semok \subseteq Procs
    /\ shmbuf \in [Procs -> {"ok", "null", "bad"}]
    /\ segment \in {"live", "removed"}
    /\ dog \in 0 .. DogMod - 1
    /\ number \in 0 .. NumberMod - 1
    /\ dpc \in DaemonLabels
    /\ cpc \in [Child -> ChildLabels]
    /\ reg \in [Procs -> Nat]
    /\ watchdog \in 0 .. DogMod - 1
    /\ vmon \in 0 .. NumberMod - 1
    /\ owner \in {"live", "stopping", "freed"}
    /\ restarts \in 0 .. MaxRestarts
    /\ streams \in [Child -> 0 .. MaxStreams]
    /\ early \in [Child -> 0 .. MaxStreams]
    /\ stale \in 0 .. NumberMod - 1

\* load_child_create and load_child_start: the object is allocated with
\* cond = 1, its thread is about to run, no segment exists.
Init ==
    /\ sem = 0
    /\ semadj = [p \in Procs |-> 0]
    /\ semok = {}
    /\ shmbuf = [p \in Procs |-> "null"]
    /\ segment = "live"
    /\ dog = 0
    /\ number = 0
    /\ dpc = "sem_open"
    /\ cpc = [c \in Child |-> "dead"]
    /\ reg = [p \in Procs |-> 0]
    /\ watchdog = 0
    /\ vmon = 0
    /\ owner = "live"
    /\ restarts = 0
    /\ streams = [c \in Child |-> 0]
    /\ early = [c \in Child |-> 0]
    /\ stale = 0

-----------------------------------------------------------------------------
(* The semaphore: vpk_sem_p, vpk_sem_v and what the kernel does for them.   *)

Undo(n) == IF SemUndo THEN n ELSE 0

\* shm_lock blocks while the value is 0; on an id that names nothing it fails
\* at once and every caller goes on regardless.
Lock(p) ==
    \/ /\ p \in semok
       /\ sem > 0
       /\ sem' = sem - 1
       /\ semadj' = [semadj EXCEPT ![p] = @ + Undo(1)]
       /\ UNCHANGED semok
    \/ /\ p \notin semok
       /\ UNCHANGED semVars

Unlock(p) ==
    \/ /\ p \in semok
       /\ sem' = sem + 1
       /\ semadj' = [semadj EXCEPT ![p] = @ - Undo(1)]
       /\ UNCHANGED semok
    \/ /\ p \notin semok
       /\ UNCHANGED semVars

\* What the kernel does with the semaphore when process p exits.
ExitSem(p) ==
    /\ sem' = IF sem + semadj[p] < 0 THEN 0 ELSE sem + semadj[p]
    /\ semadj' = [semadj EXCEPT ![p] = 0]
    /\ semok' = semok \ {p}

\* A vmp-sa ends, killed or by itself; its counts stay in the segment.
ExitChild(c) ==
    /\ cpc' = [cpc EXCEPT ![c] = "dead"]
    /\ ExitSem(c)
    /\ shmbuf' = [shmbuf EXCEPT ![c] = "null"]
    /\ stale' = (stale + streams[c] - early[c]) % NumberMod
    /\ streams' = [streams EXCEPT ![c] = 0]
    /\ early' = [early EXCEPT ![c] = 0]
    /\ UNCHANGED <<shmVars, localVars, owner, restarts>>

\* memset(g_data, 0, sizeof(ipc_shmdata_t)) zeroes the dog and the count.
Memset ==
    /\ dog' = 0
    /\ number' = 0
    /\ early' = streams
    /\ stale' = 0
    /\ UNCHANGED <<segment, streams>>

-----------------------------------------------------------------------------
(* The daemon: load_child_thread.                                           *)

\* Slips that the properties below must notice are written out next to the
\* definition they are slips of; no specification uses them.
SemOpenUnset ==
    /\ dpc = "sem_open"
    /\ dpc' = "shm_open"
    /\ semok' = semok \cup {Daemon}
    /\ UNCHANGED <<sem, semadj, shmVars, ghostVars, localVars, hostVars, cpc>>

\* ipc_sem_open(.., 1): SETALL puts the value to 1 and voids every process's
\* pending undo.  A failure leaves semid = -1, which nothing looks at.
SemOpen ==
    /\ dpc = "sem_open"
    /\ dpc' = "shm_open"
    /\ \/ /\ sem' = 1
          /\ semadj' = [p \in Procs |-> 0]
          /\ semok' = semok \cup {Daemon}
       \/ /\ "sem" \in Faults
          /\ UNCHANGED semVars
    /\ UNCHANGED <<shmVars, ghostVars, localVars, hostVars, cpc>>

\* ipc_shm_open: a failed shmget leaves shmbuf NULL, a failed shmat sets it to
\* (void*)-1; either way ipc_shared_init returns early and the thread goes on.
ShmOpen ==
    /\ dpc = "shm_open"
    /\ \/ /\ shmbuf' = [shmbuf EXCEPT ![Daemon] = "ok"]
          /\ dpc' = "i_lock"
       \/ /\ "shm" \in Faults
          /\ \E b \in {"null", "bad"} : shmbuf' = [shmbuf EXCEPT ![Daemon] = b]
          /\ dpc' = "run0"
    /\ UNCHANGED <<semVars, shmVars, ghostVars, localVars, owner, restarts,
                   cpc>>

\* The daemon process is gone: the kernel undoes its semaphore operations.
ExitDaemon ==
    /\ dpc' = "dead"
    /\ ExitSem(Daemon)
    /\ shmbuf' = [shmbuf EXCEPT ![Daemon] = "null"]
    /\ UNCHANGED <<shmVars, ghostVars, localVars, owner, cpc>>

\* shm_lock of ipc_shared_init, of ipc_shared_proc and, after sleep(1), of a
\* turn of its loop.
DaemonLock ==
    /\ dpc \in {"i_lock", "p_lock", "watch"}
    /\ Lock(Daemon)
    /\ dpc' = CASE dpc = "i_lock" -> "i_clear"
                [] dpc = "p_lock" -> "p_clear"
                [] dpc = "watch"  -> "t_inc"
    /\ UNCHANGED <<shmVars, ghostVars, localVars, hostVars, cpc>>

\* The memset of ipc_shared_init and of ipc_shared_proc; on (void*)-1 it
\* ends the daemon with SIGSEGV.
DaemonClear ==
    /\ dpc \in {"i_clear", "p_clear"}
    /\ \/ /\ shmbuf[Daemon] = "ok"
          /\ Memset
          /\ dpc' = IF dpc = "i_clear" THEN "i_unlock" ELSE "p_unlock"
          /\ UNCHANGED <<semVars, localVars, hostVars, cpc>>
       \/ /\ shmbuf[Daemon] = "bad"
          /\ ExitDaemon
          /\ UNCHANGED restarts

TickIncNarrow ==
    /\ dpc = "t_inc"
    /\ reg' = [reg EXCEPT ![Daemon] = (dog + 1) % DogLimit]
    /\ dpc' = "t_write"
    /\ UNCHANGED <<semVars, shmVars, ghostVars, watchdog, vmon, hostVars, cpc>>

\* g_data->appstatus.proc.dog++ reads ...
TickInc ==
    /\ dpc = "t_inc"
    /\ reg' = [reg EXCEPT ![Daemon] = (dog + 1) % DogMod]
    /\ dpc' = "t_write"
    /\ UNCHANGED <<semVars, shmVars, ghostVars, watchdog, vmon, hostVars, cpc>>

\* ... and writes the byte.
TickWrite ==
    /\ dpc = "t_write"
    /\ dog' = reg[Daemon]
    /\ dpc' = "t_copy"
    /\ UNCHANGED <<semVars, number, segment, ghostVars, localVars, hostVars,
                   cpc>>

TickCopyByValue ==
    /\ dpc = "t_copy"
    /\ watchdog' = dog
    /\ dpc' = "t_unlock"
    /\ UNCHANGED <<semVars, shmVars, ghostVars, reg, vmon, hostVars, cpc>>

\* watchdog = dog; *vmon = g_data->vmon.
TickCopy ==
    /\ dpc = "t_copy"
    /\ watchdog' = dog
    /\ vmon' = number
    /\ dpc' = "t_unlock"
    /\ UNCHANGED <<semVars, shmVars, ghostVars, reg, hostVars, cpc>>

Starved == watchdog >= DogLimit

DaemonUnlock ==
    /\ dpc \in {"i_unlock", "p_unlock", "t_unlock"}
    /\ Unlock(Daemon)
    /\ dpc' = CASE dpc = "i_unlock" -> "run0"
                [] dpc = "p_unlock" -> "watch"
                [] dpc = "t_unlock" -> IF Starved THEN "kill" ELSE "watch"
    /\ UNCHANGED <<shmVars, ghostVars, localVars, hostVars, cpc>>

LoopForever ==
    /\ dpc = "loop"
    /\ dpc' = IF shmbuf[Daemon] = "null" THEN "kill" ELSE "p_lock"
    /\ UNCHANGED <<semVars, shmVars, ghostVars, localVars, hostVars, cpc>>

\* while (thiz->cond) of load_child_thread.  Without a segment
\* ipc_shared_proc returns at once and the application is restarted.
Loop ==
    /\ dpc = "loop"
    /\ dpc' = CASE owner # "live" -> "done"
                [] owner = "live" /\ shmbuf[Daemon] = "null" -> "kill"
                [] owner = "live" /\ shmbuf[Daemon] # "null" -> "p_lock"
    /\ UNCHANGED <<semVars, shmVars, ghostVars, localVars, hostVars, cpc>>

\* kill_app: killall -9 vmp-sa signals one process after another, and one that
\* has been signalled runs no further instruction.  It is called by the watch
\* loop, and by vmp_run_process before exit(-1).
KillApp(c) ==
    /\ dpc \in {"kill", "abort"}
    /\ cpc[c] # "dead"
    /\ ExitChild(c)
    /\ UNCHANGED dpc

KillAppEndEarly ==
    /\ dpc = "kill"
    /\ dpc' = "run"
    /\ UNCHANGED <<semVars, shmVars, ghostVars, localVars, hostVars, cpc>>

KillAppEndNoRun ==
    /\ dpc = "kill"
    /\ Alive = {}
    /\ dpc' = "loop"
    /\ UNCHANGED <<semVars, shmVars, ghostVars, localVars, hostVars, cpc>>

KillAppEnd ==
    /\ dpc = "kill"
    /\ Alive = {}
    /\ dpc' = "run"
    /\ UNCHANGED <<semVars, shmVars, ghostVars, localVars, hostVars, cpc>>

AbortEnd ==
    /\ dpc = "abort"
    /\ Alive = {}
    /\ ExitDaemon
    /\ UNCHANGED restarts

\* vmp_run_process: fork and exec.  A failed exec ends the new process, a
\* failed fork ends the daemon.  The usleep(1000) after the fork is taken to be
\* long enough for the exec, from which on killall knows the process by name.
RunProcess(c) ==
    /\ dpc \in {"run0", "run"}
    /\ cpc[c] = "dead"
    /\ cpc' = [cpc EXCEPT ![c] = "boot"]
    /\ dpc' = "loop"
    /\ UNCHANGED <<semVars, shmVars, ghostVars, localVars, hostVars>>

RunProcessFails ==
    /\ dpc \in {"run0", "run"}
    /\ \/ "exec" \in Faults /\ dpc' = "loop"
       \/ "fork" \in Faults /\ dpc' = "abort"
    /\ UNCHANGED <<semVars, shmVars, ghostVars, localVars, hostVars, cpc>>

\* ipc_shared_done: the semaphore is removed, which wakes its waiters with an
\* error, then the segment is detached and, if that worked, removed.
SharedDone ==
    /\ dpc = "done"
    /\ dpc' = "ended"
    /\ \/ /\ Daemon \in semok
          /\ sem' = 0
          /\ semadj' = [p \in Procs |-> 0]
          /\ semok' = {}
       \/ /\ Daemon \notin semok
          /\ UNCHANGED semVars
    /\ segment' = IF shmbuf[Daemon] = "ok" THEN "removed" ELSE segment
    /\ shmbuf' = [shmbuf EXCEPT ![Daemon] = "null"]
    /\ UNCHANGED <<dog, number, ghostVars, localVars, owner, restarts, cpc>>

\* load_child_stop clears cond; load_child_done frees the object once the
\* join has returned.
Stop ==
    /\ owner = "live"
    /\ dpc # "dead"
    /\ owner' = "stopping"
    /\ UNCHANGED <<semVars, shmVars, ghostVars, localVars, shmbuf, restarts,
                   dpc, cpc>>

Done ==
    /\ owner = "stopping"
    /\ dpc = "ended"
    /\ owner' = "freed"
    /\ UNCHANGED <<semVars, shmVars, ghostVars, localVars, shmbuf, restarts,
                   dpc, cpc>>

\* The daemon is killed at any point before its thread has ended ...
DaemonCrash ==
    /\ "crash" \in Faults
    /\ dpc \notin {"dead", "ended"}
    /\ ExitDaemon
    /\ UNCHANGED restarts

\* ... and a dead daemon is started again: a new load_child object, the old
\* segment and whatever vmp-sa was running.
DaemonStart ==
    /\ dpc = "dead"
    /\ restarts < MaxRestarts
    /\ restarts' = restarts + 1
    /\ dpc' = "sem_open"
    /\ owner' = "live"
    /\ watchdog' = 0
    /\ vmon' = 0
    /\ UNCHANGED <<semVars, shmVars, ghostVars, reg, shmbuf, cpc>>

-----------------------------------------------------------------------------
(* The application: vmp-sa uses the three functions of ipc_shared.c that    *)
(* are marked "child process"; what it does between the calls is external.  *)

\* ipc_share_init.  After ipc_shared_done it creates a new semaphore, whose
\* value is 0, and a new zeroed segment.
ShareInit(c) ==
    /\ cpc[c] = "boot"
    /\ cpc' = [cpc EXCEPT ![c] = "up"]
    /\ \/ semok' = semok \cup {c}
       \/ "sem" \in Faults /\ UNCHANGED semok
    /\ \E b \in {"ok", "null", "bad"} :
         /\ b = "ok" \/ "shm" \in Faults
         /\ shmbuf' = [shmbuf EXCEPT ![c] = b]
    /\ IF segment = "removed" THEN Memset
                             ELSE UNCHANGED <<shmVars, ghostVars>>
    /\ UNCHANGED <<sem, semadj, localVars, owner, restarts, dpc>>

\* A call returns -1 at once unless the segment is there (through (void*)-1 it
\* ends the process, see ChildExit); otherwise it begins with shm_lock.
Enter(c, at) ==
    /\ cpc[c] = "up"
    /\ shmbuf[c] = "ok"
    /\ Lock(c)
    /\ cpc' = [cpc EXCEPT ![c] = at]
    /\ UNCHANGED <<shmVars, ghostVars, localVars, hostVars, dpc>>

EnterUnlocked(c, at) ==
    /\ cpc[c] = "up"
    /\ shmbuf[c] = "ok"
    /\ cpc' = [cpc EXCEPT ![c] = at]
    /\ UNCHANGED <<semVars, shmVars, ghostVars, localVars, hostVars, dpc>>

FeedEnterUnlocked(c) == EnterUnlocked(c, "f_write")
ConnEnterUnlocked(c) == EnterUnlocked(c, "n_read")

FeedEnter(c) == Enter(c, "f_write")
ConnEnter(c) == Enter(c, "n_read")

FeedWrite(c) ==
    /\ cpc[c] = "f_write"
    /\ dog' = 0
    /\ cpc' = [cpc EXCEPT ![c] = "f_unlock"]
    /\ UNCHANGED <<semVars, number, segment, ghostVars, localVars, hostVars,
                   dpc>>

\* ipc_stream_conn: number++ when op is true and number-- otherwise, modulo
\* 2^32 and with no check.  vmp-sa only uncounts streams it has counted.
OpenRead(c) ==
    /\ cpc[c] = "n_read"
    /\ streams[c] < MaxStreams
    /\ reg' = [reg EXCEPT ![c] = (number + 1) % NumberMod]
    /\ cpc' = [cpc EXCEPT ![c] = "o_write"]
    /\ UNCHANGED <<semVars, shmVars, ghostVars, watchdog, vmon, hostVars, dpc>>

CloseReadNoWrap(c) ==
    /\ cpc[c] = "n_read"
    /\ streams[c] > 0
    /\ reg' = [reg EXCEPT ![c] = number - 1]
    /\ cpc' = [cpc EXCEPT ![c] = "x_write"]
    /\ UNCHANGED <<semVars, shmVars, ghostVars, watchdog, vmon, hostVars, dpc>>

CloseRead(c) ==
    /\ cpc[c] = "n_read"
    /\ streams[c] > 0
    /\ reg' = [reg EXCEPT ![c] = (number - 1) % NumberMod]
    /\ cpc' = [cpc EXCEPT ![c] = "x_write"]
    /\ UNCHANGED <<semVars, shmVars, ghostVars, watchdog, vmon, hostVars, dpc>>

ConnWrite(c) ==
    /\ cpc[c] \in {"o_write", "x_write"}
    /\ number' = reg[c]
    /\ streams' = [streams EXCEPT ![c] =
                     IF cpc[c] = "o_write" THEN @ + 1 ELSE @ - 1]
    /\ cpc' = [cpc EXCEPT ![c] = "n_unlock"]
    /\ UNCHANGED <<semVars, dog, segment, early, stale, localVars, hostVars,
                   dpc>>

ChildUnlock(c) ==
    /\ cpc[c] \in {"f_unlock", "n_unlock"}
    /\ Unlock(c)
    /\ cpc' = [cpc EXCEPT ![c] = "up"]
    /\ UNCHANGED <<shmVars, ghostVars, localVars, hostVars, dpc>>

\* vmp-sa can end by itself at any point.
ChildExit(c) ==
    /\ cpc[c] # "dead"
    /\ ExitChild(c)
    /\ UNCHANGED dpc

-----------------------------------------------------------------------------
DaemonStep ==
    \/ SemOpen \/ ShmOpen \/ DaemonClear \/ TickInc \/ TickWrite \/ TickCopy
    \/ DaemonUnlock \/ Loop \/ KillAppEnd \/ AbortEnd \/ RunProcessFails
    \/ SharedDone
    \/ \E c \in Child : KillApp(c) \/ RunProcess(c)

ChildCall(c) ==
    \/ FeedWrite(c) \/ OpenRead(c) \/ CloseRead(c) \/ ConnWrite(c)
    \/ ChildUnlock(c)

Next ==
    \/ DaemonStep \/ DaemonLock
    \/ Stop \/ Done \/ DaemonCrash \/ DaemonStart
    \/ \E c \in Child :
         \/ ShareInit(c) \/ FeedEnter(c) \/ ConnEnter(c)
         \/ ChildCall(c) \/ ChildExit(c)

\* The thread keeps running, and a System V semaphore serves its waiters in
\* order, so a daemon waiting for one that is released again and again gets
\* it.  A vmp-sa inside a call finishes it; nothing makes it start another.
Fairness ==
    /\ WF_vars(DaemonStep)
    /\ SF_vars(DaemonLock)
    /\ WF_vars(Done)
    /\ \A c \in Child : WF_vars(ShareInit(c)) /\ WF_vars(ChildCall(c))

Spec == Init /\ [][Next]_vars

FairSpec == Spec /\ Fairness

-----------------------------------------------------------------------------
(* Correctness.                                                             *)

\* SysV locking holds: with a usable semaphore and no restarted daemon, the
\* shm_lock/shm_unlock sections of the daemon and of every vmp-sa exclude each
\* other, whatever process is killed at whatever point.
MutualExclusion ==
    ("sem" \notin Faults /\ restarts = 0) =>
        \A p, q \in Procs : Holding(p) /\ Holding(q) => p = q

\* load_child_thread never lets two vmp-sa run side by side: each fork comes
\* after the kill_app of the one before (a restarted daemon gives this up, it
\* forks without looking for a vmp-sa that survived).
AtMostOneChild ==
    restarts = 0 => \A c, d \in Alive : c = d

\* The count in the segment is the number of streams of the running vmp-sa,
\* modulo 2^32, but for those it had counted before the last memset and those
\* a dead predecessor left since then: ipc_stream_conn loses no update.
StreamCount ==
    ("sem" \notin Faults /\ restarts = 0) =>
        /\ \A c \in Alive :
              number = (stale + streams[c] - early[c]) % NumberMod
        /\ Alive = {} => number = stale

\* The watchdog as its users see it, module Watchdog: no tick and no feed is
\* lost, the dog never passes its limit, and vmp-sa is killed by the daemon
\* only after DogLimit ticks without a feed in between.
WatchStarved ==
    \/ dpc = "t_copy" /\ dog >= DogLimit
    \/ dpc = "t_unlock" /\ Starved
    \/ dpc = "kill"

W == INSTANCE Watchdog WITH alive <- Alive, starved <- WatchStarved

\* IpcShared implements Watchdog when the segment and the semaphore could be
\* opened and the daemon does not crash.
ImplementsWatchdog == W!Spec

\* A process that held the semaphore died without its operation being undone:
\* the kill -9 of kill_app landed between shm_lock and shm_unlock.
Orphaned == /\ Daemon \in semok
            /\ sem = 0
            /\ \A p \in Procs : ~Holding(p)
            /\ dpc \in {"i_lock", "p_lock", "watch"}

\* With SEM_UNDO that cannot happen, not even when a restarted daemon's SETALL
\* has voided the undo of a vmp-sa inside its locked section.
UndoFreesLock == SemUndo => ~Orphaned

Over == dpc \in {"dead", "ended"}

\* A dead vmp-sa is replaced: the daemon notices through the dog that nobody
\* feeds and starts another, unless it waits for a semaphore nobody holds.
ChildRecovers == (Alive = {}) ~> (Alive # {} \/ Over \/ Orphaned)

\* A vmp-sa that hangs outside the locked sections is killed.
HungChildIsKilled ==
    \A c \in Child :
        <>[](cpc[c] = "up") => <>[](Over \/ Orphaned)

\* load_child_stop returns once vmp-sa stops feeding: the thread looks at cond
\* only after the dog has run out.
StopReturns ==
    <>[](\A c \in Child : cpc[c] # "f_write") =>
        (owner = "stopping" ~> (owner = "freed" \/ dpc = "dead" \/ Orphaned))

\* What load_child_connection_get reports catches up with the segment.
CountIsReported ==
    \A n \in 0 .. NumberMod - 1 :
        <>[](number = n) =>
            <>[](vmon = n \/ shmbuf[Daemon] # "ok" \/ Orphaned)
=============================================================================
