--------------------------- MODULE IpcSharedProofs ---------------------------
(* Proofs about IpcShared, for every number of processes and every bound.   *)
EXTENDS IpcShared, FiniteSetTheorems, TLAPS

-----------------------------------------------------------------------------
(* Type correctness.                                                        *)

\* A register about to be written back holds a value of the variable's type.
RegOK ==
    /\ dpc = "t_write" => reg[Daemon] < DogMod
    /\ \A c \in Child :
         /\ cpc[c] \in {"o_write", "x_write"} => reg[c] < NumberMod
         /\ cpc[c] = "o_write" => streams[c] < MaxStreams
         /\ cpc[c] = "x_write" => streams[c] > 0

TypeInv == TypeOK /\ RegOK

\* A value reduced modulo the size of its type is of that type.
LEMMA ModRange ==
    ASSUME NEW n \in Int, NEW m \in Nat \ {0}
    PROVE  n % m \in 0 .. m - 1
OBVIOUS

\* The same for vmon_connection_t.number.
LEMMA NumberRange ==
    ASSUME NEW n \in Int
    PROVE  n % NumberMod \in 0 .. NumberMod - 1
BY ModRange, NumberAssumption

\* The step facts that every leaf below starts from.
USE ProcAssumption, DogAssumption, NumberAssumption, RestartAssumption,
    FaultAssumption

\* Each step of the daemon and of a vmp-sa keeps every variable in its type:
\* the byte and the counters stay within their width.
LEMMA TypeStep == TypeInv /\ [Next]_vars => TypeInv'
<1> SUFFICES ASSUME TypeInv, [Next]_vars PROVE TypeInv'
    OBVIOUS
<1> USE DEF TypeInv, TypeOK, RegOK, Procs, DaemonLabels, ChildLabels,
            vars, semVars, shmVars, ghostVars, localVars, hostVars
<1>1. CASE SemOpen
    BY <1>1 DEF SemOpen
<1>2. CASE ShmOpen
    BY <1>2 DEF ShmOpen
<1>3. CASE DaemonClear
    BY <1>3 DEF DaemonClear, Memset, ExitDaemon, ExitSem
<1>4. CASE TickInc
  <2>1. (dog + 1) % DogMod \in 0 .. DogMod - 1
      BY ModRange
  <2> QED
      BY <1>4, <2>1 DEF TickInc
<1>5. CASE TickWrite
    BY <1>5 DEF TickWrite
<1>6. CASE TickCopy
    BY <1>6 DEF TickCopy
<1>7. CASE DaemonUnlock
    BY <1>7 DEF DaemonUnlock, Unlock, Undo, Starved
<1>8. CASE Loop
    BY <1>8 DEF Loop
<1>9. CASE KillAppEnd
    BY <1>9 DEF KillAppEnd, Alive
<1>10. CASE AbortEnd
    BY <1>10 DEF AbortEnd, ExitDaemon, ExitSem, Alive
<1>11. CASE RunProcessFails
    BY <1>11 DEF RunProcessFails
<1>12. CASE SharedDone
    BY <1>12 DEF SharedDone
<1>13. CASE DaemonLock
    BY <1>13 DEF DaemonLock, Lock, Undo
<1>14. CASE Stop
    BY <1>14 DEF Stop
<1>15. CASE Done
    BY <1>15 DEF Done
<1>16. CASE DaemonCrash
    BY <1>16 DEF DaemonCrash, ExitDaemon, ExitSem
<1>17. CASE DaemonStart
    BY <1>17 DEF DaemonStart
<1>18. ASSUME NEW c \in Child, KillApp(c) PROVE TypeInv'
  <2>1. stale + streams[c] - early[c] \in Int
      OBVIOUS
  <2>2. (stale + streams[c] - early[c]) % NumberMod \in 0 .. NumberMod - 1
      BY <2>1, NumberRange
  <2> QED
      BY <1>18, <2>2 DEF KillApp, ExitChild, ExitSem
<1>19. ASSUME NEW c \in Child, RunProcess(c) PROVE TypeInv'
    BY <1>19 DEF RunProcess
<1>20. ASSUME NEW c \in Child, ShareInit(c) PROVE TypeInv'
    BY <1>20 DEF ShareInit, Memset
<1>21. ASSUME NEW c \in Child, FeedEnter(c) PROVE TypeInv'
    BY <1>21 DEF FeedEnter, Enter, Lock, Undo
<1>22. ASSUME NEW c \in Child, ConnEnter(c) PROVE TypeInv'
    BY <1>22 DEF ConnEnter, Enter, Lock, Undo
<1>23. ASSUME NEW c \in Child, FeedWrite(c) PROVE TypeInv'
    BY <1>23 DEF FeedWrite
<1>24. ASSUME NEW c \in Child, OpenRead(c) PROVE TypeInv'
  <2>1. number + 1 \in Int
      OBVIOUS
  <2>2. (number + 1) % NumberMod \in 0 .. NumberMod - 1
      BY <2>1, NumberRange
  <2> QED
      BY <1>24, <2>2 DEF OpenRead
<1>25. ASSUME NEW c \in Child, CloseRead(c) PROVE TypeInv'
  <2>1. number - 1 \in Int
      OBVIOUS
  <2>2. (number - 1) % NumberMod \in 0 .. NumberMod - 1
      BY <2>1, NumberRange
  <2> QED
      BY <1>25, <2>2 DEF CloseRead
<1>26. ASSUME NEW c \in Child, ConnWrite(c) PROVE TypeInv'
    BY <1>26 DEF ConnWrite
<1>27. ASSUME NEW c \in Child, ChildUnlock(c) PROVE TypeInv'
    BY <1>27 DEF ChildUnlock, Unlock, Undo
<1>28. ASSUME NEW c \in Child, ChildExit(c) PROVE TypeInv'
  <2>1. stale + streams[c] - early[c] \in Int
      OBVIOUS
  <2>2. (stale + streams[c] - early[c]) % NumberMod \in 0 .. NumberMod - 1
      BY <2>1, NumberRange
  <2> QED
      BY <1>28, <2>2 DEF ChildExit, ExitChild, ExitSem
<1>29. CASE UNCHANGED vars
    BY <1>29
<1> QED
    BY <1>1, <1>2, <1>3, <1>4, <1>5, <1>6, <1>7, <1>8, <1>9, <1>10,
       <1>11, <1>12, <1>13, <1>14, <1>15, <1>16, <1>17, <1>18, <1>19,
       <1>20, <1>21, <1>22, <1>23, <1>24, <1>25, <1>26, <1>27, <1>28,
       <1>29 DEF Next, DaemonStep, ChildCall

\* The type invariant of IpcShared holds for every set of processes, every
\* limit of the dog and every combination of faults.
THEOREM TypeCorrect == Spec => []TypeOK
<1>1. Init => TypeInv
    BY DEF Init, TypeInv, TypeOK, RegOK, Procs, DaemonLabels, ChildLabels
<1>2. TypeInv => TypeOK
    BY DEF TypeInv
<1> QED
    BY <1>1, <1>2, TypeStep, PTL DEF Spec

-----------------------------------------------------------------------------
(* One vmp-sa at a time, and the lock.                                      *)

\* Until a daemon is started over the remains of another, a fork happens only
\* when no vmp-sa runs.
ChildInv ==
    restarts = 0 =>
        /\ \A c, d \in Child : cpc[c] # "dead" /\ cpc[d] # "dead" => c = d
        /\ dpc \in {"sem_open", "shm_open", "i_lock", "i_clear", "i_unlock",
                    "run0", "run"} => \A c \in Child : cpc[c] = "dead"

\* While the semaphore exists its value and the undo of every process agree
\* with who is between shm_lock and shm_unlock.
LockInv ==
    (restarts = 0 /\ "sem" \notin Faults) =>
        /\ dpc \notin {"sem_open", "dead", "ended"} => Daemon \in semok
        /\ dpc # "ended" =>
             /\ \A c \in Child : cpc[c] \notin {"dead", "boot"} => c \in semok
             /\ sem \in {0, 1}
             /\ sem = 1 => /\ dpc \notin DaemonCS
                           /\ \A c \in Child : cpc[c] \notin ChildCS
             /\ semadj[Daemon] = IF dpc \in DaemonCS THEN Undo(1) ELSE 0
             /\ \A c \in Child :
                  semadj[c] = IF cpc[c] \in ChildCS THEN Undo(1) ELSE 0
        /\ dpc \in DaemonCS => \A c \in Child : cpc[c] \notin ChildCS

\* Every step keeps at most one vmp-sa: kill_app comes before each fork.
LEMMA ChildStep == TypeInv /\ ChildInv /\ [Next]_vars => ChildInv'
<1> SUFFICES ASSUME TypeInv, ChildInv, [Next]_vars PROVE ChildInv'
    OBVIOUS
<1> USE DEF TypeInv, TypeOK, ChildInv,
            vars, semVars, shmVars, ghostVars, localVars, hostVars
<1>1. CASE SemOpen
    BY <1>1 DEF SemOpen
<1>2. CASE ShmOpen
    BY <1>2 DEF ShmOpen
<1>3. CASE DaemonClear
    BY <1>3 DEF DaemonClear, ExitDaemon
<1>4. CASE TickInc
    BY <1>4 DEF TickInc
<1>5. CASE TickWrite
    BY <1>5 DEF TickWrite
<1>6. CASE TickCopy
    BY <1>6 DEF TickCopy
<1>7. CASE DaemonUnlock
    BY <1>7 DEF DaemonUnlock, Starved
<1>8. CASE Loop
    BY <1>8 DEF Loop
<1>9. CASE KillAppEnd
    BY <1>9 DEF KillAppEnd, Alive
<1>10. CASE AbortEnd
    BY <1>10 DEF AbortEnd, ExitDaemon, Alive
<1>11. CASE RunProcessFails
    BY <1>11 DEF RunProcessFails
<1>12. CASE SharedDone
    BY <1>12 DEF SharedDone
<1>13. CASE DaemonLock
    BY <1>13 DEF DaemonLock
<1>14. CASE Stop
    BY <1>14 DEF Stop
<1>15. CASE Done
    BY <1>15 DEF Done
<1>16. CASE DaemonCrash
    BY <1>16 DEF DaemonCrash, ExitDaemon
<1>17. CASE DaemonStart
    BY <1>17 DEF DaemonStart
<1>18. ASSUME NEW c \in Child, KillApp(c) PROVE ChildInv'
    BY <1>18 DEF KillApp, ExitChild
<1>19. ASSUME NEW c \in Child, RunProcess(c) PROVE ChildInv'
    BY <1>19 DEF RunProcess
<1>20. ASSUME NEW c \in Child, ShareInit(c) PROVE ChildInv'
    BY <1>20 DEF ShareInit
<1>21. ASSUME NEW c \in Child, FeedEnter(c) PROVE ChildInv'
    BY <1>21 DEF FeedEnter, Enter
<1>22. ASSUME NEW c \in Child, ConnEnter(c) PROVE ChildInv'
    BY <1>22 DEF ConnEnter, Enter
<1>23. ASSUME NEW c \in Child, FeedWrite(c) PROVE ChildInv'
    BY <1>23 DEF FeedWrite
<1>24. ASSUME NEW c \in Child, OpenRead(c) PROVE ChildInv'
    BY <1>24 DEF OpenRead
<1>25. ASSUME NEW c \in Child, CloseRead(c) PROVE ChildInv'
    BY <1>25 DEF CloseRead
<1>26. ASSUME NEW c \in Child, ConnWrite(c) PROVE ChildInv'
    BY <1>26 DEF ConnWrite
<1>27. ASSUME NEW c \in Child, ChildUnlock(c) PROVE ChildInv'
    BY <1>27 DEF ChildUnlock
<1>28. ASSUME NEW c \in Child, ChildExit(c) PROVE ChildInv'
    BY <1>28 DEF ChildExit, ExitChild
<1>29. CASE UNCHANGED vars
    BY <1>29
<1> QED
    BY <1>1, <1>2, <1>3, <1>4, <1>5, <1>6, <1>7, <1>8, <1>9, <1>10, <1>11,
       <1>12, <1>13, <1>14, <1>15, <1>16, <1>17, <1>18, <1>19, <1>20,
       <1>21, <1>22, <1>23, <1>24, <1>25, <1>26, <1>27, <1>28, <1>29 DEF
       Next, DaemonStep, ChildCall

\* The undo of a holder is at most the one permit it took.
LEMMA UndoRange == Undo(1) \in {0, 1}
BY DEF Undo

\* The exit of a vmp-sa, at whatever place it is.
LEMMA ExitChildLock ==
    ASSUME TypeInv, ChildInv, LockInv, NEW c \in Child, cpc[c] # "dead",
           ExitChild(c), dpc' = dpc
    PROVE  LockInv'
<1> USE UndoRange DEF TypeInv, TypeOK, LockInv, ExitChild, ExitSem, DaemonCS,
                      ChildCS, Procs, localVars, shmVars
<1> SUFFICES ASSUME restarts = 0, "sem" \notin Faults
             PROVE  LockInv'
    OBVIOUS
<1>1. \A d \in Child : d # c => cpc[d] = "dead"
    BY DEF ChildInv
<1>2. CASE dpc = "ended"
    BY <1>2
<1>3. CASE dpc # "ended"
  <2>1. CASE cpc[c] \in ChildCS
    <3>1. sem = 0 /\ semadj[c] = Undo(1) /\ dpc \notin DaemonCS
        BY <1>3, <2>1
    <3> QED
        BY <1>1, <1>3, <2>1, <3>1
  <2>2. CASE cpc[c] \notin ChildCS
    <3>1. semadj[c] = 0 /\ sem' = sem
        BY <1>3, <2>2
    <3> QED
        BY <1>1, <1>3, <2>2, <3>1
  <2> QED
      BY <2>1, <2>2
<1> QED
    BY <1>2, <1>3

\* The exit of the daemon, inside or outside a locked section.
LEMMA ExitDaemonLock ==
    ASSUME TypeInv, ChildInv, LockInv, dpc # "ended",
           ExitDaemon, restarts' = restarts
    PROVE  LockInv'
<1> USE UndoRange DEF TypeInv, TypeOK, LockInv, ExitDaemon, ExitSem, DaemonCS,
                      ChildCS, Procs
<1> SUFFICES ASSUME restarts = 0, "sem" \notin Faults
             PROVE  LockInv'
    OBVIOUS
<1>1. CASE dpc \in DaemonCS
  <2>1. sem = 0 /\ semadj[Daemon] = Undo(1)
        /\ \A c \in Child : cpc[c] \notin ChildCS
      BY <1>1
  <2> QED
      BY <1>1, <2>1
<1>2. CASE dpc \notin DaemonCS
  <2>1. semadj[Daemon] = 0 /\ sem' = sem
      BY <1>2
  <2> QED
      BY <1>2, <2>1
<1> QED
    BY <1>1, <1>2

\* Every step keeps the semaphore's value, the pending undo and the locked
\* sections in agreement; the death of a holder either frees the semaphore
\* (SEM_UNDO) or leaves it taken for good, never free too often.
LEMMA LockStep ==
    TypeInv /\ ChildInv /\ LockInv /\ [Next]_vars => LockInv'
<1> SUFFICES ASSUME TypeInv, ChildInv, LockInv, [Next]_vars PROVE LockInv'
    OBVIOUS
<1> USE DEF TypeInv, TypeOK, ChildInv, LockInv, DaemonCS, ChildCS, Procs,
            vars, semVars, shmVars, ghostVars, localVars, hostVars
<1>1. CASE SemOpen
    BY <1>1 DEF SemOpen
<1>2. CASE ShmOpen
    BY <1>2 DEF ShmOpen
<1>3. CASE DaemonClear
  <2>1. CASE shmbuf[Daemon] = "ok"
      BY <1>3, <2>1 DEF DaemonClear, Memset
  <2>2. CASE shmbuf[Daemon] # "ok"
    <3>1. ExitDaemon /\ restarts' = restarts /\ dpc # "ended"
        BY <1>3, <2>2 DEF DaemonClear
    <3> QED
        BY <3>1, ExitDaemonLock
  <2> QED
      BY <2>1, <2>2
<1>4. CASE TickInc
    BY <1>4 DEF TickInc
<1>5. CASE TickWrite
    BY <1>5 DEF TickWrite
<1>6. CASE TickCopy
    BY <1>6 DEF TickCopy
<1>7. CASE DaemonUnlock
    BY <1>7 DEF DaemonUnlock, Unlock, Undo, Starved
<1>8. CASE Loop
    BY <1>8 DEF Loop
<1>9. CASE KillAppEnd
    BY <1>9 DEF KillAppEnd, Alive
<1>10. CASE AbortEnd
    BY <1>10, ExitDaemonLock DEF AbortEnd
<1>11. CASE RunProcessFails
    BY <1>11 DEF RunProcessFails
<1>12. CASE SharedDone
    BY <1>12 DEF SharedDone
<1>13. CASE DaemonLock
    BY <1>13 DEF DaemonLock, Lock, Undo
<1>14. CASE Stop
    BY <1>14 DEF Stop
<1>15. CASE Done
    BY <1>15 DEF Done
<1>16. CASE DaemonCrash
    BY <1>16, ExitDaemonLock DEF DaemonCrash
<1>17. CASE DaemonStart
    BY <1>17 DEF DaemonStart
<1>18. ASSUME NEW c \in Child, KillApp(c) PROVE LockInv'
    BY <1>18, ExitChildLock DEF KillApp
<1>19. ASSUME NEW c \in Child, RunProcess(c) PROVE LockInv'
    BY <1>19 DEF RunProcess
<1>20. ASSUME NEW c \in Child, ShareInit(c) PROVE LockInv'
    BY <1>20 DEF ShareInit, Memset
<1>21. ASSUME NEW c \in Child, FeedEnter(c) PROVE LockInv'
    BY <1>21 DEF FeedEnter, Enter, Lock, Undo
<1>22. ASSUME NEW c \in Child, ConnEnter(c) PROVE LockInv'
    BY <1>22 DEF ConnEnter, Enter, Lock, Undo
<1>23. ASSUME NEW c \in Child, FeedWrite(c) PROVE LockInv'
    BY <1>23 DEF FeedWrite
<1>24. ASSUME NEW c \in Child, OpenRead(c) PROVE LockInv'
    BY <1>24 DEF OpenRead
<1>25. ASSUME NEW c \in Child, CloseRead(c) PROVE LockInv'
    BY <1>25 DEF CloseRead
<1>26. ASSUME NEW c \in Child, ConnWrite(c) PROVE LockInv'
    BY <1>26 DEF ConnWrite
<1>27. ASSUME NEW c \in Child, ChildUnlock(c) PROVE LockInv'
    BY <1>27 DEF ChildUnlock, Unlock, Undo
<1>28. ASSUME NEW c \in Child, ChildExit(c) PROVE LockInv'
    BY <1>28, ExitChildLock DEF ChildExit
<1>29. CASE UNCHANGED vars
    BY <1>29
<1> QED
    BY <1>1, <1>2, <1>3, <1>4, <1>5, <1>6, <1>7, <1>8, <1>9, <1>10, <1>11,
       <1>12, <1>13, <1>14, <1>15, <1>16, <1>17, <1>18, <1>19, <1>20,
       <1>21, <1>22, <1>23, <1>24, <1>25, <1>26, <1>27, <1>28, <1>29 DEF
       Next, DaemonStep, ChildCall

\* The three invariants hold throughout.
LEMMA Invariants == Spec => [](TypeInv /\ ChildInv /\ LockInv)
<1>1. Init => TypeInv
    BY DEF Init, TypeInv, TypeOK, RegOK, Procs, DaemonLabels, ChildLabels
<1>2. Init => ChildInv /\ LockInv
    BY DEF Init, ChildInv, LockInv, DaemonCS, ChildCS, Procs, Undo
<1> QED
    BY <1>1, <1>2, TypeStep, ChildStep, LockStep, PTL DEF Spec

\* Whatever is killed and whenever, at most one vmp-sa runs until a daemon is
\* started over the remains of another.
THEOREM OneChild == Spec => []AtMostOneChild
<1>1. ChildInv => AtMostOneChild
    BY DEF ChildInv, AtMostOneChild, Alive
<1> QED
    BY <1>1, Invariants, PTL

\* The locked sections of the daemon and of vmp-sa never overlap, with and
\* without SEM_UNDO, across every kill -9 of either.
THEOREM Exclusion == Spec => []MutualExclusion
<1>1. ChildInv /\ LockInv => MutualExclusion
  <2> SUFFICES ASSUME ChildInv, LockInv, "sem" \notin Faults, restarts = 0,
                      NEW p \in Procs, NEW q \in Procs, Holding(p), Holding(q)
               PROVE  p = q
      BY DEF MutualExclusion
  <2>1. CASE p = Daemon /\ q = Daemon
      BY <2>1
  <2>2. CASE p = Daemon /\ q # Daemon
      BY <2>2 DEF Procs, Holding, LockInv
  <2>3. CASE p # Daemon /\ q = Daemon
      BY <2>3 DEF Procs, Holding, LockInv
  <2>4. CASE p # Daemon /\ q # Daemon
      BY <2>4 DEF Procs, Holding, ChildInv, ChildCS
  <2> QED
      BY <2>1, <2>2, <2>3, <2>4
<1> QED
    BY <1>1, Invariants, PTL

-----------------------------------------------------------------------------
(* The implementation of Watchdog.                                          *)

\* The daemon opened its semaphore and segment, and is not killed.
Clean == MaxRestarts = 0 /\ Faults \subseteq {"exec", "fork"}

\* What the lock protects: between its two halves an increment is not
\* overtaken, so the dog passes through every value up to its limit.
CountInv ==
    /\ dpc \notin {"sem_open", "shm_open", "ended", "dead"} =>
         shmbuf[Daemon] = "ok"
    /\ segment = "removed" => dpc = "ended"
    /\ dpc \in {"p_unlock", "watch", "t_inc", "t_write"} => dog < DogLimit
    /\ dpc = "t_write" => reg[Daemon] = dog + 1
    /\ dpc = "t_unlock" => watchdog = dog
    /\ \A c \in Child :
         /\ cpc[c] = "o_write" => reg[c] = (number + 1) % NumberMod
         /\ cpc[c] = "x_write" => reg[c] = (number - 1) % NumberMod

\* No step overtakes an increment in progress.
LEMMA CountStep ==
    ASSUME Clean, TypeInv, ChildInv, LockInv, CountInv, [Next]_vars
    PROVE  CountInv'
<1> USE DEF Clean, TypeInv, TypeOK, CountInv, LockInv, DaemonCS, ChildCS,
            Procs, vars, semVars, shmVars, ghostVars, localVars, hostVars
<1>0. restarts = 0 /\ "sem" \notin Faults /\ "shm" \notin Faults
      /\ "crash" \notin Faults
    OBVIOUS
<1>1. CASE SemOpen
    BY <1>1 DEF SemOpen
<1>2. CASE ShmOpen
    BY <1>2 DEF ShmOpen
<1>3. CASE DaemonClear
    BY <1>3 DEF DaemonClear, Memset, ExitDaemon
<1>4. CASE TickInc
    BY <1>4 DEF TickInc
<1>5. CASE TickWrite
    BY <1>5 DEF TickWrite
<1>6. CASE TickCopy
    BY <1>6 DEF TickCopy
<1>7. CASE DaemonUnlock
  <2>1. CASE dpc = "i_unlock"
      BY <1>7, <2>1 DEF DaemonUnlock
  <2>2. CASE dpc = "p_unlock"
      BY <1>0, <1>7, <2>2 DEF DaemonUnlock
  <2>3. CASE dpc = "t_unlock" /\ Starved
      BY <1>7, <2>3 DEF DaemonUnlock
  <2>4. CASE dpc = "t_unlock" /\ ~Starved
      BY <1>7, <2>4 DEF DaemonUnlock, Starved
  <2> QED
      BY <1>7, <2>1, <2>2, <2>3, <2>4 DEF DaemonUnlock
<1>8. CASE Loop
    BY <1>8 DEF Loop
<1>9. CASE KillAppEnd
    BY <1>9 DEF KillAppEnd, Alive
<1>10. CASE AbortEnd
    BY <1>10 DEF AbortEnd, ExitDaemon, Alive
<1>11. CASE RunProcessFails
    BY <1>11 DEF RunProcessFails
<1>12. CASE SharedDone
    BY <1>12 DEF SharedDone
<1>13. CASE DaemonLock
    BY <1>13 DEF DaemonLock
<1>14. CASE Stop
    BY <1>14 DEF Stop
<1>15. CASE Done
    BY <1>15 DEF Done
<1>16. CASE DaemonCrash
    BY <1>16 DEF DaemonCrash, ExitDaemon
<1>17. CASE DaemonStart
    BY <1>17 DEF DaemonStart
<1>18. ASSUME NEW c \in Child, KillApp(c) PROVE CountInv'
    BY <1>18 DEF KillApp, ExitChild
<1>19. ASSUME NEW c \in Child, RunProcess(c) PROVE CountInv'
    BY <1>19 DEF RunProcess
<1>20. ASSUME NEW c \in Child, ShareInit(c) PROVE CountInv'
  <2>1. \A d \in Child : d # c => cpc[d] = "dead"
      BY <1>0, <1>20 DEF ShareInit, ChildInv
  <2> QED
      BY <1>0, <1>20, <2>1 DEF ShareInit, Memset
<1>21. ASSUME NEW c \in Child, FeedEnter(c) PROVE CountInv'
    BY <1>21 DEF FeedEnter, Enter
<1>22. ASSUME NEW c \in Child, ConnEnter(c) PROVE CountInv'
    BY <1>22 DEF ConnEnter, Enter
<1>23. ASSUME NEW c \in Child, FeedWrite(c) PROVE CountInv'
    BY <1>23 DEF FeedWrite
<1>24. ASSUME NEW c \in Child, OpenRead(c) PROVE CountInv'
    BY <1>24 DEF OpenRead
<1>25. ASSUME NEW c \in Child, CloseRead(c) PROVE CountInv'
    BY <1>25 DEF CloseRead
<1>26. ASSUME NEW c \in Child, ConnWrite(c) PROVE CountInv'
  <2>1. \A d \in Child : d # c => cpc[d] = "dead"
      BY <1>0, <1>26 DEF ConnWrite, ChildInv
  <2> QED
      BY <1>0, <1>26, <2>1 DEF ConnWrite
<1>27. ASSUME NEW c \in Child, ChildUnlock(c) PROVE CountInv'
    BY <1>27 DEF ChildUnlock
<1>28. ASSUME NEW c \in Child, ChildExit(c) PROVE CountInv'
    BY <1>28 DEF ChildExit, ExitChild
<1>29. CASE UNCHANGED vars
    BY <1>29
<1> QED
    BY <1>1, <1>2, <1>3, <1>4, <1>5, <1>6, <1>7, <1>8, <1>9, <1>10, <1>11,
       <1>12, <1>13, <1>14, <1>15, <1>16, <1>17, <1>18, <1>19, <1>20,
       <1>21, <1>22, <1>23, <1>24, <1>25, <1>26, <1>27, <1>28, <1>29 DEF
       Next, DaemonStep, ChildCall

\* Every step is a step of Watchdog under the mapping, or leaves it alone.
LEMMA WatchStep ==
    ASSUME Clean, TypeInv, ChildInv, LockInv, CountInv, [Next]_vars
    PROVE  [W!Next]_(W!vars)
<1> USE DEF Clean, TypeInv, TypeOK, CountInv, LockInv, ChildInv, DaemonCS,
            ChildCS, Procs, WatchStarved, Starved, Alive,
            W!vars, vars, semVars, shmVars, ghostVars, localVars, hostVars
<1>0. restarts = 0 /\ "sem" \notin Faults /\ "shm" \notin Faults
      /\ "crash" \notin Faults
    OBVIOUS
<1>1. CASE SemOpen
    BY <1>1 DEF SemOpen
<1>2. CASE ShmOpen
    BY <1>2 DEF ShmOpen
<1>3. CASE DaemonClear
  <2>1. W!Reset
      BY <1>3 DEF DaemonClear, Memset, W!Reset
  <2> QED
      BY <2>1 DEF W!Next
<1>4. CASE TickInc
    BY <1>4 DEF TickInc
<1>5. CASE TickWrite
  <2>1. dog' = dog + 1 /\ ~WatchStarved
      BY <1>5 DEF TickWrite
  <2>2. WatchStarved' = (dog' >= DogLimit)
    <3> HIDE DEF WatchStarved
    <3>1. WatchStarved' <=> dog' >= DogLimit
        BY <1>5 DEF TickWrite, WatchStarved
    <3>2. WatchStarved' \in BOOLEAN
        BY Zenon DEF WatchStarved
    <3>3. (dog' >= DogLimit) \in BOOLEAN
        BY SMT
    <3> QED
        BY <3>1, <3>2, <3>3
  <2>3. Alive' = Alive /\ number' = number
      BY <1>5 DEF TickWrite
  <2>4. W!Tick
      BY <2>1, <2>2, <2>3 DEF W!Tick
  <2> QED
      BY <2>4 DEF W!Next
<1>6. CASE TickCopy
    BY <1>6 DEF TickCopy
<1>7. CASE DaemonUnlock
    BY <1>7 DEF DaemonUnlock, Starved
<1>8. CASE Loop
    BY <1>8 DEF Loop
<1>9. CASE KillAppEnd
  <2>1. W!Killed
      BY <1>9 DEF KillAppEnd, W!Killed
  <2> QED
      BY <2>1 DEF W!Next
<1>10. CASE AbortEnd
    BY <1>10 DEF AbortEnd, ExitDaemon, Alive
<1>11. CASE RunProcessFails
    BY <1>11 DEF RunProcessFails
<1>12. CASE SharedDone
    BY <1>12 DEF SharedDone
<1>13. CASE DaemonLock
    BY <1>13 DEF DaemonLock
<1>14. CASE Stop
    BY <1>14 DEF Stop
<1>15. CASE Done
    BY <1>15 DEF Done
<1>16. CASE DaemonCrash
    BY <1>16 DEF DaemonCrash, ExitDaemon
<1>17. CASE DaemonStart
    BY <1>17 DEF DaemonStart
<1>18. ASSUME NEW c \in Child, KillApp(c) PROVE [W!Next]_(W!vars)
  <2>1. Alive' = Alive \ {c} /\ c \in Alive
      BY <1>18 DEF KillApp, ExitChild
  <2>2. W!Exit(c)
      BY <1>18, <2>1 DEF KillApp, ExitChild, W!Exit
  <2> QED
      BY <2>2 DEF W!Next
<1>19. ASSUME NEW c \in Child, RunProcess(c) PROVE [W!Next]_(W!vars)
  <2>1. Alive = {} /\ Alive' = {c}
      BY <1>0, <1>19 DEF RunProcess
  <2>2. W!Start(c)
      BY <1>19, <2>1 DEF RunProcess, W!Start
  <2> QED
      BY <2>2 DEF W!Next
<1>20. ASSUME NEW c \in Child, ShareInit(c) PROVE [W!Next]_(W!vars)
  <2>1. Alive' = Alive
      BY <1>20 DEF ShareInit
  <2>2. CASE segment = "removed"
    <3>1. W!Reset
        BY <1>20, <2>1, <2>2 DEF ShareInit, Memset, W!Reset
    <3> QED
        BY <3>1 DEF W!Next
  <2>3. CASE segment # "removed"
      BY <1>20, <2>1, <2>3 DEF ShareInit
  <2> QED
      BY <2>2, <2>3
<1>21. ASSUME NEW c \in Child, FeedEnter(c) PROVE [W!Next]_(W!vars)
    BY <1>21 DEF FeedEnter, Enter
<1>22. ASSUME NEW c \in Child, ConnEnter(c) PROVE [W!Next]_(W!vars)
    BY <1>22 DEF ConnEnter, Enter
<1>23. ASSUME NEW c \in Child, FeedWrite(c) PROVE [W!Next]_(W!vars)
  <2>1. Alive' = Alive /\ c \in Alive
      BY <1>23 DEF FeedWrite
  <2>2. dpc \notin DaemonCS
      BY <1>0, <1>23 DEF FeedWrite
  <2>3. W!Feed(c)
      BY <1>23, <2>1, <2>2 DEF FeedWrite, W!Feed
  <2> QED
      BY <2>3 DEF W!Next
<1>24. ASSUME NEW c \in Child, OpenRead(c) PROVE [W!Next]_(W!vars)
    BY <1>24 DEF OpenRead
<1>25. ASSUME NEW c \in Child, CloseRead(c) PROVE [W!Next]_(W!vars)
    BY <1>25 DEF CloseRead
<1>26. ASSUME NEW c \in Child, ConnWrite(c) PROVE [W!Next]_(W!vars)
  <2>1. Alive' = Alive /\ c \in Alive
      BY <1>26 DEF ConnWrite
  <2>2. number' = (number + 1) % NumberMod \/ number' = (number + -1) % NumberMod
      BY <1>26 DEF ConnWrite
  <2>3. W!Count(c)
      BY <1>26, <2>1, <2>2 DEF ConnWrite, W!Count
  <2> QED
      BY <2>3 DEF W!Next
<1>27. ASSUME NEW c \in Child, ChildUnlock(c) PROVE [W!Next]_(W!vars)
    BY <1>27 DEF ChildUnlock
<1>28. ASSUME NEW c \in Child, ChildExit(c) PROVE [W!Next]_(W!vars)
  <2>1. Alive' = Alive \ {c} /\ c \in Alive
      BY <1>28 DEF ChildExit, ExitChild
  <2>2. W!Exit(c)
      BY <1>28, <2>1 DEF ChildExit, ExitChild, W!Exit
  <2> QED
      BY <2>2 DEF W!Next
<1>29. CASE UNCHANGED vars
    BY <1>29
<1> QED
    BY <1>1, <1>2, <1>3, <1>4, <1>5, <1>6, <1>7, <1>8, <1>9, <1>10, <1>11,
       <1>12, <1>13, <1>14, <1>15, <1>16, <1>17, <1>18, <1>19, <1>20,
       <1>21, <1>22, <1>23, <1>24, <1>25, <1>26, <1>27, <1>28, <1>29 DEF
       Next, DaemonStep, ChildCall

\* The watchdog does what module Watchdog says: no tick or feed is lost, the
\* dog never passes its limit, and no kill comes before the limit.
THEOREM Refinement == Clean => (Spec => ImplementsWatchdog)
<1> SUFFICES ASSUME Clean PROVE Spec => W!Spec
    BY DEF ImplementsWatchdog
<1>1. Init => W!Init
    BY DEF Init, W!Init, Alive, WatchStarved
<1>2. Init => CountInv
    BY DEF Init, CountInv
<1>3. TypeInv /\ ChildInv /\ LockInv /\ CountInv /\ [Next]_vars => CountInv'
    BY CountStep
<1>4. TypeInv /\ ChildInv /\ LockInv /\ CountInv /\ [Next]_vars
      => [W!Next]_(W!vars)
    BY WatchStep
<1> QED
    BY <1>1, <1>2, <1>3, <1>4, Invariants, PTL DEF Spec, W!Spec

-----------------------------------------------------------------------------
(* The count of streams.                                                    *)

\* Until a daemon is started over another's remains: a call of ipc_stream_conn
\* is not overtaken between its halves, the count is that of the one vmp-sa,
\* and a process that does not exist has counted nothing.
StreamInv ==
    (restarts = 0 /\ "sem" \notin Faults) =>
        /\ \A c \in Child :
             /\ cpc[c] = "dead" => streams[c] = 0 /\ early[c] = 0
             /\ cpc[c] # "dead" =>
                  number = (stale + streams[c] - early[c]) % NumberMod
             /\ cpc[c] = "o_write" => reg[c] = (number + 1) % NumberMod
             /\ cpc[c] = "x_write" => reg[c] = (number - 1) % NumberMod
        /\ (\A c \in Child : cpc[c] = "dead") => number = stale

\* Quotient and remainder by a positive number ...
LEMMA Remainder ==
    ASSUME NEW a \in Int, NEW m \in Nat \ {0}
    PROVE  /\ a \div m \in Int
           /\ a % m \in 0 .. m - 1
           /\ a = m * (a \div m) + (a % m)
OBVIOUS

\* ... and that the remainder is unique.
LEMMA RemainderUnique ==
    ASSUME NEW m \in Nat \ {0}, NEW k \in Int, NEW r \in 0 .. m - 1
    PROVE  (m * k + r) % m = r
OBVIOUS

\* Reducing before a number is added and after gives the same: the unsigned
\* counter may wrap at any of its steps.
LEMMA ModPlus ==
    ASSUME NEW a \in Int, NEW m \in Nat \ {0}, NEW d \in Int
    PROVE  ((a % m) + d) % m = (a + d) % m
<1> DEFINE k == a \div m
           r == a % m
           b == r + d
           l == b \div m
           s == b % m
<1>1. k \in Int /\ r \in 0 .. m - 1 /\ a = m * k + r
    BY Remainder
<1>2. b \in Int
    BY <1>1
<1>3. l \in Int /\ s \in 0 .. m - 1 /\ b = m * l + s
  <2> HIDE DEF b
  <2> QED
      BY <1>2, Remainder
<1> HIDE DEF k, l, s
<1>4. a + d = m * (k + l) + s
    BY <1>1, <1>3
<1>5. k + l \in Int
    BY <1>1, <1>3
<1>6. (a + d) % m = s
    BY <1>3, <1>4, <1>5, RemainderUnique
<1> QED
    BY <1>6 DEF s, b

\* A number below the modulus is its own remainder.
LEMMA SmallNumber ==
    ASSUME NEW n \in 0 .. NumberMod - 1
    PROVE  n % NumberMod = n
OBVIOUS

\* A vmp-sa that ends leaves its count behind, and it was the only one.
LEMMA ExitChildCount ==
    ASSUME TypeInv, ChildInv, StreamInv, NEW c \in Child, cpc[c] # "dead",
           ExitChild(c)
    PROVE  StreamInv'
<1> USE DEF TypeInv, TypeOK, Procs, localVars, shmVars
<1> SUFFICES ASSUME restarts = 0, "sem" \notin Faults
             PROVE  StreamInv'
    BY DEF StreamInv, ExitChild
<1>1. \A d \in Child : d # c => cpc[d] = "dead"
    BY DEF ChildInv
<1>2. \A d \in Child : cpc'[d] = "dead"
    BY <1>1 DEF ExitChild
<1>3. stale' = number /\ number' = number
    BY DEF ExitChild, StreamInv
<1>4. \A d \in Child : streams'[d] = 0 /\ early'[d] = 0
    BY <1>1 DEF ExitChild, StreamInv
<1> QED
    BY <1>2, <1>3, <1>4 DEF StreamInv

\* Every step keeps the count: the locked section carries a call of
\* ipc_stream_conn past the memset of the daemon.
LEMMA StreamStep ==
    ASSUME TypeInv, ChildInv, LockInv, StreamInv, [Next]_vars
    PROVE  StreamInv'
<1> USE DEF TypeInv, TypeOK, StreamInv, Procs,
            vars, semVars, shmVars, ghostVars, localVars, hostVars
<1>1. CASE SemOpen
    BY <1>1 DEF SemOpen
<1>2. CASE ShmOpen
    BY <1>2 DEF ShmOpen
<1>3. CASE DaemonClear
  <2>1. CASE shmbuf[Daemon] = "ok"
    <3>1. restarts = 0 /\ "sem" \notin Faults =>
            \A c \in Child : cpc[c] \notin ChildCS
        BY <1>3 DEF DaemonClear, LockInv, DaemonCS
    <3>2. \A c \in Child : 0 + streams[c] - streams[c] = 0
        OBVIOUS
    <3> QED
        BY <1>3, <2>1, <3>1, <3>2, SmallNumber DEF DaemonClear, Memset, ChildCS
  <2>2. CASE shmbuf[Daemon] # "ok"
      BY <1>3, <2>2 DEF DaemonClear, ExitDaemon
  <2> QED
      BY <2>1, <2>2
<1>4. CASE TickInc
    BY <1>4 DEF TickInc
<1>5. CASE TickWrite
    BY <1>5 DEF TickWrite
<1>6. CASE TickCopy
    BY <1>6 DEF TickCopy
<1>7. CASE DaemonUnlock
    BY <1>7 DEF DaemonUnlock
<1>8. CASE Loop
    BY <1>8 DEF Loop
<1>9. CASE KillAppEnd
    BY <1>9 DEF KillAppEnd, Alive
<1>10. CASE AbortEnd
    BY <1>10 DEF AbortEnd, ExitDaemon
<1>11. CASE RunProcessFails
    BY <1>11 DEF RunProcessFails
<1>12. CASE SharedDone
    BY <1>12 DEF SharedDone
<1>13. CASE DaemonLock
    BY <1>13 DEF DaemonLock
<1>14. CASE Stop
    BY <1>14 DEF Stop
<1>15. CASE Done
    BY <1>15 DEF Done
<1>16. CASE DaemonCrash
    BY <1>16 DEF DaemonCrash, ExitDaemon
<1>17. CASE DaemonStart
    BY <1>17 DEF DaemonStart
<1>18. ASSUME NEW c \in Child, KillApp(c) PROVE StreamInv'
    BY <1>18, ExitChildCount DEF KillApp
<1>19. ASSUME NEW c \in Child, RunProcess(c) PROVE StreamInv'
  <2>1. restarts = 0 => \A d \in Child : cpc[d] = "dead"
      BY <1>19 DEF RunProcess, ChildInv
  <2>2. stale + 0 - 0 = stale /\ stale % NumberMod = stale
      BY SmallNumber
  <2> QED
      BY <1>19, <2>1, <2>2 DEF RunProcess
<1>20. ASSUME NEW c \in Child, ShareInit(c) PROVE StreamInv'
  <2>1. restarts = 0 => \A d \in Child : d # c => cpc[d] = "dead"
      BY <1>20 DEF ShareInit, ChildInv
  <2>2. \A d \in Child : 0 + streams[d] - streams[d] = 0
      OBVIOUS
  <2>3. CASE segment = "removed"
      BY <1>20, <2>1, <2>2, <2>3, SmallNumber DEF ShareInit, Memset
  <2>4. CASE segment # "removed"
      BY <1>20, <2>4 DEF ShareInit
  <2> QED
      BY <2>3, <2>4
<1>21. ASSUME NEW c \in Child, FeedEnter(c) PROVE StreamInv'
    BY <1>21 DEF FeedEnter, Enter
<1>22. ASSUME NEW c \in Child, ConnEnter(c) PROVE StreamInv'
    BY <1>22 DEF ConnEnter, Enter
<1>23. ASSUME NEW c \in Child, FeedWrite(c) PROVE StreamInv'
    BY <1>23 DEF FeedWrite
<1>24. ASSUME NEW c \in Child, OpenRead(c) PROVE StreamInv'
  <2>1. restarts = 0 => \A d \in Child : d # c => cpc[d] = "dead"
      BY <1>24 DEF OpenRead, ChildInv
  <2> QED
      BY <1>24, <2>1 DEF OpenRead
<1>25. ASSUME NEW c \in Child, CloseRead(c) PROVE StreamInv'
  <2>1. restarts = 0 => \A d \in Child : d # c => cpc[d] = "dead"
      BY <1>25 DEF CloseRead, ChildInv
  <2> QED
      BY <1>25, <2>1 DEF CloseRead
<1>26. ASSUME NEW c \in Child, ConnWrite(c) PROVE StreamInv'
  <2> SUFFICES ASSUME restarts = 0, "sem" \notin Faults
               PROVE  StreamInv'
      BY <1>26 DEF ConnWrite
  <2> DEFINE d == IF cpc[c] = "o_write" THEN 1 ELSE -1
             a == stale + streams[c] - early[c]
  <2>1. d \in Int /\ a \in Int
      OBVIOUS
  <2>2. \A e \in Child : e # c => cpc[e] = "dead"
      BY <1>26 DEF ConnWrite, ChildInv
  <2>3. number = a % NumberMod /\ number' = (number + d) % NumberMod
      BY <1>26 DEF ConnWrite
  <2>4. number' = (a + d) % NumberMod
    <3> HIDE DEF a, d, StreamInv, TypeInv
    <3>1. ((a % NumberMod) + d) % NumberMod = (a + d) % NumberMod
        BY <2>1, ModPlus
    <3> QED
        BY <2>3, <3>1
  <2>5. stale' + streams'[c] - early'[c] = a + d
      BY <1>26 DEF ConnWrite
  <2> QED
      BY <1>26, <2>2, <2>4, <2>5 DEF ConnWrite
<1>27. ASSUME NEW c \in Child, ChildUnlock(c) PROVE StreamInv'
    BY <1>27 DEF ChildUnlock
<1>28. ASSUME NEW c \in Child, ChildExit(c) PROVE StreamInv'
    BY <1>28, ExitChildCount DEF ChildExit
<1>29. CASE UNCHANGED vars
    BY <1>29
<1> QED
    BY <1>1, <1>2, <1>3, <1>4, <1>5, <1>6, <1>7, <1>8, <1>9, <1>10, <1>11,
       <1>12, <1>13, <1>14, <1>15, <1>16, <1>17, <1>18, <1>19, <1>20,
       <1>21, <1>22, <1>23, <1>24, <1>25, <1>26, <1>27, <1>28, <1>29 DEF
       Next, DaemonStep, ChildCall

\* ipc_stream_conn loses no update and counts none twice: the number in the
\* segment is that of the running vmp-sa, for any number of streams, through
\* every wrap of the counter and every kill.
THEOREM CountExact == Spec => []StreamCount
<1>1. Init => StreamInv
    BY DEF Init, StreamInv
<1>2. TypeInv /\ ChildInv /\ LockInv /\ StreamInv /\ [Next]_vars => StreamInv'
    BY StreamStep
<1>3. StreamInv => StreamCount
    BY DEF StreamInv, StreamCount, Alive
<1> QED
    BY <1>1, <1>2, <1>3, Invariants, PTL DEF Spec

-----------------------------------------------------------------------------
(* SEM_UNDO.                                                                *)

\* The processes for which the kernel will raise, and lower, the semaphore.
Raising == {p \in Procs : semadj[p] = 1}
Lowering == {p \in Procs : semadj[p] = -1}

\* What all exits together would add to the semaphore.
Pending == Cardinality(Raising) - Cardinality(Lowering)

\* A process inside a locked section has its permit to give back, unless SETALL
\* took that from it; then it owes one after its shm_unlock.  As long as the
\* daemon uses the semaphore there is a permit in it or pending.
UndoInv ==
    SemUndo =>
        /\ \A p \in Procs :
             semadj[p] \in IF p \notin semok THEN {0}
                          ELSE IF Holding(p) THEN {0, 1} ELSE {-1, 0}
        /\ Daemon \in semok => sem + Pending >= 1

\* The two sets of processes are finite.
LEMMA PendingType ==
    /\ IsFiniteSet(Procs)
    /\ Cardinality(Raising) \in Nat /\ Cardinality(Lowering) \in Nat
<1>1. IsFiniteSet(Procs)
    BY FS_AddElement DEF Procs
<1>2. IsFiniteSet(Raising) /\ IsFiniteSet(Lowering)
    BY <1>1, FS_Subset DEF Raising, Lowering
<1>3. Cardinality(Raising) \in Nat /\ Cardinality(Lowering) \in Nat
    BY <1>2, FS_CardinalityType
<1> QED
    BY <1>1, <1>3

\* One element more or less.
LEMMA CardWith ==
    ASSUME NEW S, IsFiniteSet(S), NEW x
    PROVE  /\ Cardinality(S \cup {x}) = Cardinality(S) + (IF x \in S THEN 0 ELSE 1)
           /\ Cardinality(S \ {x}) = Cardinality(S) - (IF x \in S THEN 1 ELSE 0)
<1>1. Cardinality(S) \in Nat
    BY FS_CardinalityType
<1>2. Cardinality(S \cup {x}) = IF x \in S THEN Cardinality(S) ELSE Cardinality(S) + 1
    BY FS_AddElement
<1>3. Cardinality(S \ {x}) = IF x \in S THEN Cardinality(S) - 1 ELSE Cardinality(S)
    BY FS_RemoveElement
<1> QED
    BY <1>1, <1>2, <1>3

\* When the undo of one process changes, the sum changes by the same.
LEMMA PendingChange ==
    ASSUME TypeInv, NEW p \in Procs, NEW a \in {-1, 0, 1},
           semadj[p] \in {-1, 0, 1},
           semadj' = [semadj EXCEPT ![p] = a]
    PROVE  Pending' = Pending + a - semadj[p]
<1>1. IsFiniteSet(Raising) /\ IsFiniteSet(Lowering)
    BY PendingType, FS_Subset DEF Raising, Lowering
<1>2. Cardinality(Raising) \in Nat /\ Cardinality(Lowering) \in Nat
    BY PendingType
<1>3. \A x \in Procs : semadj'[x] = IF x = p THEN a ELSE semadj[x]
    BY DEF TypeInv, TypeOK
<1>4. Raising' = IF a = 1 THEN Raising \cup {p} ELSE Raising \ {p}
    BY <1>3 DEF Raising
<1>5. Lowering' = IF a = -1 THEN Lowering \cup {p} ELSE Lowering \ {p}
    BY <1>3 DEF Lowering
<1>6. (p \in Raising <=> semadj[p] = 1) /\ (p \in Lowering <=> semadj[p] = -1)
    BY DEF Raising, Lowering
<1>7. Cardinality(Raising') = Cardinality(Raising)
        + (IF a = 1 THEN 1 ELSE 0) - (IF semadj[p] = 1 THEN 1 ELSE 0)
  <2>1. /\ Cardinality(Raising \cup {p})
             = Cardinality(Raising) + (IF p \in Raising THEN 0 ELSE 1)
        /\ Cardinality(Raising \ {p})
             = Cardinality(Raising) - (IF p \in Raising THEN 1 ELSE 0)
      BY <1>1, CardWith
  <2> QED
      BY <1>2, <1>4, <1>6, <2>1
<1>8. Cardinality(Lowering') = Cardinality(Lowering)
        + (IF a = -1 THEN 1 ELSE 0) - (IF semadj[p] = -1 THEN 1 ELSE 0)
  <2>1. /\ Cardinality(Lowering \cup {p})
             = Cardinality(Lowering) + (IF p \in Lowering THEN 0 ELSE 1)
        /\ Cardinality(Lowering \ {p})
             = Cardinality(Lowering) - (IF p \in Lowering THEN 1 ELSE 0)
      BY <1>1, CardWith
  <2> QED
      BY <1>2, <1>5, <1>6, <2>1
<1> QED
    BY <1>2, <1>7, <1>8 DEF Pending

\* Steps that leave the semaphore alone and enter or leave no locked section.
LEMMA UndoStay ==
    ASSUME UndoInv, sem' = sem, semadj' = semadj, semok' = semok,
           \A x \in Procs : Holding(x)' <=> Holding(x)
    PROVE  UndoInv'
<1>1. Pending' = Pending
    BY DEF Pending, Raising, Lowering
<1> HIDE DEF Holding
<1> QED
    BY <1>1 DEF UndoInv

\* The undo of every process is one of three values.
LEMMA UndoValues ==
    ASSUME SemUndo, UndoInv
    PROVE  \A p \in Procs : semadj[p] \in {-1, 0, 1}
BY DEF UndoInv

\* shm_lock takes a permit and has one to give back instead.
LEMMA UndoTake ==
    ASSUME TypeInv, UndoInv, NEW p \in Procs, Lock(p),
           ~Holding(p), Holding(p)',
           \A x \in Procs \ {p} : Holding(x)' <=> Holding(x)
    PROVE  UndoInv'
<1> HIDE DEF Holding
<1> SUFFICES ASSUME SemUndo PROVE UndoInv'
    BY DEF UndoInv
<1>1. CASE p \notin semok
  <2>1. Pending' = Pending
      BY <1>1 DEF Lock, semVars, Pending, Raising, Lowering
  <2> QED
      BY <1>1, <2>1 DEF UndoInv, Lock, semVars
<1>2. CASE p \in semok
  <2>1. semadj[p] \in {-1, 0}
      BY <1>2 DEF UndoInv
  <2>2. semadj' = [semadj EXCEPT ![p] = semadj[p] + 1]
      BY <1>2 DEF Lock, Undo
  <2>3. Pending' = Pending + 1
    <3>1. semadj[p] + 1 \in {-1, 0, 1} /\ semadj[p] \in {-1, 0, 1}
        BY <2>1
    <3>2. Pending' = Pending + (semadj[p] + 1) - semadj[p]
        BY <2>2, <3>1, PendingChange
    <3>3. Pending \in Int
        BY PendingType DEF Pending
    <3> QED
        BY <2>1, <3>2, <3>3
  <2>4. Daemon \in semok => sem' + Pending' >= 1
      BY <1>2, <2>3, PendingType DEF UndoInv, Lock, Pending, TypeInv, TypeOK
  <2>5. \A x \in Procs : semadj'[x] = IF x = p THEN semadj[p] + 1 ELSE semadj[x]
      BY <2>2 DEF TypeInv, TypeOK
  <2>6. semok' = semok
      BY <1>2 DEF Lock
  <2>7. \A x \in Procs :
          semadj'[x] \in IF x \notin semok' THEN {0}
                        ELSE IF Holding(x)' THEN {0, 1} ELSE {-1, 0}
    <3> TAKE x \in Procs
    <3>1. CASE x = p
      <4>1. semadj'[p] \in {0, 1}
          BY <2>1, <2>5
      <4> QED
          BY <1>2, <2>6, <3>1, <4>1
    <3>2. CASE x # p
        BY <2>5, <2>6, <3>2 DEF UndoInv
    <3> QED
        BY <3>1, <3>2
  <2> QED
      BY <2>4, <2>6, <2>7 DEF UndoInv
<1> QED
    BY <1>1, <1>2

\* shm_unlock gives the permit back, and owes one if SETALL had done so before.
LEMMA UndoGive ==
    ASSUME TypeInv, UndoInv, NEW p \in Procs, Unlock(p),
           Holding(p), ~Holding(p)',
           \A x \in Procs \ {p} : Holding(x)' <=> Holding(x)
    PROVE  UndoInv'
<1> HIDE DEF Holding
<1> SUFFICES ASSUME SemUndo PROVE UndoInv'
    BY DEF UndoInv
<1>1. CASE p \notin semok
  <2>1. Pending' = Pending
      BY <1>1 DEF Unlock, semVars, Pending, Raising, Lowering
  <2> QED
      BY <1>1, <2>1 DEF UndoInv, Unlock, semVars
<1>2. CASE p \in semok
  <2>1. semadj[p] \in {0, 1}
      BY <1>2 DEF UndoInv
  <2>2. semadj' = [semadj EXCEPT ![p] = semadj[p] - 1]
      BY <1>2 DEF Unlock, Undo
  <2>3. Pending' = Pending - 1
    <3>1. semadj[p] - 1 \in {-1, 0, 1} /\ semadj[p] \in {-1, 0, 1}
        BY <2>1
    <3>2. Pending' = Pending + (semadj[p] - 1) - semadj[p]
        BY <2>2, <3>1, PendingChange
    <3>3. Pending \in Int
        BY PendingType DEF Pending
    <3> QED
        BY <2>1, <3>2, <3>3
  <2>4. Daemon \in semok => sem' + Pending' >= 1
      BY <1>2, <2>3, PendingType DEF UndoInv, Unlock, Pending, TypeInv, TypeOK
  <2>5. \A x \in Procs : semadj'[x] = IF x = p THEN semadj[p] - 1 ELSE semadj[x]
      BY <2>2 DEF TypeInv, TypeOK
  <2>6. semok' = semok
      BY <1>2 DEF Unlock
  <2>7. \A x \in Procs :
          semadj'[x] \in IF x \notin semok' THEN {0}
                        ELSE IF Holding(x)' THEN {0, 1} ELSE {-1, 0}
    <3> TAKE x \in Procs
    <3>1. CASE x = p
      <4>1. semadj'[p] \in {-1, 0}
          BY <2>1, <2>5
      <4> QED
          BY <1>2, <2>6, <3>1, <4>1
    <3>2. CASE x # p
        BY <2>5, <2>6, <3>2 DEF UndoInv
    <3> QED
        BY <3>1, <3>2
  <2> QED
      BY <2>4, <2>6, <2>7 DEF UndoInv
<1> QED
    BY <1>1, <1>2

\* When a process exits the kernel applies its undo; where the semaphore cannot
\* go below 0 it only keeps more permits than it should.
LEMMA UndoExit ==
    ASSUME TypeInv, UndoInv, NEW p \in Procs, ExitSem(p),
           ~Holding(p)',
           \A x \in Procs \ {p} : Holding(x)' <=> Holding(x)
    PROVE  UndoInv'
<1> HIDE DEF Holding
<1> SUFFICES ASSUME SemUndo PROVE UndoInv'
    BY DEF UndoInv
<1>1. semadj[p] \in {-1, 0, 1}
    BY UndoValues
<1>2. semadj' = [semadj EXCEPT ![p] = 0] /\ semok' = semok \ {p}
    BY DEF ExitSem
<1>3. Pending' = Pending + 0 - semadj[p]
    BY <1>1, <1>2, PendingChange
<1>4. Pending \in Int
    BY PendingType DEF Pending
<1>5. Daemon \in semok => sem' + Pending' >= 1
    BY <1>1, <1>3, <1>4 DEF UndoInv, ExitSem, TypeInv, TypeOK
<1>6. \A x \in Procs : semadj'[x] = IF x = p THEN 0 ELSE semadj[x]
    BY <1>2 DEF TypeInv, TypeOK
<1> QED
    BY <1>2, <1>5, <1>6 DEF UndoInv

\* The exit of the daemon, at any point.
LEMMA UndoExitDaemon ==
    ASSUME TypeInv, UndoInv, ExitDaemon
    PROVE  UndoInv'
<1>1. ~Holding(Daemon)' /\ ExitSem(Daemon) /\ Daemon \in Procs
    BY DEF ExitDaemon, Holding, DaemonCS, Procs
<1>2. \A x \in Procs \ {Daemon} : Holding(x)' <=> Holding(x)
    BY DEF ExitDaemon, Holding
<1> QED
    BY <1>1, <1>2, UndoExit

\* The exit of a vmp-sa, at any point.
LEMMA UndoExitChild ==
    ASSUME TypeInv, UndoInv, NEW c \in Child, ExitChild(c), dpc' = dpc
    PROVE  UndoInv'
<1>1. ~Holding(c)' /\ ExitSem(c) /\ c \in Procs
    BY DEF ExitChild, Holding, ChildCS, Procs, TypeInv, TypeOK
<1>2. \A x \in Procs \ {c} : Holding(x)' <=> Holding(x)
    BY DEF ExitChild, Holding, TypeInv, TypeOK, Procs
<1> QED
    BY <1>1, <1>2, UndoExit

\* Every step keeps a permit in the semaphore or pending, through the death of
\* any process and the SETALL of any daemon.
LEMMA UndoStep ==
    ASSUME TypeInv, UndoInv, [Next]_vars
    PROVE  UndoInv'
<1> USE DEF TypeInv, TypeOK, Procs, Holding, DaemonCS, ChildCS,
            vars, semVars, shmVars, ghostVars, localVars, hostVars
<1>1. CASE SemOpen
  <2>1. CASE sem' = 1 /\ semadj' = [x \in Procs |-> 0]
    <3>1. \A x \in Procs : semadj'[x] = 0
        BY <2>1
    <3>2. Pending' = 0
      <4>1. Raising' = {} /\ Lowering' = {}
          BY <3>1 DEF Raising, Lowering
      <4> QED
          BY <4>1, FS_EmptySet DEF Pending
    <3> HIDE DEF Holding
    <3> QED
        BY <2>1, <3>1, <3>2 DEF UndoInv
  <2>2. CASE UNCHANGED semVars
    <3>1. \A x \in Procs : Holding(x)' <=> Holding(x)
        BY <1>1 DEF SemOpen
    <3> QED
        BY <2>2, <3>1, UndoStay
  <2> QED
      BY <1>1, <2>1, <2>2 DEF SemOpen
<1>2. CASE ShmOpen
  <2>1. /\ sem' = sem /\ semadj' = semadj /\ semok' = semok
        /\ \A x \in Procs : Holding(x)' <=> Holding(x)
      BY <1>2 DEF ShmOpen
  <2> QED
      BY <2>1, UndoStay
<1>3. CASE DaemonClear
  <2>1. CASE shmbuf[Daemon] = "ok"
    <3>1. /\ sem' = sem /\ semadj' = semadj /\ semok' = semok
          /\ \A x \in Procs : Holding(x)' <=> Holding(x)
        BY <1>3, <2>1 DEF DaemonClear
    <3> QED
        BY <3>1, UndoStay
  <2>2. CASE shmbuf[Daemon] # "ok"
    <3>1. ExitDaemon
        BY <1>3, <2>2 DEF DaemonClear
    <3> QED
        BY <3>1, UndoExitDaemon
  <2> QED
      BY <2>1, <2>2
<1>4. CASE TickInc
  <2>1. /\ sem' = sem /\ semadj' = semadj /\ semok' = semok
        /\ \A x \in Procs : Holding(x)' <=> Holding(x)
      BY <1>4 DEF TickInc
  <2> QED
      BY <2>1, UndoStay
<1>5. CASE TickWrite
  <2>1. /\ sem' = sem /\ semadj' = semadj /\ semok' = semok
        /\ \A x \in Procs : Holding(x)' <=> Holding(x)
      BY <1>5 DEF TickWrite
  <2> QED
      BY <2>1, UndoStay
<1>6. CASE TickCopy
  <2>1. /\ sem' = sem /\ semadj' = semadj /\ semok' = semok
        /\ \A x \in Procs : Holding(x)' <=> Holding(x)
      BY <1>6 DEF TickCopy
  <2> QED
      BY <2>1, UndoStay
<1>7. CASE DaemonUnlock
  <2>1. Holding(Daemon) /\ ~Holding(Daemon)'
      BY <1>7 DEF DaemonUnlock, Starved
  <2>2. \A x \in Procs \ {Daemon} : Holding(x)' <=> Holding(x)
      BY <1>7 DEF DaemonUnlock
  <2>3. Unlock(Daemon) /\ Daemon \in Procs
      BY <1>7 DEF DaemonUnlock
  <2> HIDE DEF Holding, TypeInv
  <2> QED
      BY <2>1, <2>2, <2>3, UndoGive
<1>8. CASE Loop
  <2>1. /\ sem' = sem /\ semadj' = semadj /\ semok' = semok
        /\ \A x \in Procs : Holding(x)' <=> Holding(x)
      BY <1>8 DEF Loop
  <2> QED
      BY <2>1, UndoStay
<1>9. CASE KillAppEnd
  <2>1. /\ sem' = sem /\ semadj' = semadj /\ semok' = semok
        /\ \A x \in Procs : Holding(x)' <=> Holding(x)
      BY <1>9 DEF KillAppEnd
  <2> QED
      BY <2>1, UndoStay
<1>10. CASE AbortEnd
    BY <1>10, UndoExitDaemon DEF AbortEnd
<1>11. CASE RunProcessFails
  <2>1. /\ sem' = sem /\ semadj' = semadj /\ semok' = semok
        /\ \A x \in Procs : Holding(x)' <=> Holding(x)
      BY <1>11 DEF RunProcessFails
  <2> QED
      BY <2>1, UndoStay
<1>12. CASE SharedDone
  <2>1. \A x \in Procs : Holding(x)' <=> Holding(x)
      BY <1>12 DEF SharedDone
  <2>2. CASE Daemon \in semok
    <3>1. semok' = {} /\ \A x \in Procs : semadj'[x] = 0
        BY <1>12, <2>2 DEF SharedDone
    <3> HIDE DEF Holding
    <3> QED
        BY <3>1 DEF UndoInv
  <2>3. CASE Daemon \notin semok
    <3>1. UNCHANGED semVars
        BY <1>12, <2>3 DEF SharedDone
    <3> QED
        BY <2>1, <3>1, UndoStay
  <2> QED
      BY <2>2, <2>3
<1>13. CASE DaemonLock
  <2>1. ~Holding(Daemon) /\ Holding(Daemon)'
      BY <1>13 DEF DaemonLock
  <2>2. \A x \in Procs \ {Daemon} : Holding(x)' <=> Holding(x)
      BY <1>13 DEF DaemonLock
  <2>3. Lock(Daemon) /\ Daemon \in Procs
      BY <1>13 DEF DaemonLock
  <2> HIDE DEF Holding, TypeInv
  <2> QED
      BY <2>1, <2>2, <2>3, UndoTake
<1>14. CASE Stop
  <2>1. /\ sem' = sem /\ semadj' = semadj /\ semok' = semok
        /\ \A x \in Procs : Holding(x)' <=> Holding(x)
      BY <1>14 DEF Stop
  <2> QED
      BY <2>1, UndoStay
<1>15. CASE Done
  <2>1. /\ sem' = sem /\ semadj' = semadj /\ semok' = semok
        /\ \A x \in Procs : Holding(x)' <=> Holding(x)
      BY <1>15 DEF Done
  <2> QED
      BY <2>1, UndoStay
<1>16. CASE DaemonCrash
    BY <1>16, UndoExitDaemon DEF DaemonCrash
<1>17. CASE DaemonStart
  <2>1. /\ sem' = sem /\ semadj' = semadj /\ semok' = semok
        /\ \A x \in Procs : Holding(x)' <=> Holding(x)
      BY <1>17 DEF DaemonStart
  <2> QED
      BY <2>1, UndoStay
<1>18. ASSUME NEW c \in Child, KillApp(c) PROVE UndoInv'
    BY <1>18, UndoExitChild DEF KillApp
<1>19. ASSUME NEW c \in Child, RunProcess(c) PROVE UndoInv'
  <2>1. /\ sem' = sem /\ semadj' = semadj /\ semok' = semok
        /\ \A x \in Procs : Holding(x)' <=> Holding(x)
      BY <1>19 DEF RunProcess
  <2> QED
      BY <2>1, UndoStay
<1>20. ASSUME NEW c \in Child, ShareInit(c) PROVE UndoInv'
  <2>1. ~Holding(c) /\ \A x \in Procs : Holding(x)' <=> Holding(x)
      BY <1>20 DEF ShareInit
  <2>2. /\ sem' = sem /\ semadj' = semadj
        /\ semok' = semok \/ semok' = semok \cup {c}
        /\ c # Daemon
      BY <1>20 DEF ShareInit
  <2>3. Pending' = Pending
      BY <2>2 DEF Pending, Raising, Lowering
  <2> HIDE DEF Holding
  <2> QED
      BY <2>1, <2>2, <2>3 DEF UndoInv
<1>21. ASSUME NEW c \in Child, FeedEnter(c) PROVE UndoInv'
  <2>1. ~Holding(c) /\ Holding(c)'
      BY <1>21 DEF FeedEnter, Enter
  <2>2. \A x \in Procs \ {c} : Holding(x)' <=> Holding(x)
      BY <1>21 DEF FeedEnter, Enter
  <2>3. Lock(c) /\ c \in Procs
      BY <1>21 DEF FeedEnter, Enter
  <2> HIDE DEF Holding, TypeInv
  <2> QED
      BY <2>1, <2>2, <2>3, UndoTake
<1>22. ASSUME NEW c \in Child, ConnEnter(c) PROVE UndoInv'
  <2>1. ~Holding(c) /\ Holding(c)'
      BY <1>22 DEF ConnEnter, Enter
  <2>2. \A x \in Procs \ {c} : Holding(x)' <=> Holding(x)
      BY <1>22 DEF ConnEnter, Enter
  <2>3. Lock(c) /\ c \in Procs
      BY <1>22 DEF ConnEnter, Enter
  <2> HIDE DEF Holding, TypeInv
  <2> QED
      BY <2>1, <2>2, <2>3, UndoTake
<1>23. ASSUME NEW c \in Child, FeedWrite(c) PROVE UndoInv'
  <2>1. /\ sem' = sem /\ semadj' = semadj /\ semok' = semok
        /\ \A x \in Procs : Holding(x)' <=> Holding(x)
      BY <1>23 DEF FeedWrite
  <2> QED
      BY <2>1, UndoStay
<1>24. ASSUME NEW c \in Child, OpenRead(c) PROVE UndoInv'
  <2>1. /\ sem' = sem /\ semadj' = semadj /\ semok' = semok
        /\ \A x \in Procs : Holding(x)' <=> Holding(x)
      BY <1>24 DEF OpenRead
  <2> QED
      BY <2>1, UndoStay
<1>25. ASSUME NEW c \in Child, CloseRead(c) PROVE UndoInv'
  <2>1. /\ sem' = sem /\ semadj' = semadj /\ semok' = semok
        /\ \A x \in Procs : Holding(x)' <=> Holding(x)
      BY <1>25 DEF CloseRead
  <2> QED
      BY <2>1, UndoStay
<1>26. ASSUME NEW c \in Child, ConnWrite(c) PROVE UndoInv'
  <2>1. /\ sem' = sem /\ semadj' = semadj /\ semok' = semok
        /\ \A x \in Procs : Holding(x)' <=> Holding(x)
      BY <1>26 DEF ConnWrite
  <2> QED
      BY <2>1, UndoStay
<1>27. ASSUME NEW c \in Child, ChildUnlock(c) PROVE UndoInv'
  <2>1. Holding(c) /\ ~Holding(c)'
      BY <1>27 DEF ChildUnlock
  <2>2. \A x \in Procs \ {c} : Holding(x)' <=> Holding(x)
      BY <1>27 DEF ChildUnlock
  <2>3. Unlock(c) /\ c \in Procs
      BY <1>27 DEF ChildUnlock
  <2> HIDE DEF Holding, TypeInv
  <2> QED
      BY <2>1, <2>2, <2>3, UndoGive
<1>28. ASSUME NEW c \in Child, ChildExit(c) PROVE UndoInv'
    BY <1>28, UndoExitChild DEF ChildExit
<1>29. CASE UNCHANGED vars
  <2>1. \A x \in Procs : Holding(x)' <=> Holding(x)
      BY <1>29
  <2> QED
      BY <1>29, <2>1, UndoStay
<1> QED
    BY <1>1, <1>2, <1>3, <1>4, <1>5, <1>6, <1>7, <1>8, <1>9, <1>10, <1>11,
       <1>12, <1>13, <1>14, <1>15, <1>16, <1>17, <1>18, <1>19, <1>20,
       <1>21, <1>22, <1>23, <1>24, <1>25, <1>26, <1>27, <1>28, <1>29 DEF
       Next, DaemonStep, ChildCall

\* With SEM_UNDO no daemon waits for a semaphore that nobody holds, however
\* often it is started again and whichever system calls fail: the kernel gives
\* back what a killed vmp-sa took, and SETALL makes up for what it voids.
THEOREM LockIsFreed == Spec => []UndoFreesLock
<1>1. Init => UndoInv
    BY DEF Init, UndoInv, Procs, Holding, DaemonCS, ChildCS
<1>2. TypeInv /\ UndoInv /\ [Next]_vars => UndoInv'
    BY UndoStep
<1>3. TypeInv /\ UndoInv => UndoFreesLock
  <2> SUFFICES ASSUME UndoInv, TypeInv, SemUndo, Daemon \in semok, sem = 0,
                      \A p \in Procs : ~Holding(p)
               PROVE  FALSE
      BY DEF UndoFreesLock, Orphaned
  <2> HIDE DEF Holding
  <2>1. \A p \in Procs : semadj[p] # 1
      BY DEF UndoInv
  <2>2. Raising = {}
      BY <2>1 DEF Raising
  <2>3. Cardinality(Raising) = 0 /\ Cardinality(Lowering) \in Nat
      BY <2>2, PendingType, FS_EmptySet
  <2>4. Pending = 0 - Cardinality(Lowering) /\ 0 + Pending >= 1
      BY <2>3 DEF Pending, UndoInv
  <2> QED
      BY <2>3, <2>4
<1> QED
    BY <1>1, <1>2, <1>3, Invariants, PTL DEF Spec
=============================================================================
