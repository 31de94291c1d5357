------------------------------ MODULE LoadSystem ------------------------------
(***************************************************************************)
(* The sampler of load/load_system.c with the readers of vmp/vmp_nmon.c,    *)
(* and the handler of load/load_node_state.c that reports what it found.    *)
(*                                                                          *)
(* Once per interval system_net_proc reads /proc/net/dev, /proc/stat and    *)
(* /proc/meminfo into one of two buffers and publishes the difference to    *)
(* the other.  Each file is cached: read_this_interval keeps proc_read from *)
(* reading it twice, proc_cpu_done keeps proc_cpu from using it twice.  The *)
(* handler runs on the RPC server's thread and reads the published fields   *)
(* one by one without a lock.                                               *)
(*                                                                          *)
(* A line of /proc/net/dev is its byte counter (uplink and downlink are     *)
(* treated alike, uplink stands for both), /proc/stat is the idle and the   *)
(* busy time, /proc/meminfo the free memory; the kernel says anything at    *)
(* each reading, but that the clock has ticked since the last.  The share   *)
(* of idle time is the pair of which the code computes the quotient.        *)
(***************************************************************************)
EXTENDS Integers, Sequences

CONSTANTS
    NetMax,    \* VMP_NETMAX: slots of a buffer for interfaces
    Tables,    \* bound: what /proc/net/dev may hold, a counter per interface
    Memory,    \* bound: the values MemFree takes
    CpuMod,    \* the clock's counters are taken modulo CpuMod
    MemTotal,  \* MemTotal of /proc/meminfo
    MemMod,    \* 2^64: memory is reported as an unsigned long
    Undef      \* a value of an uninitialised slot

ASSUME SystemAssumption == /\ NetMax \in Nat \ {0}
                           /\ \A t \in Tables : t \in Seq(Nat)
                           /\ Memory \subseteq 0 .. MemTotal /\ Memory # {}
                           /\ CpuMod \in Nat \ {0, 1}
                           /\ MemTotal \in Nat \ {0}
                           /\ MemMod \in Nat /\ MemMod > MemTotal
                           /\ Undef \notin Nat

VARIABLES
    spc, i,            \* where system_net_proc is; its loop counter
    p, which,          \* the buffer in use; the static of data_switcher
    ifnets, cpu_total, \* both buffers: interfaces, time
    mem,               \* p->mem, of which q's copy is never looked at
    stat, meminfo,     \* the cached files, proc[P_STAT] and proc[P_MEMINFO]
    read,              \* which of them have read_this_interval set
    proc_cpu_done,
    networks,          \* interfaces found in this interval
    uplink, cpu_idle, mem_total, mem_free,  \* the published fields
    hpc, memtotal,     \* where sc_node_state_func is; its local
    memory,            \* what it reported last
    lastRx, lastCpu, lastFree,  \* history: the previous and the latest
                                \* reading of each file
    sampled,           \* a first interval has been published
    settled            \* it had been when the request in hand began

bufVars == <<ifnets, cpu_total, mem>>
fileVars == <<stat, meminfo, read, proc_cpu_done>>
pubVars == <<uplink, cpu_idle, mem_total, mem_free>>
handVars == <<hpc, memtotal, memory, settled>>
histVars == <<lastRx, lastCpu, lastFree, sampled>>
vars == <<spc, i, p, which, bufVars, fileVars, networks, pubVars,
          handVars, histVars>>

q == 1 - p
Time == [idle : 0 .. CpuMod - 1, busy : 0 .. CpuMod - 1]
Slots == 1 .. NetMax

TypeOK ==
    /\ spc \in {"s_net", "s_cpu", "s_mem", "sleep", "net", "loop",
                "share", "mem", "total", "free", "fault"}
    /\ i \in 1 .. NetMax + 1
    /\ p \in {0, 1}
    /\ which \in {0, 1}
    /\ ifnets \in [{0, 1} -> [Slots -> Nat \cup {Undef}]]
    /\ cpu_total \in [{0, 1} -> Time]
    /\ mem \in Memory \cup {0}
    /\ stat \in Time
    /\ meminfo \in Memory \cup {0}
    /\ read \subseteq {"stat", "meminfo"}
    /\ proc_cpu_done \in BOOLEAN
    /\ networks \in 0 .. NetMax
    /\ uplink \in Nat
    /\ cpu_idle \in [idle : Nat, sum : Nat]
    /\ mem_total \in {0, MemTotal}
    /\ mem_free \in Memory \cup {0}
    /\ hpc \in {"idle", "read"}
    /\ memtotal \in {0, MemTotal}
    /\ memory \in 0 .. MemMod - 1
    /\ lastRx \in Seq(Nat) \X Seq(Nat)
    /\ lastCpu \in Time \X Time
    /\ lastFree \in (Memory \cup {0}) \X (Memory \cup {0})
    /\ sampled \in BOOLEAN
    /\ settled \in BOOLEAN

\* RAWTOTAL, on counters that make less than a turn between two readings.
Since(later, earlier) == (later - earlier) % CpuMod

Zero == [idle |-> 0, busy |-> 0]

\* load_system_create and load_system_start.
Init ==
    /\ spc = "s_net"
    /\ i = 1
    /\ p = 0
    /\ which = 1
    /\ ifnets = [b \in {0, 1} |-> [k \in Slots |-> Undef]]
    /\ cpu_total = [b \in {0, 1} |-> Zero]
    /\ mem = 0
    /\ stat = Zero
    /\ meminfo = 0
    /\ read = {}
    /\ proc_cpu_done = FALSE
    /\ networks = 0
    /\ uplink = 0
    /\ cpu_idle = [idle |-> 0, sum |-> 0]
    /\ mem_total = 0
    /\ mem_free = 0
    /\ hpc = "idle"
    /\ memtotal = 0
    /\ memory = 0
    /\ lastRx = <<<<>>, <<>>>>
    /\ lastCpu = <<Zero, Zero>>
    /\ lastFree = <<0, 0>>
    /\ sampled = FALSE
    /\ settled = FALSE

-----------------------------------------------------------------------------
(* vmp_nmon.c.                                                              *)

\* vmp_proc_net and system_interface_stat: at most NetMax lines are copied
\* into the slots of the buffers; the slots behind them keep what they had.
ProcNet(bufs, now) ==
    /\ networks' = IF Len(now) > NetMax THEN NetMax ELSE Len(now)
    /\ ifnets' = [b \in {0, 1} |-> [k \in Slots |->
                    IF b \in bufs /\ k <= networks' THEN now[k]
                                                    ELSE ifnets[b][k]]]
    /\ lastRx' = <<lastRx[2], SubSeq(now, 1, networks')>>

\* proc_read: within an interval the copy in memory is kept, otherwise it is
\* replaced by what the kernel says now.
ProcRead(file, held, now) == IF file \in read THEN held ELSE now

\* get_cpu_cnt with proc_read(P_STAT), then proc_cpu.
ProcCpu(bufs, now) ==
    LET cached == "stat" \in read
    IN  /\ stat' = ProcRead("stat", stat, now)
        /\ read' = read \cup {"stat"}
        /\ cpu_total' = [b \in {0, 1} |->
                           IF b \notin bufs \/ (cached /\ proc_cpu_done)
                           THEN cpu_total[b] ELSE stat']
        /\ proc_cpu_done' = TRUE
        /\ lastCpu' = <<lastCpu[2], now>>

\* vmp_proc_mem with proc_read(P_MEMINFO).
ProcMem(now) ==
    /\ meminfo' = ProcRead("meminfo", meminfo, now)
    /\ read' = read \cup {"meminfo"}
    /\ mem' = meminfo'
    /\ lastFree' = <<lastFree[2], now>>

-----------------------------------------------------------------------------
(* system_net_proc.                                                         *)

\* Before the loop each reading is put into both buffers.
StartNet ==
    /\ spc = "s_net"
    /\ \E now \in Tables : ProcNet({0, 1}, now)
    /\ spc' = "s_cpu"
    /\ UNCHANGED <<i, p, which, cpu_total, mem, fileVars, pubVars,
                   handVars, lastCpu, lastFree, sampled>>

StartCpu ==
    /\ spc = "s_cpu"
    /\ \E now \in Time : ProcCpu({0, 1}, now)
    /\ spc' = "s_mem"
    /\ UNCHANGED <<i, p, which, ifnets, mem, meminfo, networks,
                   pubVars, handVars, lastRx, lastFree, sampled>>

StartMem ==
    /\ spc = "s_mem"
    /\ \E now \in Memory : ProcMem(now)
    /\ spc' = "sleep"
    /\ UNCHANGED <<i, p, which, ifnets, cpu_total, stat,
                   proc_cpu_done, networks, pubVars, handVars, lastRx,
                   lastCpu, sampled>>

\* proc_init sets the names of proc[] only, and proc is on the stack: whatever
\* the flag, the file and the size of an entry happen to be is used, and the
\* first reading of a file goes well or ends the daemon.
StartFault ==
    /\ spc \in {"s_cpu", "s_mem"}
    /\ spc' = "fault"
    /\ UNCHANGED <<i, p, which, bufVars, fileVars, networks,
                   pubVars, handVars, histVars>>

\* Slips that the properties below must notice are written out next to the
\* definition they are slips of; no specification uses them.
SwitchNoReset ==
    /\ spc = "sleep"
    /\ p' = 1 - which
    /\ which' = 1 - which
    /\ spc' = "net"
    /\ UNCHANGED <<i, bufVars, fileVars, networks, pubVars,
                   handVars, histVars>>

SwitchSame ==
    /\ spc = "sleep"
    /\ read' = {}
    /\ spc' = "net"
    /\ UNCHANGED <<i, p, which, bufVars, stat, meminfo,
                   proc_cpu_done, networks, pubVars, handVars, histVars>>

SwitchClears ==
    /\ spc = "sleep"
    /\ p' = 1 - which
    /\ which' = 1 - which
    /\ read' = {}
    /\ mem_total' = 0
    /\ spc' = "net"
    /\ UNCHANGED <<i, bufVars, stat, meminfo, proc_cpu_done,
                   networks, uplink, cpu_idle, mem_free, handVars, histVars>>

\* The sleep is over: data_switcher exchanges the buffers (not the first time)
\* and lets the files be read again.
Switch ==
    /\ spc = "sleep"
    /\ p' = 1 - which
    /\ which' = 1 - which
    /\ read' = {}
    /\ spc' = "net"
    /\ UNCHANGED <<i, bufVars, stat, meminfo, proc_cpu_done,
                   networks, pubVars, handVars, histVars>>

NetRead ==
    /\ spc = "net"
    /\ \E now \in Tables : ProcNet({p}, now)
    /\ i' = 1
    /\ spc' = "loop"
    /\ UNCHANGED <<p, which, cpu_total, mem, fileVars, pubVars,
                   handVars, lastCpu, lastFree, sampled>>

\* IFDELTA, the possible results of it when q's slot was never written.
IfDelta(now, before) ==
    IF before = Undef THEN 0 .. now
                      ELSE {IF before > now THEN 0 ELSE now - before}

\* Every interface stores its rate into the same field.
NetStore ==
    /\ spc = "loop"
    /\ i <= networks
    /\ uplink' \in IfDelta(ifnets[p][i], ifnets[q][i])
    /\ i' = i + 1
    /\ UNCHANGED <<spc, p, which, bufVars, fileVars, networks,
                   cpu_idle, mem_total, mem_free, handVars, histVars>>

CpuRead ==
    /\ spc = "loop"
    /\ i > networks
    /\ \E now \in Time \ {lastCpu[2]} : ProcCpu({p}, now)
    /\ spc' = "share"
    /\ UNCHANGED <<i, p, which, ifnets, mem, meminfo, networks,
                   pubVars, handVars, lastRx, lastFree, sampled>>

\* RAWTOTAL of the idle time and of all time.
CpuStore ==
    /\ spc = "share"
    /\ LET idle == Since(cpu_total[p].idle, cpu_total[q].idle)
           busy == Since(cpu_total[p].busy, cpu_total[q].busy)
       IN  cpu_idle' = [idle |-> idle, sum |-> idle + busy]
    /\ spc' = "mem"
    /\ UNCHANGED <<i, p, which, bufVars, fileVars, networks,
                   uplink, mem_total, mem_free, handVars, histVars>>

MemRead ==
    /\ spc = "mem"
    /\ \E now \in Memory : ProcMem(now)
    /\ spc' = "total"
    /\ UNCHANGED <<i, p, which, ifnets, cpu_total, stat,
                   proc_cpu_done, networks, pubVars, handVars, lastRx,
                   lastCpu, sampled>>

MemTotalStore ==
    /\ spc = "total"
    /\ mem_total' = MemTotal
    /\ spc' = "free"
    /\ UNCHANGED <<i, p, which, bufVars, fileVars, networks,
                   uplink, cpu_idle, mem_free, handVars, histVars>>

MemFreeStore ==
    /\ spc = "free"
    /\ mem_free' = mem
    /\ sampled' = TRUE
    /\ spc' = "sleep"
    /\ UNCHANGED <<i, p, which, bufVars, fileVars, networks,
                   uplink, cpu_idle, mem_total, handVars, lastRx, lastCpu,
                   lastFree>>

-----------------------------------------------------------------------------
(* sc_node_state_func, on the RPC server's thread.                          *)

ReadTotal ==
    /\ hpc = "idle"
    /\ spc # "fault"
    /\ memtotal' = mem_total
    /\ settled' = sampled
    /\ hpc' = "read"
    /\ UNCHANGED <<spc, i, p, which, bufVars, fileVars, networks,
                   pubVars, memory, histVars>>

\* memory = memtotal - ls_mem_free_get(..), in an unsigned long.
ReadFree ==
    /\ hpc = "read"
    /\ spc # "fault"
    /\ memory' = (memtotal - mem_free) % MemMod
    /\ memtotal' = 0
    /\ hpc' = "idle"
    /\ UNCHANGED <<spc, i, p, which, bufVars, fileVars, networks,
                   pubVars, settled, histVars>>

-----------------------------------------------------------------------------
SystemStep == \/ StartNet \/ StartCpu \/ StartMem \/ StartFault
              \/ Switch \/ NetRead \/ NetStore
              \/ CpuRead \/ CpuStore \/ MemRead \/ MemTotalStore \/ MemFreeStore

Next == SystemStep \/ ReadTotal \/ ReadFree

\* The sampler's thread keeps running.
Fairness == WF_vars(SystemStep)

Spec == Init /\ [][Next]_vars

FairSpec == Spec /\ Fairness

-----------------------------------------------------------------------------
(* Correctness.                                                             *)

\* The idle share that is published covers exactly the time between the last
\* two readings of /proc/stat: the double buffer and the two flags that keep
\* the file from being read or used twice neither mix up nor hold back a
\* reading.  The sum is never 0, so the quotient exists.
CpuOfInterval ==
    TypeOK /\ ((spc \in {"mem", "total", "free"} \/ (spc = "sleep" /\ sampled)) =>
        LET idle == Since(lastCpu[2].idle, lastCpu[1].idle)
            busy == Since(lastCpu[2].busy, lastCpu[1].busy)
        IN  cpu_idle = [idle |-> idle, sum |-> idle + busy]
            /\ cpu_idle.sum > 0)

\* While the interfaces stay the same the rate left behind by the loop is that
\* of the last one since the previous reading, and 0 when its counter fell.
TrafficOfInterval ==
    (spc = "loop" /\ i > networks /\ networks > 0
       /\ Len(lastRx[1]) = Len(lastRx[2])) =>
        uplink = IF lastRx[1][networks] > lastRx[2][networks] THEN 0
                 ELSE lastRx[2][networks] - lastRx[1][networks]

\* A request that comes after the first sample is told no more memory than
\* there is, although total and free are read at two moments.
AnswerWithinTotal == (settled /\ hpc = "idle") => memory <= MemTotal

\* When the kernel's answers stop changing, what is published catches up, unless
\* the daemon has ended as it started.
MemoryCatchesUp ==
    \A m \in Memory :
        <>[](lastFree[2] = m) => <>[](mem_free = m \/ spc = "fault")
=============================================================================
