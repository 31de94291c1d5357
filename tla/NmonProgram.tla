----------------------------- MODULE NmonProgram ----------------------------
(***************************************************************************)
(* The program nmon: the sampling loop (NmonLoop), the keys and their      *)
(* tables (NmonKeys), the disks (NmonDisks), the processes (NmonProcs) and *)
(* the signals and children of a recording (NmonSignals).  They share no   *)
(* state, so a behaviour is of one part, which its initial state chooses;  *)
(* the variables of the other parts stand still, and a variable that two   *)
(* of them name alike is used by whichever is chosen.                      *)
(***************************************************************************)
EXTENDS NmonLoop, FiniteSets

CONSTANTS
    KeySets, MaxTyped, Disks, Mount, Listed, MAX_SNAPS, ARGSMAX, IntBits,   \* NmonKeys
    Lines, DISKMAX, Groups,         \* NmonDisks
    Nmon, Pids, Growth,             \* NmonProcs
    MaxSnap, MaxLoops, LoopCap, MaxSecs     \* NmonSignals

\* a process listed by ps has a positive number, so it is no mark of arglist
ASSUME KeysAssumption ==
    /\ IsFiniteSet(Listed) /\ Listed \subseteq Nat \ {0}
    /\ MAX_SNAPS \in Nat \ {0} /\ ARGSMAX \in Nat

\* a disk has one line
ASSUME DisksAssumption ==
    /\ Lines \in Seq(STRING) /\ IsInjective(Lines)
    /\ DISKMAX \in Nat \ {0}
    /\ \A g \in Groups : g \in Seq(STRING)

ASSUME ProcsAssumption == IsFiniteSet(Pids) /\ Nmon \notin Pids /\ Growth \in Nat

ASSUME SignalsAssumption == MaxSnap \in Nat

VARIABLES
    part, step,
    keys, left, use_env, buf, i, flag, opt, seconds, wrapped, fd, mounted, jfs_loaded, open,
    closed0, snap, next_cpu_snap, cpu_snap_all, saved, arglist, loaded,
    disk_mode, moved, dk, disks, seen, start, group, data, p, phase, line, used,
    live, procs, records, topper_size, topper, todo, count,
    loop, maxloops, secs, woken, child, snapPid, chld, handling, usr, early

keysOnly ==
    <<keys, left, use_env, buf, i, flag, opt, seconds, wrapped, fd, mounted, jfs_loaded, open,
      closed0, snap, next_cpu_snap, cpu_snap_all, saved, arglist, loaded>>
disksOnly == <<disk_mode, moved, dk, seen, start, group, data, phase, line, used>>
procsOnly == <<live, procs, records, topper_size, topper, todo, count>>
signalsOnly == <<loop, maxloops, secs, woken, child, snapPid, chld, handling, usr, early>>
all == <<part, vars, step, keysOnly, disks, disksOnly, p, procsOnly, signalsOnly>>

Keys == INSTANCE NmonKeys WITH pc <- step, Procs <- Listed
DiskTables == INSTANCE NmonDisks
Procs == INSTANCE NmonProcs WITH pc <- step
Signals == INSTANCE NmonSignals WITH pc <- step, Snaps <- 1 .. MaxSnap

(* the values of parts that stand still *)
LoopIdle == Init /\ session = CHOOSE s \in Sessions : TRUE
KeysIdle ==
    /\ keys = 0 /\ left = 0 /\ use_env = 0 /\ buf = 0 /\ i = 0 /\ flag = 0 /\ opt = 0
    /\ seconds = 0 /\ wrapped = FALSE /\ fd = 0 /\ mounted = 0 /\ jfs_loaded = 0 /\ open = 0
    /\ closed0 = 0 /\ snap = 0 /\ next_cpu_snap = 0 /\ cpu_snap_all = 0 /\ saved = 0
    /\ arglist = 0 /\ loaded = 0
DisksIdle ==
    /\ disk_mode = 0 /\ moved = 0 /\ dk = 0 /\ seen = 0 /\ start = 0 /\ group = 0
    /\ data = 0 /\ phase = 0 /\ line = 0 /\ used = 0
ProcsIdle ==
    /\ live = 0 /\ procs = 0 /\ records = 0 /\ topper_size = 0 /\ topper = 0 /\ todo = 0
    /\ count = 0
SignalsIdle ==
    /\ loop = 0 /\ maxloops = 0 /\ secs = 0 /\ woken = 0 /\ child = 0 /\ snapPid = 0
    /\ chld = 0 /\ handling = FALSE /\ usr = FALSE /\ early = 0

AllInit ==
    \/ part = "loop" /\ Init /\ step = "idle" /\ KeysIdle /\ disks = 0 /\ DisksIdle /\ p = 0
       /\ ProcsIdle /\ SignalsIdle
    \/ part = "keys" /\ Keys!Init /\ LoopIdle /\ DisksIdle /\ p = 0 /\ ProcsIdle /\ SignalsIdle
    \/ part = "disks" /\ DiskTables!Init /\ LoopIdle /\ step = "idle" /\ KeysIdle
       /\ ProcsIdle /\ SignalsIdle
    \/ part = "procs" /\ Procs!Init /\ LoopIdle /\ KeysIdle /\ disks = 0 /\ DisksIdle
       /\ SignalsIdle
    \/ part = "signals" /\ Signals!Init /\ LoopIdle /\ KeysIdle /\ disks = 0
       /\ DisksIdle /\ p = 0 /\ ProcsIdle

\* a step of one part
InLoop ==
    part = "loop" /\ UNCHANGED <<part, step, keysOnly, disks, disksOnly, p, procsOnly, signalsOnly>>
InKeys == part = "keys" /\ UNCHANGED <<part, vars, disksOnly, p, procsOnly, signalsOnly>>
InDisks == part = "disks" /\ UNCHANGED <<part, vars, step, keysOnly, procsOnly, signalsOnly>>
InProcs ==
    part = "procs" /\ UNCHANGED <<part, vars, keysOnly, disks, disksOnly, signalsOnly>>
InSignals ==
    part = "signals" /\ UNCHANGED <<part, vars, keysOnly, disks, disksOnly, p, procsOnly>>

AllNext ==
    \/ InLoop /\ Next
    \/ InKeys /\ Keys!Next
    \/ InDisks /\ DiskTables!Next
    \/ InProcs /\ Procs!Next
    \/ InSignals /\ Signals!Next

\* the fairness of NmonLoop, NmonKeys and NmonSignals
AllSpec ==
    /\ AllInit /\ [][AllNext]_all
    /\ WF_all(InLoop /\ (Begin \/ SectionStep \/ Switch))
    /\ WF_all(InKeys /\ Keys!Next)
    /\ WF_all(InSignals /\ (Signals!Main \/ Signals!Interrupt \/ Signals!InterruptEnds))
    /\ WF_all(InSignals /\ Signals!Interrupt)
    /\ WF_all(InSignals /\ Signals!Ends(Signals!Ps))
    /\ SF_all(InSignals /\ Signals!Sleep)
    /\ SF_all(InSignals /\ Signals!HeaderEnd)

-----------------------------------------------------------------------------
(* The properties of the other parts                                        *)

\* The keyboard is read until nmon is told to quit, but for the two known
\* ways to lose it: `0' typed late, and an overflow of `+' (lmon16f.c:8666).
KeysAreRead == part = "keys" => Keys!InputStaysAlive

\* Descriptors of mount points, the ring of the long-term graph and the list
\* of command lines are what the keys pressed so far ask for (lmon16f.c:3446,
\* 2642, 935).
KeysTables == part = "keys" => Keys!TablesFollowKeys

\* A disk is compared with itself, and a group has its disks, except after a
\* first transfer or behind an unknown name (lmon16f.c:2296, 2998).
DisksCompared == part = "disks" => DiskTables!DisksPairUp

\* Processes that start between counting and reading overrun no table
\* (lmon16f.c:8301).
ProcsInBounds == part = "procs" => Procs!TablesInBounds

\* child_start kills a process only while it is an unreaped child of nmon,
\* unless it ended before its number was stored (lmon16f.c:4219).
SnapKilled == part = "signals" => Signals!KillsItsChild

\* SIGUSR1 ends a recording at whatever moment it arrives, unless the handler
\* of SIGCHLD waits for a command that does not end (lmon16f.c:2787, 2775).
UsrStops == part = "signals" => Signals!StopsAfterSignal
=============================================================================
