------------------------------ MODULE NmonKeys ------------------------------
(***************************************************************************)
(* The screen of nmon between two drawings (app/lmon16f.c): the wait of    *)
(* `seconds' seconds, the scan of the typed keys in checkinput, and the    *)
(* tables that keys change: the mount points and their descriptors, the    *)
(* ring of the long-term graph, the list of command lines.                 *)
(***************************************************************************)
EXTENDS Integers, Sequences, FiniteSets, FiniteSetsExt

CONSTANTS
    KeySets,    \* sets of keys a user presses in one session: "5" only for root,
                \* "G" only with automatic disk groups, "other" is no key of nmon
    MaxTyped,   \* bound: keys typed in one second
    Disks,      \* numbers of disks
    Mount,      \* entries of /etc/mtab
    Procs,      \* process numbers ps may list
    MAX_SNAPS, ARGSMAX,
    IntBits     \* width of an int

VARIABLES
    keys,       \* keys of this session
    disks,
    pc,         \* draw, check (checkinput is called), scan, exit
    left,       \* seconds left of the wait
    use_env,    \* $NMON is still to be taken as typed keys
    buf, i,     \* typed keys and the index of the scan
    flag,       \* plain switches that are on
    opt,        \* switches with more than two positions
    seconds,
    wrapped,    \* doubling seconds has overflowed
    fd, mounted, jfs_loaded,    \* the table jfs
    open, closed0,              \* descriptors jfs_load has open; it closed 0
    snap, next_cpu_snap, cpu_snap_all, saved,   \* the ring; samples saved since the last clear
    arglist, loaded             \* the command lines; processes ps listed last

screenVars == <<keys, disks, pc, left, use_env, buf, i>>
settingVars == <<flag, opt, seconds, wrapped>>
jfsVars == <<fd, mounted, jfs_loaded, open, closed0>>
snapVars == <<snap, next_cpu_snap, cpu_snap_all, saved>>
argVars == <<arglist, loaded>>
vars == <<screenVars, settingVars, jfsVars, snapVars, argVars>>

Slots == 0 .. (MAX_SNAPS - 1)
Args == 0 .. (ARGSMAX - 1)
Plain == {"b", "c", "C", "g", "k", "l", "L", "m", "o", "r", "U", "v", "V", "T", "G"}

Init ==
    /\ keys \in KeySets /\ disks \in Disks
    /\ pc = "draw" /\ left = 0 /\ use_env = TRUE /\ buf = <<>> /\ i = 0
    /\ flag = {"all"} /\ seconds = 2 /\ wrapped = FALSE
    /\ opt = [disk |-> "none", nfs |-> 0, mhz |-> 0, topmode |-> 1, args |-> FALSE,
              net |-> FALSE, neterror |-> 0, dotline |-> 0]
    /\ fd = [m \in Mount |-> 0] /\ mounted = {} /\ jfs_loaded = FALSE
    /\ open = {} /\ closed0 = FALSE
    /\ snap = [s \in Slots |-> 0] /\ next_cpu_snap = 0 /\ cpu_snap_all = FALSE /\ saved = <<>>
    /\ arglist = [a \in Args |-> 0] /\ loaded = {}

-----------------------------------------------------------------------------
(* Tables                                                                   *)

Signed(n) == LET w == n % 2 ^ IntBits IN IF w >= 2 ^ (IntBits - 1) THEN w - 2 ^ IntBits ELSE w

\* mutant: a mount point that is gone stays mounted
LoadKeepsMounted ==
    /\ jfs_loaded' = TRUE
    /\ \E there \in SUBSET Mount, opens \in SUBSET Mount :
         /\ fd' = [m \in Mount |-> IF m \in there THEN (IF m \in opens THEN 3 ELSE -1) ELSE fd[m]]
         /\ mounted' = (mounted \ (there \ opens)) \cup (there \cap opens)
         /\ open' = open \cup (there \cap opens)
    /\ UNCHANGED closed0

\* jfs_load(LOAD): stat and open of every mount point may fail
Load ==
    /\ jfs_loaded' = TRUE
    /\ \E there \in SUBSET Mount, opens \in SUBSET Mount :
         /\ fd' = [m \in Mount |-> IF m \in there THEN (IF m \in opens THEN 3 ELSE -1) ELSE fd[m]]
         /\ mounted' = there \cap opens
         /\ open' = open \cup (there \cap opens)
    /\ UNCHANGED closed0

\* the entries keep their mounted flag
Unload ==
    IF ~ jfs_loaded THEN UNCHANGED jfsVars
    ELSE /\ open' = open \ {m \in mounted : fd[m] = 3}
         /\ closed0' = (closed0 \/ \E m \in mounted : fd[m] = 0)
         /\ fd' = [m \in Mount |-> 0]
         /\ UNCHANGED <<mounted, jfs_loaded>>

SnapClear ==
    /\ snap' = [s \in Slots |-> 0] /\ next_cpu_snap' = 0 /\ cpu_snap_all' = FALSE
    /\ saved' = <<>>

SaveSnap(v) ==
    /\ snap' = [snap EXCEPT ![next_cpu_snap] = v]
    /\ next_cpu_snap' = (next_cpu_snap + 1) % MAX_SNAPS
    /\ cpu_snap_all' = (cpu_snap_all \/ next_cpu_snap + 1 >= MAX_SNAPS)
    /\ saved' = LET s == Append(saved, v) IN
                IF Len(s) > MAX_SNAPS THEN Tail(s) ELSE s

\* entries in use up to the first cleared one are freed and marked -1
Cleared ==
    LET end == {a \in Args : arglist[a] = -1}
        stops(a) == \E e \in end : e <= a
    IN  [a \in Args |-> IF stops(a) \/ arglist[a] = 0 THEN arglist[a] ELSE -1]

\* ps fails, or lists processes, of which the first ARGSMAX are kept
ArgsLoad ==
    \E n \in 0 .. Cardinality(Procs) :
        \E ps \in [1 .. n -> Procs] :
            /\ IsInjective(ps)
            /\ LET m == IF n > ARGSMAX THEN ARGSMAX ELSE n
               IN  /\ arglist' = [a \in Args |-> IF a < m THEN ps[a + 1] ELSE Cleared[a]]
                   /\ loaded' = {ps[j] : j \in 1 .. m}

\* args_lookup: the process's own name is used when it finds nothing
ArgsLookup(pid) ==
    LET found == {a \in Args : arglist[a] = pid}
    IN  \E a \in found : \A b \in Args : b < a => arglist[b] # -1

-----------------------------------------------------------------------------
(* The screen                                                               *)

\* one pass of the loop: the long-term graph saves a sample and is drawn
Draw ==
    /\ pc = "draw"
    /\ IF "l" \in flag THEN \E v \in {1, 2} : SaveSnap(v) ELSE UNCHANGED snapVars
    /\ opt' = IF "l" \in flag THEN [opt EXCEPT !.dotline = 0] ELSE opt
    /\ left' = seconds
    /\ pc' = IF seconds > 0 THEN "check" ELSE "draw"
    /\ UNCHANGED <<keys, disks, use_env, buf, i, flag, seconds, wrapped, jfsVars, argVars>>

\* sleep(1) and the start of checkinput: $NMON the first time, then the typed keys
Check ==
    /\ pc = "check"
    /\ use_env' = FALSE
    /\ \E n \in 0 .. MaxTyped : \E typed \in [1 .. n -> keys] :
         IF n = 0
         THEN /\ left' = left - 1
              /\ pc' = IF left > 1 THEN "check" ELSE "draw"
              /\ UNCHANGED <<buf, i>>
         ELSE buf' = typed /\ i' = 0 /\ pc' = "scan" /\ UNCHANGED left
    /\ UNCHANGED <<keys, disks, settingVars, jfsVars, snapVars, argVars>>

\* mutant: no lower limit
FasterNoLimit(n) == n \div 2

\* `-': the wait is halved, to one second at least
Faster(n) == IF n \div 2 < 1 THEN 1 ELSE n \div 2

\* what a key sets besides the tables
Setting(k) ==
    /\ flag' = CASE k \in Plain \cup {"j"} -> SymDiff(flag, {k})
                 [] k = "h" -> IF "h" \in flag THEN flag \ {"h"} ELSE (flag \cup {"h"}) \ {"v"}
                 [] k = "t" -> SymDiff(flag, {"T"})
                 [] k \in {"1", "3", "4", "5"} \/ (k = "u" /\ ~ opt.args) -> flag \cup {"T"}
                 [] k = "." -> SymDiff(flag, {"all"})
                 [] OTHER -> flag
    /\ opt' = CASE k = "D" -> [opt EXCEPT !.disk = IF @ = "stats" THEN "none" ELSE "stats"]
                [] k = "d" -> [opt EXCEPT !.disk = IF @ = "graph" THEN "none" ELSE "graph"]
                [] k = "N" -> [opt EXCEPT !.nfs = (@ + 1) % 4]
                [] k = "M" -> [opt EXCEPT !.mhz = (@ + 1) % 4]
                [] k = "n" -> [opt EXCEPT !.net = ~ @, !.neterror = IF opt.net THEN 0 ELSE 3]
                [] k = "1" -> [opt EXCEPT !.topmode = 1]
                [] k = "3" \/ k = "t" -> [opt EXCEPT !.topmode = 3]
                [] k = "4" -> [opt EXCEPT !.topmode = 4]
                [] k = "5" -> [opt EXCEPT !.topmode = 5]
                [] k = "u" -> [opt EXCEPT !.args = ~ @,
                                 !.topmode = IF opt.args \/ @ # 1 THEN @ ELSE 3]
                [] k = "6" -> [opt EXCEPT !.dotline = 6]
                [] OTHER -> opt
    /\ seconds' = CASE k = "+" -> Signed(seconds * 2)
                    [] k = "-" -> Faster(seconds)
                    [] OTHER -> seconds
    /\ wrapped' = (wrapped \/ (k = "+" /\ seconds * 2 # Signed(seconds * 2)))

Key ==
    /\ pc = "scan" /\ i < Len(buf)
    /\ LET k == buf[i + 1] IN
         /\ pc' = CASE k = "q" -> "exit"
                    [] k = "other" -> (IF left > 1 THEN "check" ELSE "draw")
                    [] OTHER -> "scan"
         /\ left' = IF k = "other" THEN left - 1 ELSE left
         /\ buf' = IF k = "other" THEN <<>> ELSE buf
         /\ i' = CASE k = "0" -> disks + 1     \* the resets of `0' use i, too
                   [] k = "other" -> 0
                   [] OTHER -> i + 1
         /\ Setting(k)
         /\ CASE k = "j" /\ "j" \notin flag -> Load
              [] k = "j" /\ "j" \in flag -> Unload
              [] OTHER -> UNCHANGED jfsVars
         /\ IF k = "0" THEN SnapClear ELSE UNCHANGED snapVars
         /\ IF k = "u" /\ ~ opt.args THEN ArgsLoad ELSE UNCHANGED argVars
    /\ UNCHANGED <<keys, disks, use_env>>

\* all keys are handled: checkinput returns 1, which ends the wait
Scanned ==
    /\ pc = "scan" /\ i >= Len(buf)
    /\ pc' = "draw"
    /\ buf' = <<>> /\ i' = 0
    /\ UNCHANGED <<keys, disks, left, use_env, settingVars, jfsVars, snapVars, argVars>>

Next == Draw \/ Check \/ Key \/ Scanned

Spec == Init /\ [][Next]_vars
FairSpec == Spec /\ WF_vars(Next)

-----------------------------------------------------------------------------
(* Properties                                                               *)

\* `0' sets the index of the scan to the number of disks: typed after more
\* keys than that, the scan starts again, for ever
Rescans == pc = "scan" /\ \E n \in DOMAIN buf : buf[n] = "0" /\ n > disks + 1

\* nmon reads the keyboard again and again until it is told to quit, except
\* while `0' restarts the scan, or after `+' has overflowed the seconds: the
\* wait that calls checkinput has at least one second (lmon16f.c:8666).
InputStaysAlive ==
    []<>(pc = "check") \/ <>[](pc = "exit") \/ <>[]Rescans \/ <>wrapped

\* the descriptors that are open are those of the mount points on display,
\* and standard input is never among those closed
JfsDescriptors ==
    /\ ~ closed0
    /\ open = IF "j" \in flag THEN mounted ELSE {}

\* the samples the average is taken over
Window ==
    IF cpu_snap_all
    THEN [n \in 1 .. MAX_SNAPS |-> snap[(next_cpu_snap + n - 1) % MAX_SNAPS]]
    ELSE [n \in 1 .. next_cpu_snap |-> snap[n - 1]]

\* After any keys: jfs_load has exactly the displayed mount points open and
\* never closed standard input, the ring of the long-term graph holds the
\* last samples since `0', so that its average has a divisor (lmon16f.c:2527),
\* and args_lookup finds the processes of the last args_load and no entry that
\* was freed.
TablesFollowKeys ==
    /\ JfsDescriptors
    /\ Window = saved
    /\ \A p \in Procs : ArgsLookup(p) <=> p \in loaded
=============================================================================
