------------------------------ MODULE NmonDisks -----------------------------
(***************************************************************************)
(* The disks of nmon (app/lmon16f.c): the two tables that are compared by  *)
(* position from one loop to the next, and the disk groups, which keep     *)
(* positions from the start.  A disk that was idle since the system booted *)
(* is left out; it may see its first transfer at any time.                 *)
(***************************************************************************)
EXTENDS Integers, Sequences, FiniteSets, FiniteSetsExt

CONSTANTS
    Lines,      \* the disks, in the order of /proc/diskstats
    DISKMAX,
    Groups      \* disk groups of the file of -g: sequences of names

Disk == Range(Lines)
None == "none"      \* memory of malloc, never filled

VARIABLES
    disk_mode,      \* diskstats or partitions: fixed by the first reading
    moved,          \* disks that have had a transfer
    dk, disks,      \* the two tables of disks, the number of entries in use
    seen, start,    \* moved, when each table was read and at the start
    group, data,    \* the words of the group's line; positions stored for them
    p,              \* the current table, 1 or 2
    phase,          \* first (start-up reads), idle, lines (proc_disk reads), shown
    line, used      \* proc_disk: lines read, entries kept (its index i)

vars == <<disk_mode, moved, dk, disks, seen, start, group, data, p, phase, line, used>>

q == 3 - p

NoDisks == [j \in 0 .. (DISKMAX - 1) |-> None]

\* the positions are stored when the first reading is done
Init ==
    /\ disk_mode \in {"diskstats", "partitions"}
    /\ moved \in SUBSET Disk /\ start = moved
    /\ group \in Groups /\ data = <<>>
    /\ dk = <<NoDisks, NoDisks>> /\ disks = 0
    /\ seen = <<moved, moved>>
    /\ p = 1 /\ phase = "first" /\ line = 0 /\ used = 0

\* proc_partitions keeps every line, proc_diskstats those of disks with transfers
Keep(s, d) == disk_mode = "partitions" \/ d \in s

\* one line: the entry is filled first, then kept
ReadLine ==
    /\ phase \in {"first", "lines"}
    /\ used < DISKMAX /\ line < Len(Lines)
    /\ dk' = [dk EXCEPT ![p][used] = Lines[line + 1]]
    /\ used' = IF Keep(seen[p], Lines[line + 1]) THEN used + 1 ELSE used
    /\ line' = line + 1
    /\ UNCHANGED <<disk_mode, moved, disks, seen, start, group, data, p, phase>>

AllRead == used = DISKMAX \/ line = Len(Lines)

\* mutant: positions counted from one
LoadDgroupFromOne(words) ==
    [w \in DOMAIN words |->
        LET at == {j \in 0 .. (used - 1) : dk[p][j] = words[w]}
        IN  IF at = {} THEN -1 ELSE (Min(at) + 1) % DISKMAX]

\* a word that is no disk leaves -1
LoadDgroup(words) ==
    [w \in DOMAIN words |->
        LET at == {j \in 0 .. (used - 1) : dk[p][j] = words[w]}
        IN  IF at = {} THEN -1 ELSE Min(at)]

\* dgroup_disks counts the words found; list_dgroup and the section look at
\* that many words
Found == {w \in DOMAIN data : data[w] # -1}
ListDgroup == {w \in Found : w <= Cardinality(Found)}

\* the end of start-up: only the entries in use are copied to the other table
Started ==
    /\ phase = "first" /\ AllRead
    /\ disks' = used
    /\ dk' = [dk EXCEPT ![q] = [j \in 0 .. (DISKMAX - 1) |-> IF j < used THEN dk[p][j] ELSE @[j]]]
    /\ data' = LoadDgroup(group)
    /\ p' = q /\ phase' = "idle"
    /\ UNCHANGED <<disk_mode, moved, seen, start, group, line, used>>

\* proc_disk: the file is opened, read line by line and closed; then the
\* entries before `disks' are compared with those of q
DiskSection ==
    /\ phase = "idle"
    /\ seen' = [seen EXCEPT ![p] = moved]
    /\ line' = 0 /\ used' = 0 /\ phase' = "lines"
    /\ UNCHANGED <<disk_mode, moved, dk, disks, start, group, data, p>>

Show ==
    /\ phase = "lines" /\ AllRead
    /\ disks' = used /\ phase' = "shown"
    /\ UNCHANGED <<disk_mode, moved, dk, seen, start, group, data, p, line, used>>

Switch ==
    /\ phase = "shown"
    /\ p' = q /\ phase' = "idle"
    /\ UNCHANGED <<disk_mode, moved, dk, disks, seen, start, group, data, line, used>>

FirstTransfer ==
    /\ \E d \in Disk \ moved : moved' = moved \cup {d}
    /\ UNCHANGED <<disk_mode, dk, disks, seen, start, group, data, p, phase, line, used>>

Next == ReadLine \/ Started \/ DiskSection \/ Show \/ Switch \/ FirstTransfer

Spec == Init /\ [][Next]_vars

-----------------------------------------------------------------------------
(* Properties                                                               *)

\* disks up to d in the order of the file
UpTo(d) == {Lines[n] : n \in 1 .. (CHOOSE n \in DOMAIN Lines : Lines[n] = d)}
Same(a, b, d) == disk_mode = "partitions" \/ a \cap UpTo(d) = b \cap UpTo(d)

\* a word that is no disk stands before one that is
Gap == \E v, w \in DOMAIN data : v < w /\ data[v] = -1 /\ data[w] # -1

\* A disk is compared with itself unless it, or one before it, had its first
\* transfer since the previous loop (lmon16f.c:2296 leaves idle disks out and
\* moves the rest up); a position kept for a disk group is still that disk
\* unless this happened since the start; and a group has all its disks unless
\* its line names an unknown disk before them (lmon16f.c:2998).
DisksPairUp ==
    /\ phase = "shown" =>
         \A j \in 0 .. (disks - 1) :
            Same(seen[1], seen[2], dk[p][j]) => dk[q][j] = dk[p][j]
    /\ phase \in {"idle", "shown"} =>
         \A w \in Found : Same(start, seen[p], group[w]) => dk[p][data[w]] = group[w]
    /\ ~ Gap => ListDgroup = Found
=============================================================================
