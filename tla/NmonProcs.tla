------------------------------ MODULE NmonProcs -----------------------------
(***************************************************************************)
(* The top processes of nmon (app/lmon16f.c): the two tables of processes, *)
(* which grow with the number of processes, and the table they are sorted  *)
(* in.  Processes start and end at any time, also between the counting and *)
(* the reading of the details, and while /proc is being read.              *)
(***************************************************************************)
EXTENDS Integers, FiniteSets

CONSTANTS
    Nmon, Pids,     \* nmon itself and the numbers of other processes
    Growth          \* room for processes that start meanwhile (128)

All == Pids \cup {Nmon}

VARIABLES
    live,           \* live processes
    procs, records, \* the two tables of processes and their sizes
    topper_size, topper,    \* size of the sorted table, its entries after the last Top
    p,              \* the current table, 1 or 2
    pc,
    todo, count     \* getprocs: directory entries still to come, processes read

tableVars == <<procs, records, topper_size, topper>>
vars == <<live, tableVars, p, pc, todo, count>>

q == 3 - p

Init ==
    /\ live \in {s \cup {Nmon} : s \in SUBSET Pids}
    /\ procs = <<{}, {}>>
    /\ records = [h \in {1, 2} |-> Cardinality(live) + Growth]
    /\ topper_size = 0 /\ topper = {}
    /\ p = 2 /\ pc = "count" /\ todo = {} /\ count = 0

\* getprocs(0) counts, and the table grows
Count ==
    /\ pc = "count"
    /\ records' = IF Cardinality(live) > records[p]
                  THEN [records EXCEPT ![p] = Cardinality(live) + Growth] ELSE records
    /\ procs' = [procs EXCEPT ![p] = {}]
    /\ todo' = All /\ count' = 0
    /\ pc' = "details"
    /\ UNCHANGED <<live, topper_size, topper, p>>

\* mutant: the size of the table is not looked at
ReadProcUnlimited ==
    /\ pc = "details" /\ todo # {}
    /\ \E n \in todo :
         /\ todo' = todo \ {n}
         /\ IF n \in live
            THEN procs' = [procs EXCEPT ![p] = @ \cup {n}] /\ count' = count + 1
            ELSE UNCHANGED <<procs, count>>
    /\ UNCHANGED <<live, records, topper_size, topper, p, pc>>

\* getprocs(records): one directory entry, in any order; a process that is
\* gone by now is passed over (proc_procsinfo returns 0), and a full table
\* ends the reading
ReadProc ==
    /\ pc = "details" /\ todo # {}
    /\ \E n \in todo :
         IF n \in live
         THEN /\ procs' = [procs EXCEPT ![p] = @ \cup {n}]
              /\ count' = count + 1
              /\ todo' = IF count + 1 = records[p] THEN {} ELSE todo \ {n}
         ELSE todo' = todo \ {n} /\ UNCHANGED <<procs, count>>
    /\ UNCHANGED <<live, records, topper_size, topper, p, pc>>

\* the processes that both tables have are put into the sorted table, which
\* grows to one more than the processes
Sort ==
    /\ pc = "details" /\ todo = {}
    /\ topper_size' = IF topper_size < count THEN count ELSE topper_size
    /\ topper' = procs[p] \cap procs[q]
    /\ pc' = "count"
    /\ p' = q
    /\ UNCHANGED <<live, procs, records, todo, count>>

\* nmon itself stays
Start == \E n \in Pids \ live : live' = live \cup {n}
End == \E n \in Pids \cap live : live' = live \ {n}
Processes == (Start \/ End) /\ UNCHANGED <<tableVars, p, pc, todo, count>>

Next == Count \/ Sort \/ Processes \/ ReadProc

Spec == Init /\ [][Next]_vars

-----------------------------------------------------------------------------
\* However many processes start between the counting and the reading of their
\* details, neither table of processes nor the sorted table is overrun
\* (lmon16f.c:8301-8312), and nmon's comparison never uses an entry of the
\* previous table that was not filled.
TablesInBounds ==
    /\ \A h \in {1, 2} : Cardinality(procs[h]) <= records[h]
    /\ Cardinality(topper) <= topper_size
    /\ pc = "details" => Cardinality(procs[p]) = count
=============================================================================
