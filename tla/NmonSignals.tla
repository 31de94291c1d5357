---------------------------- MODULE NmonSignals -----------------------------
(***************************************************************************)
(* A recording of nmon, its child processes and its signals                *)
(* (app/lmon16f.c): the command of NMON_SNAP that child_start starts in a  *)
(* loop, the commands of popen that the header and args_output read from,  *)
(* the sleep at the end of a loop, and the handler `interrupt', which      *)
(* waits for a child until one ends (waitpid without WNOHANG).             *)
(***************************************************************************)
EXTENDS Integers, FiniteSets, FiniteSetsExt

CONSTANTS
    Snaps,      \* processes of NMON_SNAP, one per loop
    MaxLoops,   \* loops asked for
    LoopCap,    \* bound of the loop counter
    MaxSecs     \* seconds of a sleep

VARIABLES
    pc, loop, maxloops,
    secs, woken,    \* seconds left of the sleep; a signal has ended it
    child,          \* state of every child process
    snapPid,        \* nmon_children[CHLD_SNAP]
    chld,           \* SIGCHLD is pending
    handling,       \* the handler waits in waitpid
    usr,            \* SIGUSR1 was sent
    early           \* children reaped before nmon_children had their number

childVars == <<child, snapPid, chld, handling, early>>
vars == <<pc, loop, maxloops, secs, woken, childVars, usr>>

Ps == 0             \* the command of popen, one at a time
First == -2         \* the command of NMON_START
Commands == Snaps \cup {First}
Child == Commands \cup {Ps}
NoPid == -1
In(s) == {c \in Child : child[c] = s}

Init ==
    /\ pc = "header" /\ loop = 1 /\ maxloops = MaxLoops
    /\ secs = 0 /\ woken = FALSE
    /\ child = [c \in Child |-> "free"]
    /\ snapPid = NoPid /\ chld = FALSE /\ handling = FALSE
    /\ usr = FALSE /\ early = {}

-----------------------------------------------------------------------------
(* The loop.  It stands still while the handler waits.                      *)

At(from, to) == pc = from /\ ~ handling /\ pc' = to

\* the command of NMON_START, if there is one, is started before the header
Header ==
    /\ At("header", "bbbp")
    /\ child' \in {child, [child EXCEPT ![First] = "run"]}
    /\ UNCHANGED <<loop, maxloops, secs, woken, snapPid, chld, handling, early, usr>>

\* linux_bbbp has written what the commands of the header print
HeaderEnd ==
    /\ At("bbbp", "start")
    /\ UNCHANGED <<loop, maxloops, secs, woken, childVars, usr>>

\* child_start: the previous command is killed, then the next one is forked
\* (or the fork fails); its number is stored in a step of its own
Killed == IF snapPid # NoPid /\ child[snapPid] = "run"
          THEN [child EXCEPT ![snapPid] = "zombie"] ELSE child

Fork ==
    /\ At("start", "forked")
    /\ chld' = (chld \/ Killed # child)
    /\ In("free") \cap Snaps # {}
    /\ child' = [Killed EXCEPT ![Min(In("free") \cap Snaps)] = "run"]
    /\ UNCHANGED <<loop, maxloops, secs, woken, snapPid, handling, early, usr>>

NoFork ==
    /\ At("start", "work")
    /\ \/ UNCHANGED <<child, chld>>                           \* not in this loop
       \/ child' = Killed /\ chld' = (chld \/ Killed # child) \* the fork failed
    /\ UNCHANGED <<loop, maxloops, secs, woken, snapPid, handling, early, usr>>

Newest == Max({c \in Snaps : child[c] # "free"})

StorePid ==
    /\ At("forked", "work")
    /\ snapPid' = Newest
    /\ UNCHANGED <<loop, maxloops, secs, woken, child, chld, handling, early, usr>>

\* popen, in linux_bbbp for the header, in the sections when args_output of a
\* new process runs ps
Reading == {<<"bbbp", "cat">>, <<"work", "ps">>}

Popen ==
    /\ \E r \in Reading : At(r[1], r[2])
    /\ child' = [child EXCEPT ![Ps] = "run"]
    /\ UNCHANGED <<loop, maxloops, secs, woken, snapPid, chld, handling, early, usr>>

\* pclose waits for the command, unless the handler has reaped it
Pclose ==
    /\ \E r \in Reading : At(r[2], r[1])
    /\ child[Ps] \in {"zombie", "gone"}
    /\ child' = [child EXCEPT ![Ps] = "gone"]
    /\ UNCHANGED <<loop, maxloops, secs, woken, snapPid, chld, handling, early, usr>>

\* the sleep is shortened by the time the loop took, to one second at least
Sleep ==
    /\ At("work", "sleep")
    /\ secs' \in 1 .. MaxSecs
    /\ woken' = FALSE
    /\ UNCHANGED <<loop, maxloops, childVars, usr>>

\* a sleep that a signal ended is taken up again, but not in the last loop
Tick ==
    /\ pc = "sleep" /\ ~ handling /\ ~ woken
    /\ IF secs > 1 THEN secs' = secs - 1 /\ UNCHANGED pc ELSE secs' = 0 /\ pc' = "test"
    /\ UNCHANGED <<loop, maxloops, woken, childVars, usr>>
Redo ==
    /\ pc = "sleep" /\ ~ handling /\ woken
    /\ pc' = IF loop # maxloops THEN "sleep" ELSE "test"
    /\ woken' = FALSE
    /\ UNCHANGED <<loop, maxloops, secs, childVars, usr>>

\* mutant: the loop that was to be the last may be over
LastOnly == loop = maxloops

Last == loop >= maxloops

\* the end of the loop; the command of NMON_END is started and not waited for
Test ==
    /\ pc = "test" /\ ~ handling
    /\ pc' = IF Last THEN "exit" ELSE "next"
    /\ UNCHANGED <<loop, maxloops, secs, woken, childVars, usr>>
NextLoop ==
    /\ At("next", "start")
    /\ loop < LoopCap
    /\ loop' = loop + 1
    /\ UNCHANGED <<maxloops, secs, woken, childVars, usr>>

-----------------------------------------------------------------------------
(* Children and signals                                                     *)

Ends(c) ==
    /\ pc # "exit" /\ child[c] = "run"
    /\ child' = [child EXCEPT ![c] = "zombie"]
    /\ chld' = TRUE
    /\ UNCHANGED <<pc, loop, maxloops, secs, woken, snapPid, handling, usr, early>>

\* mutant: the number of the command is kept
ReapKeepsPid(c) ==
    /\ child' = [child EXCEPT ![c] = "gone"]
    /\ UNCHANGED <<snapPid, early>>

Reap(c) ==
    /\ child' = [child EXCEPT ![c] = "gone"]
    /\ snapPid' = IF c = snapPid THEN NoPid ELSE snapPid
    /\ early' = IF pc = "forked" /\ c = Newest THEN early \cup {c} ELSE early

\* interrupt(SIGCHLD): waitpid(0, &status, 0)
Interrupt ==
    /\ chld /\ ~ handling /\ pc # "exit"
    /\ chld' = FALSE
    /\ woken' = (pc = "sleep")
    /\ IF In("zombie") # {}
       THEN (\E c \in In("zombie") : Reap(c)) /\ UNCHANGED handling
       ELSE handling' = (In("run") # {}) /\ UNCHANGED <<child, snapPid, early>>
    /\ UNCHANGED <<pc, loop, maxloops, secs, usr>>

InterruptEnds ==
    /\ handling
    /\ \E c \in In("zombie") : Reap(c)
    /\ handling' = FALSE
    /\ UNCHANGED <<pc, loop, maxloops, secs, woken, chld, usr>>

\* SIGUSR1, SIGUSR2
Usr ==
    /\ ~ usr /\ pc # "exit"
    /\ usr' = TRUE
    /\ maxloops' = loop
    /\ woken' = (woken \/ pc = "sleep")
    /\ UNCHANGED <<pc, loop, secs, childVars>>

\* SIGINT
Int_ ==
    /\ pc # "exit"
    /\ pc' = "exit"
    /\ UNCHANGED <<loop, maxloops, secs, woken, childVars, usr>>

Main ==
    \/ Header \/ HeaderEnd \/ Fork \/ NoFork \/ StorePid \/ Popen \/ Pclose
    \/ Sleep \/ Tick \/ Redo \/ Test \/ NextLoop

Next ==
    \/ Main \/ Interrupt \/ InterruptEnds \/ Usr \/ Int_
    \/ \E c \in Child : Ends(c)

Spec == Init /\ [][Next]_vars

\* nmon runs, signals are delivered and what popen runs ends; the command of NMON_SNAP may
\* run for ever
FairSpec ==
    /\ Spec
    /\ WF_vars(Main \/ Interrupt \/ InterruptEnds) /\ WF_vars(Interrupt) /\ WF_vars(Ends(Ps))
    /\ SF_vars(Sleep)       \* the processes of one loop are finitely many
    /\ SF_vars(HeaderEnd)   \* and so are the commands of the header

-----------------------------------------------------------------------------
(* Properties                                                               *)

\* What child_start kills as "previous child" is a child that was not reaped,
\* whose number no other process can have, unless the command ended before
\* its number was stored (lmon16f.c:4219, 4258).
KillsItsChild ==
    snapPid # NoPid => child[snapPid] \in {"run", "zombie"} \/ snapPid \in early

\* A recording ends after SIGUSR1 ("used to stop nmon cleanly",
\* lmon16f.c:2768), whenever it arrives, unless the handler of SIGCHLD waits
\* for a command that does not end.
StopsAfterSignal ==
    (usr ~> (pc = "exit")) \/ <>[](handling /\ In("run") \cap Commands # {})
=============================================================================
