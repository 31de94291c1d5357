------------------------------- MODULE Reaper -------------------------------
(***************************************************************************)
(* The processes of vmp-daemon: the thread that starts, kills and restarts *)
(* vmp-sa (load_child_thread, vmp_process.c), the children it forks, and   *)
(* the SIGCHLD handler of app/vmp-daemon.c.  IpcShared has the protocol    *)
(* between one live child and the thread; here the watch returns whenever  *)
(* it likes, as it does at once without a segment.                         *)
(***************************************************************************)
EXTENDS Integers, FiniteSets

CONSTANT Pid    \* the processes that can be forked

ASSUME PidAssumption == IsFiniteSet(Pid)

VARIABLES
    child,      \* state of every process
    pending,    \* SIGCHLD is pending: one bit, however many children ended
    merged,     \* children whose signal found the bit set
    missed,     \* children that had not executed vmp-sa when killall ran
    pc          \* the thread

vars == <<child, pending, merged, missed, pc>>

Status == {"free", "forked", "app", "dying", "zombie", "gone"}
In(s) == {c \in Pid : child[c] = s}

Init ==
    /\ child = [c \in Pid |-> "free"]
    /\ pending = FALSE /\ merged = {} /\ missed = {}
    /\ pc = "start"

\* a child ends: the kernel raises SIGCHLD, which is not queued
Ends(c) ==
    /\ child' = [child EXCEPT ![c] = "zombie"]
    /\ pending' = TRUE
    /\ merged' = IF pending THEN merged \cup {c} ELSE merged

-----------------------------------------------------------------------------
(* load_child_thread                                                        *)

\* killall -9 ends what runs under the name vmp-sa
Killed == [c \in Pid |-> IF child[c] = "app" THEN "dying" ELSE child[c]]

\* a failed fork kills the application and ends the daemon
RunProcess(from, to) ==
    /\ pc = from
    /\ \/ \E c \in In("free") : child' = [child EXCEPT ![c] = "forked"] /\ pc' = to
       \/ child' = Killed /\ pc' = "exited"
    /\ UNCHANGED <<pending, merged, missed>>

First == RunProcess("start", "watch")
Again == RunProcess("killed", "watch")

\* mutant: the old application is not killed
WatchOnly ==
    /\ pc = "watch"
    /\ pc' = "killed"
    /\ UNCHANGED <<child, pending, merged, missed>>

\* ipc_shared_proc returns; kill_app runs to its end
WatchAndKill ==
    /\ pc = "watch"
    /\ child' = Killed
    /\ missed' = missed \cup In("forked")
    /\ pc' = "killed"
    /\ UNCHANGED <<pending, merged>>

\* load_child_stop clears cond
Stop ==
    /\ pc = "watch"
    /\ pc' = "stopped"
    /\ UNCHANGED <<child, pending, merged, missed>>

-----------------------------------------------------------------------------
(* The children                                                             *)

\* execv, at any time after the fork; or it fails and the child exits
Exec(c) ==
    /\ child[c] = "forked"
    /\ \/ child' = [child EXCEPT ![c] = "app"] /\ UNCHANGED <<pending, merged>>
       \/ Ends(c)
    /\ UNCHANGED <<missed, pc>>

\* the application crashes, or dies of killall
Die(c) == child[c] \in {"app", "dying"} /\ Ends(c) /\ UNCHANGED <<missed, pc>>

-----------------------------------------------------------------------------
(* handler of vmp-daemon: one waitpid per signal                            *)

\* mutant: the child is not waited for
HandlerNoWait ==
    /\ pending
    /\ pending' = FALSE
    /\ UNCHANGED <<child, merged, missed, pc>>

Handler ==
    /\ pending
    /\ pending' = FALSE
    /\ IF In("zombie") = {} THEN UNCHANGED child
       ELSE \E c \in In("zombie") : child' = [child EXCEPT ![c] = "gone"]
    /\ UNCHANGED <<merged, missed, pc>>

Next ==
    \/ First \/ Again \/ WatchAndKill \/ Stop \/ Handler
    \/ \E c \in Pid : Exec(c) \/ Die(c)

Spec == Init /\ [][Next]_vars

-----------------------------------------------------------------------------
(* Properties                                                               *)

TypeOK ==
    /\ child \in [Pid -> Status]
    /\ pending \in BOOLEAN /\ merged \subseteq Pid /\ missed \subseteq Pid
    /\ pc \in {"start", "watch", "killed", "stopped", "exited"}

\* Of the children that ended, the daemon leaves at most as many zombies as
\* signals were merged or are still pending: every signal that arrives is
\* used for a child (vmp-daemon.c:26), whichever child it reaps.
ZombiesAreMergedSignals ==
    TypeOK /\ Cardinality(In("zombie")) <= Cardinality(merged) + (IF pending THEN 1 ELSE 0)

\* Two applications are alive at the same time only when killall came before
\* the older one had executed vmp-sa: nothing but usleep(1000) orders the two
\* (vmp_process.c:51).
OneChildUnlessExecLate ==
    \A c, d \in In("forked") \cup In("app") : c # d => {c, d} \cap missed # {}
=============================================================================
