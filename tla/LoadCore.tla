------------------------------- MODULE LoadCore -------------------------------
(***************************************************************************)
(* The daemon's start-up and its RPC server: load/load_core.c starts the    *)
(* server thread of rpc/rpc_svc.c, sleeps a second and starts the task      *)
(* threads (load_demo.c, load_vmon.c, load_node_state.c); each registers    *)
(* its method with pbrpc_svc_register while the server thread already       *)
(* dispatches requests with rpc_invoke_call (rpc/pbc/pbrpc-svc.c).  The     *)
(* callout list is shared by all of them; svc_lock is never used.           *)
(*                                                                          *)
(* A callout is named by the task that registers it.  The core thread never *)
(* leaves its loop (nothing clears its cond), so nothing is unregistered.   *)
(***************************************************************************)
EXTENDS Integers, Sequences

CONSTANTS
    TaskOrder,  \* the tasks, in the order load_core_thread starts them
    Methods,    \* the methods clients ask for
    Nil,        \* the NULL pointer
    Prompt,     \* the server thread needs less than sleep(1) to set svc
    Faults      \* what may fail: "bind" in pbrpc_svc_new, "mem" for callouts

Tasks == {TaskOrder[i] : i \in DOMAIN TaskOrder}

ASSUME CoreAssumption == /\ TaskOrder \in Seq(Tasks)
                         /\ Nil \notin Tasks
                         /\ Tasks \subseteq Methods
                         /\ \A i, j \in DOMAIN TaskOrder :
                              TaskOrder[i] = TaskOrder[j] => i = j
                         /\ Prompt \in BOOLEAN
                         /\ Faults \subseteq {"bind", "mem"}

VARIABLES
    cpc,         \* where load_core_thread is
    started,     \* how many tasks it has started
    spc,         \* where rpc_svc_thread is
    svc,         \* vmp_rpcsvc_t.svc, the pointer the tasks register with
    tpc,         \* where each task thread is
    svc_head,    \* svc->svc_head
    sc_next,     \* sc_next of each task's callout
    method,      \* the method of the request in hand
    cur,         \* cursor of rpc_invoke_call
    known,       \* callouts that could be met when the request in hand was read
    raced        \* of each callout: the tasks between their two accesses to
                 \* svc_head when it was published

coreVars == <<cpc, started>>
taskVars == <<tpc, sc_next, svc_head, raced>>
servVars == <<spc, svc, method, cur, known>>
vars == <<coreVars, taskVars, servVars>>

Pointer == Tasks \cup {Nil}

TypeOK ==
    /\ cpc \in {"server", "process", "sleep", "tasks", "loop", "dead"}
    /\ started \in 0 .. Len(TaskOrder)
    /\ spc \in {"none", "new", "share", "run", "walk", "ended", "dead"}
    /\ svc \in {"null", "set"}
    /\ tpc \in [Tasks -> {"none", "find", "link", "publish", "loop",
                          "refused", "dead"}]
    /\ svc_head \in Pointer
    /\ sc_next \in [Tasks -> Pointer]
    /\ method \in Methods \cup {Nil}
    /\ cur \in Pointer
    /\ known \subseteq Tasks
    /\ raced \in [Tasks -> SUBSET Tasks]

Init ==
    /\ cpc = "server"
    /\ started = 0
    /\ spc = "none"
    /\ svc = "null"
    /\ tpc = [t \in Tasks |-> "none"]
    /\ svc_head = Nil
    /\ sc_next = [t \in Tasks |-> Nil]
    /\ method = Nil
    /\ cur = Nil
    /\ known = {}
    /\ raced = [t \in Tasks |-> {}]

-----------------------------------------------------------------------------
(* load_core_thread.                                                        *)

\* rpc_server_start creates the wrapper and the server's thread.
ServerStart ==
    /\ cpc = "server"
    /\ cpc' = "process"
    /\ spc' = "new"
    /\ UNCHANGED <<started, taskVars, svc, method, cur, known>>

\* task_process_start creates the watchdog thread, see IpcShared.
ProcessStart ==
    /\ cpc = "process"
    /\ cpc' = "sleep"
    /\ UNCHANGED <<started, taskVars, servVars>>

\* sleep(1).  "if (thiz->svc)" then looks at the wrapper, which is there.
SleepEnd ==
    /\ cpc = "sleep"
    /\ Prompt => spc \notin {"new", "share"}
    /\ cpc' = "tasks"
    /\ UNCHANGED <<started, taskVars, servVars>>

\* Slips that the properties below must notice are written out next to the
\* definition they are slips of; no specification uses them.
TaskStartForgetsLast ==
    /\ cpc = "tasks"
    /\ started < Len(TaskOrder)
    /\ started' = started + 1
    /\ tpc' = IF started' = Len(TaskOrder)
              THEN tpc ELSE [tpc EXCEPT ![TaskOrder[started']] = "find"]
    /\ UNCHANGED <<cpc, sc_next, svc_head, raced, servVars>>

\* task_demo_start, task_vmon_start and task_node_state_start.
TaskStart ==
    /\ cpc = "tasks"
    /\ started < Len(TaskOrder)
    /\ started' = started + 1
    /\ tpc' = [tpc EXCEPT ![TaskOrder[started + 1]] = "find"]
    /\ UNCHANGED <<cpc, sc_next, svc_head, raced, servVars>>

TasksStarted ==
    /\ cpc = "tasks"
    /\ started = Len(TaskOrder)
    /\ cpc' = "loop"
    /\ UNCHANGED <<started, taskVars, servVars>>

-----------------------------------------------------------------------------
(* rpc_svc_thread and the event loop it runs.                               *)

\* pbrpc_svc_new; when it fails the thread ends and svc stays NULL.
SvcNew ==
    /\ spc = "new"
    /\ \/ spc' = "share"
       \/ "bind" \in Faults /\ spc' = "ended"
    /\ UNCHANGED <<coreVars, taskVars, svc, method, cur, known>>

\* thiz->svc = priv->svc, then event_base_dispatch.
SvcShare ==
    /\ spc = "share"
    /\ svc' = "set"
    /\ spc' = "run"
    /\ UNCHANGED <<coreVars, taskVars, method, cur, known>>

\* Callouts whose registration has returned and which no task that was between
\* its two accesses to svc_head has replaced since.
Registered == {t \in Tasks : tpc[t] = "loop"}
Unraced == {t \in Registered : raced[t] \cap Registered = {}}

\* process_request reads a request and rpc_invoke_call starts at svc_head.
ReadReq(m) ==
    /\ spc = "run"
    /\ spc' = "walk"
    /\ method' = m
    /\ cur' = svc_head
    /\ known' = Unraced
    /\ UNCHANGED <<coreVars, taskVars, svc>>

InvokeNextFirstOnly ==
    /\ spc = "walk"
    /\ cur # Nil
    /\ cur # method
    /\ cur' = Nil
    /\ UNCHANGED <<coreVars, taskVars, spc, svc, method, known>>

InvokeNext ==
    /\ spc = "walk"
    /\ cur # Nil
    /\ cur # method
    /\ cur' = sc_next[cur]
    /\ UNCHANGED <<coreVars, taskVars, spc, svc, method, known>>

\* The handler of the callout answers the request.
Dispatch ==
    /\ spc = "walk"
    /\ cur = method
    /\ spc' = "run"
    /\ method' = Nil
    /\ cur' = Nil
    /\ known' = {}
    /\ UNCHANGED <<coreVars, taskVars, svc>>

\* No such method: the response has the id and no result.
ReplyEmpty ==
    /\ spc = "walk"
    /\ cur = Nil
    /\ spc' = "run"
    /\ method' = Nil
    /\ known' = {}
    /\ UNCHANGED <<coreVars, taskVars, svc, cur>>

-----------------------------------------------------------------------------
(* pbrpc_svc_register on the thread of task t.                              *)

\* pbrpc_svc_find meets no callout of that program; the new callout is filled
\* in, or there is no memory for it and -1 is returned to nobody.
RegisterFind(t) ==
    /\ tpc[t] = "find"
    /\ svc = "set"
    /\ \/ tpc' = [tpc EXCEPT ![t] = "link"]
       \/ "mem" \in Faults /\ tpc' = [tpc EXCEPT ![t] = "refused"]
    /\ UNCHANGED <<coreVars, sc_next, svc_head, raced, servVars>>

\* assert(svc != NULL) fails and ends the whole process.
RegisterAbort(t) ==
    /\ tpc[t] = "find"
    /\ svc = "null"
    /\ tpc' = [u \in Tasks |-> "dead"]
    /\ cpc' = "dead"
    /\ spc' = "dead"
    /\ UNCHANGED <<started, sc_next, svc_head, raced, svc, method, cur,
                   known>>

\* s->sc_next = svc->svc_head
RegisterLink(t) ==
    /\ tpc[t] = "link"
    /\ sc_next' = [sc_next EXCEPT ![t] = svc_head]
    /\ tpc' = [tpc EXCEPT ![t] = "publish"]
    /\ UNCHANGED <<coreVars, svc_head, raced, servVars>>

Race(t) == raced' = [raced EXCEPT ![t] = {u \in Tasks \ {t} : tpc[u] = "publish"}]

RegisterPublishFirst(t) ==
    /\ tpc[t] = "publish"
    /\ svc_head' = t
    /\ sc_next' = [sc_next EXCEPT ![t] = t]
    /\ tpc' = [tpc EXCEPT ![t] = "loop"]
    /\ Race(t)
    /\ UNCHANGED <<coreVars, servVars>>

RegisterPublishOnce(t) ==
    /\ tpc[t] = "publish"
    /\ svc_head' = IF svc_head = Nil THEN t ELSE svc_head
    /\ tpc' = [tpc EXCEPT ![t] = "loop"]
    /\ Race(t)
    /\ UNCHANGED <<coreVars, sc_next, servVars>>

\* svc->svc_head = s; return 0.
RegisterPublish(t) ==
    /\ tpc[t] = "publish"
    /\ svc_head' = t
    /\ tpc' = [tpc EXCEPT ![t] = "loop"]
    /\ Race(t)
    /\ UNCHANGED <<coreVars, sc_next, servVars>>

CoreStep == ServerStart \/ ProcessStart \/ SleepEnd \/ TaskStart \/ TasksStarted
WalkStep == InvokeNext \/ Dispatch \/ ReplyEmpty
SvcStep  == SvcNew \/ SvcShare \/ WalkStep
TaskStep(t) == RegisterFind(t) \/ RegisterAbort(t) \/ RegisterLink(t)
               \/ RegisterPublish(t)

Next ==
    \/ CoreStep \/ SvcStep
    \/ \E m \in Methods : ReadReq(m)
    \/ \E t \in Tasks : TaskStep(t)

\* Every thread keeps running; requests come as clients please.
Fairness == /\ WF_vars(CoreStep)
            /\ WF_vars(SvcStep)
            /\ \A t \in Tasks : WF_vars(TaskStep(t))

Spec == Init /\ [][Next]_vars

FairSpec == Spec /\ Fairness

-----------------------------------------------------------------------------
(* Correctness.                                                             *)

\* "assert(svc != NULL)" (pbrpc_svc_register): no task registers before, or
\* without, a server.
SvcIsSet == \A t \in Tasks : tpc[t] = "find" => svc = "set"

\* The callouts that a walk from p meets: those in every set of pointers that
\* has p and that sc_next does not leave.
Closed(S) == \A t \in S \ {Nil} : sc_next[t] \in S
Meets(p) == {t \in Tasks : \A S \in SUBSET Pointer : p \in S /\ Closed(S) => t \in S}
Listed == Meets(svc_head)

\* However the registrations of the tasks interleave, without a lock, a callout
\* whose pbrpc_svc_register returned 0 is missing from the list only if another
\* task read svc_head before the callout was stored there and stored its own
\* after it; and the list never holds a callout that is not registered.
RegistrationKept ==
    TypeOK /\ (cpc # "dead" => Unraced \subseteq Listed /\ Listed \subseteq Registered)

\* A request is not refused for a method that could be met when the request was
\* read, although the tasks go on registering, and replacing each other's
\* callouts, while rpc_invoke_call walks.
KnownIsServed ==
    (spc = "walk" /\ cur = Nil) => method \notin known

\* Every request is answered: with the list changing under it, and even with
\* overlapping registrations, the walk comes to an end.
RequestIsAnswered == (spc = "walk") ~> (spc \in {"run", "dead"})

\* Every task gets through its registration, or the process has aborted.
TasksRegister ==
    <>(cpc = "dead" \/ \A t \in Tasks : tpc[t] \in {"loop", "refused"})
=============================================================================
