------------------------------ MODULE Threads -------------------------------
(***************************************************************************)
(* The locks and condition variables of vmp/vmp_thread.c: one lock, one    *)
(* condition, several threads.  Waiting for a condition gives up one level *)
(* of the lock, whatever the number of times it is held; a lock is         *)
(* recursive only when vmp_use_pthreads_init ran before it was allocated.  *)
(***************************************************************************)
EXTENDS Integers, FiniteSets

CONSTANTS
    Thread,
    MaxDepth    \* bound: how often a thread takes the lock

VARIABLES
    attr,       \* attr_recursive has been given its type
    lock,       \* "none" (NULL), "normal" or "recursive"
    cond,       \* the condition exists
    owner,      \* threads that own the lock (at most one)
    depth,      \* how often the owner holds it
    st,         \* run, locking, waiting for the condition, waking
    timed,      \* the wait has a timeout
    ret,        \* what the last call returned
    leaving     \* threads that have begun to unlock

objVars == <<attr, lock, cond>>
holdVars == <<owner, depth>>
vars == <<objVars, holdVars, st, timed, ret, leaving>>

Init ==
    /\ attr = FALSE /\ lock = "none" /\ cond = FALSE
    /\ owner = {} /\ depth = 0
    /\ st = [t \in Thread |-> "run"]
    /\ timed = [t \in Thread |-> FALSE]
    /\ ret = [t \in Thread |-> 0]
    /\ leaving = {}

-----------------------------------------------------------------------------
(* Creation                                                                 *)

UsePthreadsInit ==
    /\ \/ attr' = TRUE
       \/ UNCHANGED attr       \* an attribute call failed
    /\ UNCHANGED <<lock, cond, holdVars, st, timed, ret, leaving>>

Kind(recursive) == IF recursive /\ attr THEN "recursive" ELSE "normal"

\* vmp_thread_setup_global_lock keeps a lock that exists
LockAlloc(recursive) ==
    /\ lock = "none"
    /\ lock' \in {Kind(recursive), "none"}
    /\ UNCHANGED <<attr, cond, holdVars, st, timed, ret, leaving>>

CondAlloc ==
    /\ ~ cond
    /\ cond' \in BOOLEAN
    /\ UNCHANGED <<attr, lock, holdVars, st, timed, ret, leaving>>

\* only the last user frees
Unused == owner = {} /\ \A t \in Thread : st[t] = "run"
Free ==
    /\ Unused /\ lock # "none"
    /\ \/ lock' = "none" /\ UNCHANGED cond
       \/ cond /\ cond' = FALSE /\ UNCHANGED lock
    /\ UNCHANGED <<attr, holdVars, st, timed, ret, leaving>>

-----------------------------------------------------------------------------
(* The lock                                                                 *)

Available(t) == owner = {} \/ (owner = {t} /\ lock = "recursive")
Take(t) == owner' = {t} /\ depth' = depth + 1

Lock(t) ==
    /\ st[t] = "run" /\ lock # "none" /\ t \notin leaving
    /\ owner = {t} => depth < MaxDepth
    /\ st' = [st EXCEPT ![t] = "locking"]
    /\ UNCHANGED <<objVars, holdVars, timed, ret, leaving>>

Acquire(t) ==
    /\ st[t] = "locking" /\ Available(t)
    /\ Take(t)
    /\ st' = [st EXCEPT ![t] = "run"]
    /\ ret' = [ret EXCEPT ![t] = 0]
    /\ UNCHANGED <<objVars, timed, leaving>>

\* VMP_THREAD_TRY: EBUSY instead of waiting
TryLock(t) ==
    /\ st[t] = "run" /\ lock # "none" /\ t \notin leaving
    /\ owner = {t} => depth < MaxDepth
    /\ IF Available(t)
       THEN Take(t) /\ ret' = [ret EXCEPT ![t] = 0]
       ELSE ret' = [ret EXCEPT ![t] = 16] /\ UNCHANGED holdVars
    /\ UNCHANGED <<objVars, st, timed, leaving>>

\* mutant: the last level is kept
UnlockKeepsLast(t) ==
    /\ st[t] = "run" /\ owner = {t}
    /\ depth' = IF depth > 1 THEN depth - 1 ELSE depth
    /\ leaving' = leaving \cup {t}
    /\ UNCHANGED <<objVars, owner, st, timed, ret>>

Release(t) ==
    /\ depth' = depth - 1
    /\ owner' = IF depth = 1 THEN {} ELSE owner

Unlock(t) ==
    /\ st[t] = "run" /\ owner = {t}
    /\ Release(t)
    /\ leaving' = IF depth = 1 THEN leaving \ {t} ELSE leaving \cup {t}
    /\ ret' = [ret EXCEPT ![t] = 0]
    /\ UNCHANGED <<objVars, st, timed>>

-----------------------------------------------------------------------------
(* The condition                                                            *)

CondWait(t, tv) ==
    /\ st[t] = "run" /\ owner = {t} /\ cond /\ t \notin leaving
    /\ Release(t)
    /\ st' = [st EXCEPT ![t] = "waiting"]
    /\ timed' = [timed EXCEPT ![t] = tv]
    /\ UNCHANGED <<objVars, ret, leaving>>

Wake(ts, r) ==
    /\ st' = [t \in Thread |-> IF t \in ts THEN "waking" ELSE st[t]]
    /\ ret' = [t \in Thread |-> IF t \in ts THEN r ELSE ret[t]]
    /\ UNCHANGED <<objVars, holdVars, timed, leaving>>

Waiting == {t \in Thread : st[t] = "waiting"}

\* "only called while holding the associated lock" (vmp_thread.h:82)
CondSignal(t, broadcast) ==
    /\ st[t] = "run" /\ owner = {t} /\ cond /\ Waiting # {}
    /\ IF broadcast THEN Wake(Waiting, 0) ELSE \E u \in Waiting : Wake({u}, 0)

Timeout(t) == st[t] = "waiting" /\ timed[t] /\ Wake({t}, 1)

\* pthreads allows a wait to return without a signal
Spurious(t) == st[t] = "waiting" /\ Wake({t}, 0)

Reacquire(t) ==
    /\ st[t] = "waking" /\ Available(t)
    /\ Take(t)
    /\ st' = [st EXCEPT ![t] = "run"]
    /\ UNCHANGED <<objVars, timed, ret, leaving>>

Next ==
    \/ UsePthreadsInit \/ CondAlloc \/ Free
    \/ \E r \in BOOLEAN : LockAlloc(r)
    \/ \E t \in Thread :
         \/ Lock(t) \/ Acquire(t) \/ TryLock(t) \/ Unlock(t)
         \/ Timeout(t) \/ Spurious(t) \/ Reacquire(t)
         \/ \E b \in BOOLEAN : CondWait(t, b) \/ CondSignal(t, b)

Spec == Init /\ [][Next]_vars

\* a caller that holds the lock gives it back; a thread is not passed over
\* for ever when the lock is free again and again; time passes
Fairness ==
    \A t \in Thread : /\ WF_vars(Unlock(t)) /\ WF_vars(Timeout(t))
                      /\ SF_vars(Acquire(t)) /\ SF_vars(Reacquire(t))
FairSpec == Spec /\ Fairness

-----------------------------------------------------------------------------
\* a wait on a lock held twice keeps the lock
NestedWait(t) == st[t] \in {"waiting", "waking"} /\ owner = {t}
\* a lock that is not recursive is taken twice
LockedTwice(t) == st[t] = "locking" /\ owner = {t} /\ lock = "normal"

\* A wait with a timeout returns (vmp_thread.h:86-95), with the lock held
\* again, unless some thread waits on a lock it holds twice or takes twice a
\* lock that was allocated before vmp_use_pthreads_init.
TimedWaitReturns ==
    \A t \in Thread :
        (st[t] = "waiting" /\ timed[t])
            ~> ((st[t] = "run" /\ owner = {t})
                  \/ \E u \in Thread : NestedWait(u) \/ LockedTwice(u))
=============================================================================
