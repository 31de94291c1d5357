------------------------------- MODULE Watchdog -------------------------------
(***************************************************************************)
(* What the watchdog of ipc_shared.c and load_child.c promises, with every *)
(* operation in one step: one supervised application at a time, a dog that *)
(* counts the ticks since the application last fed it, a stream count, and *)
(* no kill before the dog has reached its limit.                           *)
(***************************************************************************)
EXTENDS Integers

CONSTANTS Child, DogLimit, NumberMod

VARIABLES
    alive,    \* the applications that run
    dog,      \* ticks since the last feed or reset
    number,   \* streams counted
    starved   \* the daemon has decided to kill

vars == <<alive, dog, number, starved>>

Init == /\ alive = {}
        /\ dog = 0
        /\ number = 0
        /\ starved = FALSE

\* A turn of the loop of ipc_shared_proc.
Tick == /\ ~starved
        /\ dog' = dog + 1
        /\ starved' = (dog' >= DogLimit)
        /\ UNCHANGED <<alive, number>>

\* The memset with which ipc_shared_init and ipc_shared_proc begin.
Reset == /\ ~starved
         /\ dog' = 0
         /\ number' = 0
         /\ UNCHANGED <<alive, starved>>

Start(c) == /\ ~starved
            /\ alive = {}
            /\ alive' = {c}
            /\ UNCHANGED <<dog, number, starved>>

\* Killed while starved, or ended by itself.
Exit(c) == /\ c \in alive
           /\ alive' = alive \ {c}
           /\ UNCHANGED <<dog, number, starved>>

\* kill_app is done; the application may be started again.
Killed == /\ starved
          /\ alive = {}
          /\ starved' = FALSE
          /\ UNCHANGED <<alive, dog, number>>

\* ipc_watchdog_feed.  Too late once starved: the kill goes on.
Feed(c) == /\ c \in alive
           /\ dog' = 0
           /\ UNCHANGED <<alive, number, starved>>

\* ipc_stream_conn.
Count(c) == /\ c \in alive
            /\ \E d \in {1, -1} : number' = (number + d) % NumberMod
            /\ UNCHANGED <<alive, dog, starved>>

Next == \/ Tick \/ Reset \/ Killed
        \/ \E c \in Child : Start(c) \/ Exit(c) \/ Feed(c) \/ Count(c)

Spec == Init /\ [][Next]_vars
=============================================================================
