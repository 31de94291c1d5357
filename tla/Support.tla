------------------------------- MODULE Support ------------------------------
(***************************************************************************)
(* Supporting code of the daemon.  An initial state chooses one part: the  *)
(* daemon's child processes (Reaper), the locks and conditions (Threads)   *)
(* or the linked lists (ListHead); the others stand still.                 *)
(***************************************************************************)
EXTENDS Reaper

CONSTANTS
    Thread, MaxDepth,       \* of Threads
    Heads, Elems, Key(_)    \* of ListHead

ASSUME DepthAssumption == MaxDepth \in Nat \ {0}
ASSUME CellsAssumption == Heads \cap Elems = {} /\ \A e \in Elems : Key(e) \in Int

VARIABLES part, link, list, stale, walk, attr, lock, cond, owner, depth, st, timed, ret, leaving

listVars == <<link, list, stale, walk>>
threadVars == <<attr, lock, cond, owner, depth, st, timed, ret, leaving>>
all == <<part, vars, listVars, threadVars>>

Lists == INSTANCE ListHead
Locks == INSTANCE Threads

ListsIdle == link = 0 /\ list = 0 /\ stale = 0 /\ walk = {}

AllInit ==
    \/ part = "children" /\ Init /\ Locks!Init /\ ListsIdle
    \/ part = "threads" /\ Init /\ Locks!Init /\ ListsIdle
    \/ part = "lists" /\ Init /\ Locks!Init /\ Lists!Init

InChildren == part = "children" /\ UNCHANGED <<part, threadVars, listVars>>
InThreads == part = "threads" /\ UNCHANGED <<part, vars, listVars>>
InLists == part = "lists" /\ UNCHANGED <<part, vars, threadVars>>

AllNext ==
    \/ InChildren /\ Next
    \/ InThreads /\ Locks!Next
    \/ InLists /\ Lists!Next

\* the fairness of Threads
AllSpec ==
    /\ AllInit /\ [][AllNext]_all
    /\ \A t \in Thread :
         /\ WF_all(InThreads /\ Locks!Unlock(t)) /\ WF_all(InThreads /\ Locks!Timeout(t))
         /\ SF_all(InThreads /\ Locks!Acquire(t)) /\ SF_all(InThreads /\ Locks!Reacquire(t))

-----------------------------------------------------------------------------
(* The properties of the other parts                                        *)

\* Following the links of a list meets the elements that the calls of list.h
\* put there, forwards and backwards (list.h:26-229).
LinksAreLists == part = "lists" => Lists!ListsAreSequences

\* A wait with a timeout returns with the lock held again, unless some thread
\* waits on a lock it holds twice or takes a plain lock twice
\* (vmp_thread.h:86-95).
TimedWaitReturns == Locks!TimedWaitReturns
=============================================================================
