---------------------------- MODULE LoadCoreProofs ----------------------------
(* Proofs about LoadCore, for every order of tasks, every set of methods and  *)
(* faults, and whether or not sleep(1) is long enough.  What a walk meets is  *)
(* said with closed sets of pointers, so nothing needs an induction over the  *)
(* list.                                                                      *)
EXTENDS LoadCore, TLAPS

-----------------------------------------------------------------------------
(* Walks                                                                    *)

\* Meets, for any links.
MeetsIn(nx, p) ==
    {t \in Tasks : \A S \in SUBSET Pointer :
                     p \in S /\ (\A u \in S \ {Nil} : nx[u] \in S) => t \in S}

\* The walk that Meets speaks of uses the callouts' sc_next.
LEMMA MeetsNow ==
    \A p : Meets(p) = MeetsIn(sc_next, p)
BY DEF Meets, MeetsIn, Closed

\* At the end of the list nothing more is met.
LEMMA MeetsNil ==
    ASSUME NEW nx
    PROVE  MeetsIn(nx, Nil) = {}
<1>1. {Nil} \in SUBSET Pointer  BY DEF Pointer
<1>2. Nil \notin Tasks  BY CoreAssumption
<1> QED  BY <1>1, <1>2 DEF MeetsIn

\* A walk does not leave a closed set.
LEMMA MeetsWithin ==
    ASSUME NEW nx, NEW L \in SUBSET Pointer, NEW p \in L, \A u \in L \ {Nil} : nx[u] \in L
    PROVE  MeetsIn(nx, p) \subseteq L
BY DEF MeetsIn

\* A walk inside a closed set does not depend on the links outside.
LEMMA MeetsKept ==
    ASSUME NEW nx, NEW ny, NEW L \in SUBSET Pointer, NEW p \in L,
           \A u \in L \ {Nil} : nx[u] \in L /\ ny[u] = nx[u]
    PROVE  MeetsIn(nx, p) \subseteq MeetsIn(ny, p)
<1> SUFFICES ASSUME NEW t \in MeetsIn(nx, p),
                    NEW S \in SUBSET Pointer, p \in S, \A u \in S \ {Nil} : ny[u] \in S
             PROVE  t \in S
  BY DEF MeetsIn
<1> DEFINE C == S \cap L
<1>1. C \in SUBSET Pointer /\ p \in C  OBVIOUS
<1>2. \A u \in C \ {Nil} : nx[u] \in C  OBVIOUS
<1> HIDE DEF C
<1>3. t \in C  BY <1>1, <1>2 DEF MeetsIn
<1> QED  BY <1>3 DEF C

\* A walk from a callout meets it, and what a walk from its sc_next meets.
LEMMA MeetsNext ==
    ASSUME NEW nx, NEW p \in Tasks
    PROVE  MeetsIn(nx, p) = {p} \cup MeetsIn(nx, nx[p])
<1>0. p # Nil /\ p \in Pointer  BY CoreAssumption DEF Pointer
<1>1. ASSUME NEW t \in {p} \cup MeetsIn(nx, nx[p]) PROVE t \in MeetsIn(nx, p)
  <2>1. t \in Tasks  BY DEF MeetsIn
  <2>2. ASSUME NEW S \in SUBSET Pointer, p \in S, \A u \in S \ {Nil} : nx[u] \in S
        PROVE  t \in S
    <3>1. nx[p] \in S  BY <1>0, <2>2
    <3> QED  BY <2>2, <3>1 DEF MeetsIn
  <2> QED  BY <2>1, <2>2 DEF MeetsIn
<1>2. ASSUME NEW t \in MeetsIn(nx, p), t # p PROVE t \in MeetsIn(nx, nx[p])
  <2>1. t \in Tasks  BY DEF MeetsIn
  <2>2. ASSUME NEW S \in SUBSET Pointer, nx[p] \in S, \A u \in S \ {Nil} : nx[u] \in S
        PROVE  t \in S
    <3> DEFINE C == S \cup {p}
    <3>1. C \in SUBSET Pointer /\ p \in C  BY <1>0
    <3>2. \A u \in C \ {Nil} : nx[u] \in C  BY <2>2
    <3> HIDE DEF C
    <3>3. t \in C  BY <3>1, <3>2 DEF MeetsIn
    <3> QED  BY <1>2, <3>3 DEF C
  <2> QED  BY <2>1, <2>2 DEF MeetsIn
<1> QED  BY <1>1, <1>2

-----------------------------------------------------------------------------
(* The inductive invariant                                                  *)

\* Before the server is there nobody has come further than the assertion, and
\* the assertion ends all threads; tasks that were not started have done
\* nothing.
ServerInv ==
    /\ svc = "null" => /\ spc \notin {"run", "walk"}
                       /\ \A t \in Tasks : tpc[t] \in {"none", "find", "dead"}
    /\ svc = "set" => spc # "dead"
    /\ spc # "dead" => /\ cpc # "dead" /\ \A t \in Tasks : tpc[t] # "dead"
                       /\ \A i \in (started + 1) .. Len(TaskOrder) :
                            tpc[TaskOrder[i]] = "none"
    /\ spc = "dead" => cpc = "dead" /\ \A t \in Tasks : tpc[t] = "dead"

\* The list holds registered callouts only, and so does what is still to be
\* walked.
ListInv ==
    /\ svc_head \in Registered \cup {Nil}
    /\ cur \in Registered \cup {Nil}
    /\ \A t \in Tasks : tpc[t] \in {"publish", "loop"} => sc_next[t] \in Registered \cup {Nil}

\* A callout that nobody has replaced is met from the head, and every task
\* that has read svc_head since it was stored there will keep it: a task that
\* has not is one of those in raced.
KeptInv ==
    \A t \in Unraced :
        /\ t \in MeetsIn(sc_next, svc_head)
        /\ \A u \in Tasks :
             tpc[u] = "publish" => u \in raced[t] \/ t \in MeetsIn(sc_next, sc_next[u])

\* A walk for a method that could be met when it began has it still ahead.
WalkInv ==
    spc = "walk" /\ method \in known => method \in MeetsIn(sc_next, cur)

Inv == TypeOK /\ ServerInv /\ ListInv /\ KeptInv /\ WalkInv

-----------------------------------------------------------------------------
(* The steps                                                                *)

\* Steps that leave the list, the walk and the tasks alone.
LEMMA QuietStep ==
    ASSUME Inv, ServerStart \/ ProcessStart \/ SleepEnd \/ TasksStarted \/ SvcNew \/ SvcShare
    PROVE  Inv'
<1>1. UNCHANGED <<started, tpc, sc_next, svc_head, raced, method, cur, known>>
  BY DEF ServerStart, ProcessStart, SleepEnd, TasksStarted, SvcNew, SvcShare,
         taskVars, servVars, coreVars
<1>2. /\ cpc' \in {"process", "sleep", "tasks", "loop", cpc}
      /\ cpc \in {"server", "process", "sleep", "tasks"} \/ cpc' = cpc
  BY DEF ServerStart, ProcessStart, SleepEnd, TasksStarted, SvcNew, SvcShare, coreVars
<1>3. \/ spc' = spc /\ svc' = svc /\ cpc # "dead"
      \/ spc' = "new" /\ svc' = svc /\ cpc = "server"
      \/ spc = "new" /\ spc' \in {"share", "ended"} /\ svc' = svc
      \/ spc = "share" /\ spc' = "run" /\ svc' = "set"
  BY DEF ServerStart, ProcessStart, SleepEnd, TasksStarted, SvcNew, SvcShare, servVars
<1>4. TypeOK'  BY <1>1, <1>2, <1>3 DEF Inv, TypeOK
<1>5. spc # "dead" /\ spc' # "dead" /\ cpc # "dead" /\ cpc' # "dead"
  BY <1>2, <1>3 DEF Inv, ServerInv
<1>6. ServerInv'  BY <1>1, <1>3, <1>5 DEF Inv, ServerInv, TypeOK
<1>7. ListInv' /\ KeptInv'  BY <1>1 DEF Inv, ListInv, KeptInv, Registered, Unraced, MeetsIn
<1>8. WalkInv'
  <2>1. spc' = "walk" => spc = "walk"  BY <1>3
  <2> QED  BY <1>1, <2>1 DEF Inv, WalkInv, MeetsIn
<1> QED  BY <1>4, <1>6, <1>7, <1>8 DEF Inv

\* A task that is started, or has got or not got its callout, has not yet
\* touched the list.
LEMMA BeforeLink ==
    ASSUME Inv, NEW t \in Tasks, tpc[t] \in {"none", "find"},
           NEW v \in {"find", "link", "refused"}, tpc' = [tpc EXCEPT ![t] = v],
           svc = "null" => v = "find",
           UNCHANGED <<cpc, sc_next, svc_head, raced, servVars>>,
           started' \in 0 .. Len(TaskOrder),
           spc # "dead",
           \A i \in (started' + 1) .. Len(TaskOrder) :
             TaskOrder[i] # t /\ i \in (started + 1) .. Len(TaskOrder)
    PROVE  Inv'
<1>0. UNCHANGED <<spc, svc, method, cur, known>>  BY DEF servVars
<1>1. tpc \in [Tasks -> {"none", "find", "link", "publish", "loop", "refused", "dead"}]
  BY DEF Inv, TypeOK
<1>2. /\ tpc' \in [Tasks -> {"none", "find", "link", "publish", "loop", "refused", "dead"}]
      /\ \A u \in Tasks : tpc'[u] = IF u = t THEN v ELSE tpc[u]
  BY <1>1
<1>3. TypeOK'  BY <1>0, <1>2 DEF Inv, TypeOK
<1>4. Registered' = Registered
  BY <1>2 DEF Registered
<1>5. \A u \in Tasks : tpc'[u] = "publish" <=> tpc[u] = "publish"  BY <1>2
<1>6. ServerInv'
  <2>1. \A i \in 1 .. Len(TaskOrder) : TaskOrder[i] \in Tasks  BY CoreAssumption
  <2>2. started \in Nat /\ started' \in Nat /\ Len(TaskOrder) \in Nat
    BY CoreAssumption DEF Inv, TypeOK
  <2>3. ASSUME NEW i \in (started' + 1) .. Len(TaskOrder) PROVE tpc'[TaskOrder[i]] = "none"
    <3>1. TaskOrder[i] # t /\ i \in (started + 1) .. Len(TaskOrder)  OBVIOUS
    <3>2. tpc[TaskOrder[i]] = "none"  BY <3>1 DEF Inv, ServerInv
    <3>3. TaskOrder[i] \in Tasks  BY <2>1, <2>2, <3>1
    <3> QED  BY <1>2, <3>1, <3>2, <3>3
  <2>4. svc = "null" => \A u \in Tasks : tpc'[u] \in {"none", "find", "dead"}
    BY <1>2 DEF Inv, ServerInv
  <2>5. \A u \in Tasks : tpc'[u] # "dead"  BY <1>2 DEF Inv, ServerInv
  <2> QED  BY <1>0, <2>3, <2>4, <2>5 DEF Inv, ServerInv
<1>7. ListInv'
  <2>1. \A u \in Tasks : tpc'[u] \in {"publish", "loop"} => tpc[u] \in {"publish", "loop"}
    BY <1>2
  <2> QED  BY <1>0, <1>4, <2>1 DEF Inv, ListInv
<1>8. KeptInv'  BY <1>0, <1>4, <1>5 DEF Inv, KeptInv, Unraced, MeetsIn
<1>9. WalkInv'  BY <1>0 DEF Inv, WalkInv, MeetsIn
<1> QED  BY <1>3, <1>6, <1>7, <1>8, <1>9 DEF Inv

\* A callout that gets its sc_next is not in the list yet: no walk changes.
LEMMA LinkStep ==
    ASSUME Inv, NEW t \in Tasks, RegisterLink(t)
    PROVE  Inv'
<1>0. /\ tpc[t] = "link" /\ sc_next' = [sc_next EXCEPT ![t] = svc_head]
      /\ tpc' = [tpc EXCEPT ![t] = "publish"]
      /\ UNCHANGED <<cpc, started, svc_head, raced, spc, svc, method, cur, known>>
  BY DEF RegisterLink, coreVars, servVars
<1>1. /\ tpc \in [Tasks -> {"none", "find", "link", "publish", "loop", "refused", "dead"}]
      /\ sc_next \in [Tasks -> Pointer] /\ svc_head \in Pointer /\ cur \in Pointer
  BY DEF Inv, TypeOK
<1>2. /\ tpc' \in [Tasks -> {"none", "find", "link", "publish", "loop", "refused", "dead"}]
      /\ \A u \in Tasks : tpc'[u] = IF u = t THEN "publish" ELSE tpc[u]
      /\ sc_next' \in [Tasks -> Pointer]
      /\ \A u \in Tasks : sc_next'[u] = IF u = t THEN svc_head ELSE sc_next[u]
  BY <1>0, <1>1
<1>4. TypeOK'  BY <1>0, <1>2 DEF Inv, TypeOK
<1>5. Registered' = Registered /\ t \notin Registered  BY <1>0, <1>2 DEF Registered
<1>6. ServerInv'
  <2>1. svc # "null" /\ svc = "set" /\ spc # "dead"
    BY <1>0 DEF Inv, ServerInv, TypeOK
  <2>2. \A u \in Tasks : tpc'[u] # "dead"  BY <1>2, <2>1 DEF Inv, ServerInv
  <2>3. ASSUME NEW i \in (started + 1) .. Len(TaskOrder) PROVE tpc'[TaskOrder[i]] = "none"
    <3>1. TaskOrder[i] \in Tasks  BY CoreAssumption DEF Inv, TypeOK
    <3> QED  BY <1>0, <1>2, <2>1, <3>1 DEF Inv, ServerInv
  <2> QED  BY <1>0, <2>1, <2>2, <2>3 DEF Inv, ServerInv
<1>7. ListInv'  BY <1>0, <1>2, <1>5 DEF Inv, ListInv
<1> DEFINE L == Registered \cup {Nil}
<1>8. /\ L \in SUBSET Pointer /\ svc_head \in L /\ cur \in L
      /\ \A u \in L \ {Nil} : sc_next[u] \in L /\ sc_next'[u] = sc_next[u]
  <2>1. L \in SUBSET Pointer  BY DEF Registered, Pointer
  <2>2. \A u \in L \ {Nil} : u \in Tasks /\ tpc[u] = "loop" /\ u # t
    BY <1>5 DEF Registered
  <2> QED  BY <1>2, <2>1, <2>2 DEF Inv, ListInv
<1> HIDE DEF L
<1>9. \A p \in L : MeetsIn(sc_next, p) \subseteq MeetsIn(sc_next', p)
  BY <1>8, MeetsKept
<1>10. KeptInv'
  <2>1. Unraced' = Unraced  BY <1>0, <1>5 DEF Unraced
  <2> SUFFICES ASSUME NEW w \in Unraced
               PROVE  /\ w \in MeetsIn(sc_next', svc_head)
                      /\ \A u \in Tasks : tpc'[u] = "publish" =>
                           u \in raced[w] \/ w \in MeetsIn(sc_next', sc_next'[u])
    BY <1>0, <2>1 DEF KeptInv, MeetsIn
  <2>2. w \in MeetsIn(sc_next, svc_head)  BY DEF Inv, KeptInv
  <2>3. w \in MeetsIn(sc_next', svc_head)  BY <1>8, <1>9, <2>2
  <2>4. ASSUME NEW u \in Tasks, tpc'[u] = "publish"
        PROVE  u \in raced[w] \/ w \in MeetsIn(sc_next', sc_next'[u])
    <3>1. CASE u = t  BY <1>2, <2>3, <3>1
    <3>2. CASE u # t
      <4>1. tpc[u] = "publish" /\ sc_next'[u] = sc_next[u]  BY <1>2, <2>4, <3>2
      <4>2. sc_next[u] \in L  BY <4>1 DEF Inv, ListInv, L
      <4>3. u \in raced[w] \/ w \in MeetsIn(sc_next, sc_next[u])  BY <4>1 DEF Inv, KeptInv
      <4> QED  BY <1>9, <4>1, <4>2, <4>3
    <3> QED  BY <3>1, <3>2
  <2> QED  BY <2>3, <2>4
<1>11. WalkInv'
  <2> SUFFICES ASSUME spc' = "walk", method' \in known'
               PROVE  method' \in MeetsIn(sc_next', cur')
    BY DEF WalkInv, MeetsIn
  <2>1. method \in MeetsIn(sc_next, cur)  BY <1>0 DEF Inv, WalkInv
  <2> QED  BY <1>0, <1>8, <1>9, <2>1
<1> QED  BY <1>4, <1>6, <1>7, <1>10, <1>11 DEF Inv

\* The callout becomes the head: from it the old head is met, and so is
\* everything that was.
LEMMA PublishStep ==
    ASSUME Inv, NEW t \in Tasks, RegisterPublish(t)
    PROVE  Inv'
<1>0. /\ tpc[t] = "publish" /\ svc_head' = t /\ tpc' = [tpc EXCEPT ![t] = "loop"]
      /\ raced' = [raced EXCEPT ![t] = {u \in Tasks \ {t} : tpc[u] = "publish"}]
      /\ UNCHANGED <<cpc, started, sc_next, spc, svc, method, cur, known>>
  BY DEF RegisterPublish, Race, coreVars, servVars
<1>1. tpc \in [Tasks -> {"none", "find", "link", "publish", "loop", "refused", "dead"}]
  BY DEF Inv, TypeOK
<1>2. /\ tpc' \in [Tasks -> {"none", "find", "link", "publish", "loop", "refused", "dead"}]
      /\ \A u \in Tasks : tpc'[u] = IF u = t THEN "loop" ELSE tpc[u]
  BY <1>0, <1>1
<1>9. /\ raced' \in [Tasks -> SUBSET Tasks]
      /\ raced'[t] = {u \in Tasks \ {t} : tpc[u] = "publish"}
      /\ \A u \in Tasks : u # t => raced'[u] = raced[u]
  <2>1. raced \in [Tasks -> SUBSET Tasks]  BY DEF Inv, TypeOK
  <2>2. {u \in Tasks \ {t} : tpc[u] = "publish"} \in SUBSET Tasks  OBVIOUS
  <2> QED  BY <1>0, <2>1, <2>2
<1>3. TypeOK'  BY <1>0, <1>2, <1>9 DEF Inv, TypeOK, Pointer
<1>4. Registered' = Registered \cup {t}  BY <1>2 DEF Registered
<1>5. ServerInv'
  <2>1. svc # "null" /\ svc = "set" /\ spc # "dead"
    BY <1>0 DEF Inv, ServerInv, TypeOK
  <2>2. \A u \in Tasks : tpc'[u] # "dead"  BY <1>2, <2>1 DEF Inv, ServerInv
  <2>3. ASSUME NEW i \in (started + 1) .. Len(TaskOrder) PROVE tpc'[TaskOrder[i]] = "none"
    <3>1. TaskOrder[i] \in Tasks  BY CoreAssumption DEF Inv, TypeOK
    <3> QED  BY <1>0, <1>2, <2>1, <3>1 DEF Inv, ServerInv
  <2> QED  BY <1>0, <2>1, <2>2, <2>3 DEF Inv, ServerInv
<1>6. ListInv'
  <2>1. \A u \in Tasks : tpc'[u] \in {"publish", "loop"} => tpc[u] \in {"publish", "loop"}
    BY <1>0, <1>2
  <2> QED  BY <1>0, <1>4, <2>1 DEF Inv, ListInv
<1>7. KeptInv'
  <2>0. MeetsIn(sc_next, t) = {t} \cup MeetsIn(sc_next, sc_next[t])  BY MeetsNext
  <2> SUFFICES ASSUME NEW w \in Unraced'
               PROVE  /\ w \in MeetsIn(sc_next, t)
                      /\ \A u \in Tasks : tpc'[u] = "publish" =>
                           u \in raced'[w] \/ w \in MeetsIn(sc_next, sc_next[u])
    BY <1>0 DEF KeptInv, MeetsIn
  <2>1. w \in Tasks /\ w \in Registered' /\ raced'[w] \cap Registered' = {}
    BY DEF Unraced, Registered
  <2>2. CASE w = t
    BY <1>2, <1>9, <2>0, <2>2
  <2>3. CASE w # t
    <3>1. raced'[w] = raced[w] /\ w \in Unraced /\ t \notin raced[w]
      BY <1>4, <1>9, <2>1, <2>3 DEF Unraced
    <3>2. w \in MeetsIn(sc_next, sc_next[t])  BY <1>0, <3>1 DEF Inv, KeptInv
    <3>3. ASSUME NEW u \in Tasks, tpc'[u] = "publish"
          PROVE  u \in raced'[w] \/ w \in MeetsIn(sc_next, sc_next[u])
      <4>1. tpc[u] = "publish"  BY <1>2, <3>3
      <4> QED  BY <3>1, <4>1 DEF Inv, KeptInv
    <3> QED  BY <2>0, <3>2, <3>3
  <2> QED  BY <2>2, <2>3
<1>8. WalkInv'  BY <1>0 DEF Inv, WalkInv, MeetsIn
<1> QED  BY <1>3, <1>5, <1>6, <1>7, <1>8 DEF Inv

\* The assertion ends every thread; nothing had been registered.
LEMMA AbortStep ==
    ASSUME Inv, NEW t \in Tasks, RegisterAbort(t)
    PROVE  Inv'
<1>0. /\ svc = "null" /\ tpc' = [u \in Tasks |-> "dead"] /\ cpc' = "dead" /\ spc' = "dead"
      /\ UNCHANGED <<started, sc_next, svc_head, raced, svc, method, cur, known>>
  BY DEF RegisterAbort
<1>1. \A u \in Tasks : tpc'[u] = "dead"  BY <1>0
<1>2. TypeOK'  BY <1>0 DEF Inv, TypeOK
<1>3. ServerInv'  BY <1>0, <1>1 DEF ServerInv
<1>4. Registered = {} /\ Registered' = {}
  BY <1>0, <1>1 DEF Inv, ServerInv, Registered
<1>5. ListInv'  BY <1>0, <1>1, <1>4 DEF Inv, ListInv
<1>6. KeptInv'  BY <1>4 DEF KeptInv, Unraced
<1>7. WalkInv'  BY <1>0 DEF WalkInv
<1> QED  BY <1>2, <1>3, <1>5, <1>6, <1>7 DEF Inv

\* The steps of a request: it starts at the head, from which everything that
\* is registered is met, and goes on as long as its method is ahead.
LEMMA WalkSteps ==
    ASSUME Inv, (\E m \in Methods : ReadReq(m)) \/ WalkStep
    PROVE  Inv'
<1>0. UNCHANGED <<cpc, started, tpc, sc_next, svc_head, raced, svc>>
  BY DEF ReadReq, WalkStep, InvokeNext, Dispatch, ReplyEmpty, coreVars, taskVars
<1>1. spc \in {"run", "walk"} /\ spc' \in {"run", "walk"}
  BY DEF ReadReq, WalkStep, InvokeNext, Dispatch, ReplyEmpty
<1>2. ServerInv'  BY <1>0, <1>1 DEF Inv, ServerInv
<1>3. KeptInv'  BY <1>0 DEF Inv, KeptInv, Registered, Unraced, MeetsIn
<1>4. Registered' = Registered  BY <1>0 DEF Registered
<1>5. ASSUME cur' \in Registered \cup {Nil} PROVE ListInv'
  BY <1>0, <1>4, <1>5 DEF Inv, ListInv
<1>6. ASSUME NEW m \in Methods, ReadReq(m) PROVE Inv'
  <2>1. /\ spc' = "walk" /\ method' = m /\ cur' = svc_head /\ known' = Unraced
    BY <1>6 DEF ReadReq
  <2>2. TypeOK'  BY <1>0, <2>1 DEF Inv, TypeOK, Unraced, Registered
  <2>3. ListInv'  BY <1>5, <2>1 DEF Inv, ListInv
  <2>4. WalkInv'
    <3> SUFFICES ASSUME spc' = "walk", method' \in known'
                 PROVE  method' \in MeetsIn(sc_next', cur')
      BY DEF WalkInv, MeetsIn
    <3>1. m \in MeetsIn(sc_next, svc_head)  BY <1>0, <2>1 DEF Inv, KeptInv
    <3> QED  BY <1>0, <2>1, <3>1
  <2> QED  BY <1>2, <1>3, <2>2, <2>3, <2>4 DEF Inv
<1>7. CASE InvokeNext
  <2>1. /\ spc = "walk" /\ cur # Nil /\ cur # method /\ cur' = sc_next[cur]
        /\ UNCHANGED <<spc, method, known>>
    BY <1>7 DEF InvokeNext
  <2>2. cur \in Tasks /\ tpc[cur] = "loop"  BY <2>1 DEF Inv, ListInv, Registered
  <2>3. cur' \in Registered \cup {Nil}  BY <2>1, <2>2 DEF Inv, ListInv
  <2>4. ListInv'  BY <1>5, <2>3
  <2>5. TypeOK'  BY <1>0, <2>1, <2>2 DEF Inv, TypeOK
  <2>6. WalkInv'
    <3> SUFFICES ASSUME spc' = "walk", method' \in known'
                 PROVE  method' \in MeetsIn(sc_next', cur')
      BY DEF WalkInv, MeetsIn
    <3>1. method \in MeetsIn(sc_next, cur)  BY <1>0, <2>1 DEF Inv, WalkInv
    <3>2. method \in MeetsIn(sc_next, sc_next[cur])  BY <2>1, <2>2, <3>1, MeetsNext
    <3> QED  BY <1>0, <2>1, <3>2
  <2> QED  BY <1>2, <1>3, <2>4, <2>5, <2>6 DEF Inv
<1>8. CASE Dispatch \/ ReplyEmpty
  <2>1. spc' = "run" /\ method' = Nil /\ cur' = Nil /\ known' = {}
    BY <1>8 DEF Dispatch, ReplyEmpty
  <2>2. ListInv'  BY <1>5, <2>1
  <2>3. TypeOK'  BY <1>0, <2>1 DEF Inv, TypeOK, Pointer
  <2>4. WalkInv'  BY <2>1 DEF WalkInv
  <2> QED  BY <1>2, <1>3, <2>2, <2>3, <2>4 DEF Inv
<1> QED  BY <1>6, <1>7, <1>8 DEF WalkStep

-----------------------------------------------------------------------------
(* Theorems                                                                 *)

\* The daemon starts with an empty list and no server.
LEMMA InitInv == Init => Inv
<1> SUFFICES ASSUME Init PROVE Inv
  OBVIOUS
<1>0. Len(TaskOrder) \in Nat /\ \A i \in 1 .. Len(TaskOrder) : TaskOrder[i] \in Tasks
  BY CoreAssumption
<1>1. TypeOK
  <2>1. started \in 0 .. Len(TaskOrder)  BY <1>0 DEF Init
  <2>2. /\ tpc \in [Tasks -> {"none", "find", "link", "publish", "loop", "refused", "dead"}]
        /\ sc_next \in [Tasks -> Pointer]
    BY DEF Init, Pointer
  <2>3. svc_head \in Pointer /\ cur \in Pointer /\ method \in Methods \cup {Nil}
    BY DEF Init, Pointer
  <2>4. /\ cpc \in {"server", "process", "sleep", "tasks", "loop", "dead"}
        /\ spc \in {"none", "new", "share", "run", "walk", "ended", "dead"}
        /\ svc \in {"null", "set"} /\ known \subseteq Tasks
        /\ raced \in [Tasks -> SUBSET Tasks]
    BY DEF Init
  <2> QED  BY <2>1, <2>2, <2>3, <2>4 DEF TypeOK
<1>2. ServerInv  BY <1>0 DEF Init, ServerInv
<1>3. Registered = {}  BY DEF Init, Registered
<1>4. ListInv  BY DEF Init, ListInv
<1>5. KeptInv  BY <1>3 DEF KeptInv, Unraced
<1>6. WalkInv  BY DEF Init, WalkInv
<1> QED  BY <1>1, <1>2, <1>4, <1>5, <1>6 DEF Inv

\* Every step of every thread keeps the invariant.
LEMMA NextInv == Inv /\ [Next]_vars => Inv'
<1> SUFFICES ASSUME Inv, [Next]_vars PROVE Inv'
  OBVIOUS
<1>1. CASE ServerStart \/ ProcessStart \/ SleepEnd \/ TasksStarted \/ SvcNew \/ SvcShare
  BY <1>1, QuietStep
<1>2. CASE TaskStart
  <2> DEFINE t == TaskOrder[started + 1]
  <2>1. /\ cpc = "tasks" /\ started < Len(TaskOrder) /\ started' = started + 1
        /\ tpc' = [tpc EXCEPT ![t] = "find"]
        /\ UNCHANGED <<cpc, sc_next, svc_head, raced, servVars>>
    BY <1>2 DEF TaskStart
  <2>2. started \in Nat /\ Len(TaskOrder) \in Nat /\ DOMAIN TaskOrder = 1 .. Len(TaskOrder)
    BY CoreAssumption DEF Inv, TypeOK
  <2>3. started + 1 \in (started + 1) .. Len(TaskOrder) /\ started + 1 \in DOMAIN TaskOrder
    BY <2>1, <2>2
  <2>4. spc # "dead"  BY <2>1 DEF Inv, ServerInv
  <2>5. t \in Tasks /\ tpc[t] = "none"
    BY <2>3, <2>4, CoreAssumption DEF Inv, ServerInv
  <2>6. ASSUME NEW i \in (started' + 1) .. Len(TaskOrder)
        PROVE  TaskOrder[i] # t /\ i \in (started + 1) .. Len(TaskOrder)
    <3>1. i \in ((started + 1) + 1) .. Len(TaskOrder)  BY <2>1
    <3>2. i \in (started + 1) .. Len(TaskOrder) /\ i # started + 1 /\ i \in DOMAIN TaskOrder
      BY <2>2, <3>1
    <3> QED  BY <2>3, <3>2, CoreAssumption
  <2>7. started' \in 0 .. Len(TaskOrder)  BY <2>1, <2>2
  <2> HIDE DEF t
  <2> QED  BY <2>1, <2>4, <2>5, <2>6, <2>7, BeforeLink
<1>3. ASSUME NEW t \in Tasks, RegisterFind(t) PROVE Inv'
  <2>1. /\ tpc[t] = "find" /\ svc = "set"
        /\ UNCHANGED <<cpc, started, sc_next, svc_head, raced, servVars>>
    BY <1>3 DEF RegisterFind, coreVars
  <2>2. PICK v \in {"find", "link", "refused"} : tpc' = [tpc EXCEPT ![t] = v]
    BY <1>3 DEF RegisterFind
  <2>3. spc # "dead" /\ started' \in 0 .. Len(TaskOrder)
    BY <2>1 DEF Inv, ServerInv, TypeOK
  <2>4. ASSUME NEW i \in (started' + 1) .. Len(TaskOrder)
        PROVE  TaskOrder[i] # t /\ i \in (started + 1) .. Len(TaskOrder)
    <3>1. i \in (started + 1) .. Len(TaskOrder)  BY <2>1
    <3> QED  BY <2>1, <2>3, <3>1 DEF Inv, ServerInv
  <2> QED  BY <1>3, <2>1, <2>2, <2>3, <2>4, BeforeLink
<1>4. ASSUME NEW t \in Tasks, RegisterAbort(t) \/ RegisterLink(t) \/ RegisterPublish(t)
      PROVE  Inv'
  BY <1>4, AbortStep, LinkStep, PublishStep
<1>5. CASE (\E m \in Methods : ReadReq(m)) \/ WalkStep  BY <1>5, WalkSteps
<1>6. CASE UNCHANGED vars
  <2>1. UNCHANGED <<cpc, started, spc, svc, tpc, svc_head, sc_next, method, cur, known,
                    raced>>
    BY <1>6 DEF vars, coreVars, taskVars, servVars
  <2>2. TypeOK' /\ ServerInv'  BY <2>1 DEF Inv, TypeOK, ServerInv
  <2>3. ListInv'  BY <2>1 DEF Inv, ListInv, Registered
  <2>4. KeptInv' /\ WalkInv'  BY <2>1 DEF Inv, KeptInv, WalkInv, Registered, Unraced, MeetsIn
  <2> QED  BY <2>2, <2>3, <2>4 DEF Inv
<1> QED
  BY <1>1, <1>2, <1>3, <1>4, <1>5, <1>6 DEF Next, CoreStep, SvcStep, TaskStep

\* The start-up of the daemon keeps its invariant.
THEOREM CoreInvariant == Spec => []Inv
BY InitInv, NextInv, PTL DEF Spec

\* However many tasks register, whichever of them find no memory and however
\* their registrations interleave: a registered callout is missing from the list
\* only if a task that had read svc_head before it was stored there stored its
\* own after it (pbrpc_svc_register).
THEOREM RegistrationsAreKept == Spec => []RegistrationKept
<1>1. Inv => RegistrationKept
  <2> SUFFICES ASSUME Inv PROVE Unraced \subseteq Listed /\ Listed \subseteq Registered
    BY DEF Inv, RegistrationKept
  <2> DEFINE L == Registered \cup {Nil}
  <2>1. L \in SUBSET Pointer /\ svc_head \in L /\ \A u \in L \ {Nil} : sc_next[u] \in L
    BY DEF Inv, ListInv, Registered, Pointer
  <2>2. MeetsIn(sc_next, svc_head) \subseteq L  BY <2>1, MeetsWithin
  <2>3. MeetsIn(sc_next, svc_head) \subseteq Tasks /\ Nil \notin Tasks
    BY CoreAssumption DEF MeetsIn
  <2>4. Listed = MeetsIn(sc_next, svc_head)  BY MeetsNow DEF Listed
  <2> QED  BY <2>2, <2>3, <2>4 DEF Inv, KeptInv
<1> QED  BY <1>1, CoreInvariant, PTL

\* A request is never refused for a method that could be met when the request
\* was read, although the list changes under the walk.
THEOREM KnownAreServed == Spec => []KnownIsServed
<1>1. Inv => KnownIsServed
  BY MeetsNil DEF Inv, WalkInv, KnownIsServed
<1> QED  BY <1>1, CoreInvariant, PTL
=============================================================================
