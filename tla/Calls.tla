------------------------------- MODULE Calls -------------------------------
(***************************************************************************)
(* A client process (load_core_test) that calls the four methods of a      *)
(* server process (rpc_server_start and the tasks), through the wrappers   *)
(* rpc_clnt.c and rpc_svc.c, the stubs and the connection.                 *)
(*                                                                         *)
(* PbrpcClnt shows what the unlocked list of outstanding calls does, and   *)
(* LoadCore the unlocked list of methods; here both are sets that change   *)
(* in one step, and Framing's queue of messages is the connection.  A read *)
(* callback takes all that has arrived; without memory for it, it leaves   *)
(* it where it is until more arrives.                                      *)
(***************************************************************************)
EXTENDS Wire, Sequences

CONSTANT Faults     \* what may fail: "alloc", "thread", "new", "connection"

ASSUME CallsAssumption == Faults \subseteq {"alloc", "thread", "new", "connection"}

VARIABLES
    core,       \* where each process' core thread is
    wrapper,    \* memory of each process' wrapper
    thread,     \* each wrapper's thread
    object,     \* the svc and clnt pointers: "null", "private" or "shared"
    todo,       \* calls the client has still to make
    node,       \* of each call: the entry in the outstanding list
    priv,       \* of each call: the stub's context
    ret,        \* of each call: what it returned, 1 before
    told,       \* of each call: the results its callback was run with
    methods,    \* methods registered with the server
    served,     \* calls for which the server found the method and the memory
    dropped,    \* calls that lost their request or response for want of memory
    starved,    \* calls whose callback had no memory to unpack the result
    conn,       \* the connection
    requests, responses,    \* what is under way on it and not yet processed
    batch,      \* how many of them each side's read callback has taken
    left        \* how many of them a read callback without memory left lying

procVars == <<core, wrapper, thread, object>>
callVars == <<todo, node, priv, ret, told>>
servVars == <<methods, served>>
lossVars == <<dropped, starved>>
connVars == <<conn, requests, responses, batch, left>>
vars == <<procVars, callVars, servVars, lossVars, connVars>>

Process == {"client", "server"}
Task == {"demo", "vmon", "node_state"}

Init ==
    /\ core = [p \in Process |-> "create"]
    /\ wrapper = [p \in Process |-> "none"]
    /\ thread = [p \in Process |-> "none"]
    /\ object = [p \in Process |-> "null"]
    /\ todo = <<"registry", "demo", "vmon", "node_state">>
    /\ node = [m \in Method |-> "none"]
    /\ priv = [m \in Method |-> "none"]
    /\ ret = [m \in Method |-> 1]
    /\ told = [m \in Method |-> <<>>]
    /\ methods = {} /\ served = {} /\ dropped = {} /\ starved = {}
    /\ conn = "none" /\ requests = <<>> /\ responses = <<>>
    /\ batch = [p \in Process |-> 0] /\ left = [p \in Process |-> 0]

-----------------------------------------------------------------------------
(* The wrappers, the same for both processes *)

\* the server's core thread does without a wrapper, the client's does not
Create(p) ==
    /\ core[p] = "create"
    /\ \/ /\ wrapper' = [wrapper EXCEPT ![p] = "live"]
          /\ core' = [core EXCEPT ![p] = "start"]
       \/ /\ "alloc" \in Faults
          /\ core' = [core EXCEPT ![p] = IF p = "client" THEN "dead" ELSE "idle"]
          /\ UNCHANGED wrapper
    /\ UNCHANGED <<thread, object, callVars, servVars, lossVars, connVars>>

\* a failed pthread_create joins a thread that never was, which may end the
\* process, and frees the wrapper; the result is ignored
Start_(p) ==
    /\ core[p] = "start"
    /\ \/ /\ thread' = [thread EXCEPT ![p] = "new"]
          /\ core' = [core EXCEPT ![p] = "use"]
          /\ UNCHANGED wrapper
       \/ /\ "thread" \in Faults
          /\ wrapper' = [wrapper EXCEPT ![p] = "freed"]
          /\ core' \in {[core EXCEPT ![p] = "use"], [core EXCEPT ![p] = "dead"]}
          /\ UNCHANGED thread
    /\ UNCHANGED <<object, callVars, servVars, lossVars, connVars>>

Alive(p) == core[p] # "dead"

\* pbrpc_svc_new and pbrpc_clnt_new in the wrapper's thread; the server's
\* pointer is first stored in priv, the client's at once in the wrapper
New(p) ==
    /\ thread[p] = "new" /\ Alive(p)
    /\ \/ /\ thread' = [thread EXCEPT ![p] = "run"]
          /\ object' = [object EXCEPT ![p] = IF p = "client" THEN "shared" ELSE "private"]
       \/ /\ "new" \in Faults
          /\ thread' = [thread EXCEPT ![p] = "ended"]
          /\ UNCHANGED object
    /\ UNCHANGED <<core, wrapper, callVars, servVars, lossVars, connVars>>

Share ==
    /\ thread["server"] = "run" /\ Alive("server")
    /\ object["server"] = "private"
    /\ object' = [object EXCEPT !["server"] = "shared"]
    /\ UNCHANGED <<core, wrapper, thread, callVars, servVars, lossVars, connVars>>

Running(p) == thread[p] = "run" /\ object[p] = "shared" /\ Alive(p)

-----------------------------------------------------------------------------
(* The connection *)

\* the socket listens from pbrpc_svc_new on
Connect ==
    /\ conn = "none" /\ Running("client")
    /\ object["server"] # "null" /\ Alive("server")
    /\ conn' = "open"
    /\ UNCHANGED <<procVars, callVars, servVars, lossVars, requests, responses, batch, left>>

Queue(p) == IF p = "server" THEN requests ELSE responses

\* generic_read_cb: run when a message has arrived after those a callback
\* without memory left, it takes them all or leaves them all
Read(p) ==
    /\ conn = "open" /\ Running(p) /\ batch[p] = 0
    /\ \E n \in left[p] + 1 .. Len(Queue(p)) :
         \/ /\ batch' = [batch EXCEPT ![p] = n]
            /\ left' = [left EXCEPT ![p] = 0]
         \/ /\ "alloc" \in Faults
            /\ left' = [left EXCEPT ![p] = n]
            /\ UNCHANGED batch
    /\ UNCHANGED <<procVars, callVars, servVars, lossVars, conn, requests, responses>>

\* refused, or lost: generic_event_cb frees the bufferevent, and the client's
\* event loop, in no read callback, has nothing left to wait for
Disconnect ==
    /\ conn \in {"none", "open"} /\ Running("client") /\ batch["client"] = 0
    /\ conn = "none" => object["server"] = "null" \/ ~ Alive("server")
    /\ conn = "open" => "connection" \in Faults \/ ~ Alive("server")
    /\ conn' = "closed" /\ requests' = <<>> /\ responses' = <<>>
    /\ batch' = [p \in Process |-> 0] /\ left' = [p \in Process |-> 0]
    /\ thread' = [thread EXCEPT !["client"] = "ended"]
    /\ UNCHANGED <<core, wrapper, object, callVars, servVars, lossVars>>

-----------------------------------------------------------------------------
(* The server *)

\* a task reads svc from the wrapper, which may be freed; a NULL svc fails an
\* assertion, and a handler without memory is written to all the same; without
\* memory for the callout this step does not come
Register(m) ==
    /\ core["server"] = "use"
    /\ m \in Task \ methods
    /\ \/ /\ wrapper["server"] = "live" /\ object["server"] = "shared"
          /\ methods' = methods \cup {m}
          /\ UNCHANGED core
       \/ /\ wrapper["server"] = "freed" \/ object["server"] # "shared" \/ "alloc" \in Faults
          /\ core' = [core EXCEPT !["server"] = "dead"]
          /\ UNCHANGED methods
    /\ UNCHANGED <<wrapper, thread, object, callVars, served, lossVars, connVars>>

Take(p) == batch' = [batch EXCEPT ![p] = @ - 1]

\* mutant: an unknown method is not answered
ServeSilent ==
    /\ Running("server") /\ batch["server"] > 0
    /\ LET r == Head(requests) IN
       responses' = IF r.method \in methods
                    THEN Append(responses, [id |-> r.id, result |-> Exec(r.method, r.params)])
                    ELSE responses
    /\ requests' = Tail(requests) /\ Take("server")
    /\ UNCHANGED <<procVars, callVars, servVars, lossVars, conn, left>>

\* process_request: an unknown method, or no memory for the result, is
\* answered with an empty result; no memory for the reply is not answered.
\* The result's buffer is not freed.
Answer(r) ==
    \E fails \in {"none"} \cup {f \in {"result", "reply"} : "alloc" \in Faults} :
        LET found == r.method \in methods /\ fails # "result"
            result == IF found THEN Exec(r.method, r.params) ELSE Empty
        IN  /\ responses' = IF fails = "reply" THEN responses
                            ELSE Append(responses, [id |-> r.id, result |-> result])
            /\ served' = IF found THEN served \cup {r.id} ELSE served
            /\ dropped' = IF fails = "reply" THEN dropped \cup {r.id} ELSE dropped

\* one message of the read callback; a request that there is no memory to
\* unpack, in process_request or in the handler, is used all the same
Serve ==
    /\ Running("server") /\ batch["server"] > 0
    /\ \/ /\ Answer(Head(requests))
          /\ requests' = Tail(requests) /\ Take("server")
          /\ UNCHANGED core
       \/ /\ "alloc" \in Faults
          /\ core' = [core EXCEPT !["server"] = "dead"]
          /\ UNCHANGED <<requests, responses, batch, served, dropped>>
    /\ UNCHANGED <<wrapper, thread, object, callVars, methods, starved, conn, left>>

-----------------------------------------------------------------------------
(* The client *)

Skip(m) == ret' = [ret EXCEPT ![m] = 0] /\ UNCHANGED <<node, priv, requests, dropped>>

\* strdup or the entry's calloc failed: the context is nobody's
Fail(m) ==
    /\ "alloc" \in Faults
    /\ ret' = [ret EXCEPT ![m] = -1]
    /\ priv' = [priv EXCEPT ![m] = "live"]
    /\ UNCHANGED <<node, requests, dropped>>

\* mutant: the context is freed as soon as the request is written
SendFreesContext(m) ==
    /\ priv' = [priv EXCEPT ![m] = "freed"]
    /\ node' = [node EXCEPT ![m] = "listed"]
    /\ ret' = [ret EXCEPT ![m] = 0]
    /\ requests' = Append(requests, [id |-> m, method |-> m, params |-> RequestPack(m, 1)])
    /\ UNCHANGED dropped

\* entered in the list, then written; a failed write is not reported
Send(m) ==
    /\ priv' = [priv EXCEPT ![m] = "live"]
    /\ node' = [node EXCEPT ![m] = "listed"]
    /\ ret' = [ret EXCEPT ![m] = 0]
    /\ \/ /\ conn # "closed"
          /\ requests' = Append(requests, [id |-> m, method |-> m, params |-> RequestPack(m, 1)])
          /\ UNCHANGED dropped
       \/ /\ "alloc" \in Faults \/ conn = "closed"
          /\ dropped' = dropped \cup {m}
          /\ UNCHANGED requests

\* clnt_X_call: nothing is called without a client; without memory for the
\* context or the packed request NULL is written to; after the connection is
\* lost the write goes to a freed bufferevent, which may end the process; a
\* freed wrapper may still look like one without a client
Call ==
    /\ core["client"] = "use" /\ todo # <<>>
    /\ todo' = Tail(todo)
    /\ \/ /\ wrapper["client"] = "live"
          /\ IF object["client"] = "null" THEN Skip(Head(todo))
             ELSE Send(Head(todo)) \/ Fail(Head(todo))
          /\ core' \in {core} \cup {[core EXCEPT !["client"] = "dead"] : c \in {conn} \cap {"closed"}}
       \/ /\ wrapper["client"] = "live" /\ object["client"] # "null" /\ "alloc" \in Faults
          /\ core' = [core EXCEPT !["client"] = "dead"]
          /\ UNCHANGED <<node, priv, ret, requests, dropped>>
       \/ /\ wrapper["client"] = "freed"
          /\ core' \in {core, [core EXCEPT !["client"] = "dead"]}
          /\ Skip(Head(todo))
    /\ UNCHANGED <<wrapper, thread, object, told, servVars, starved, conn, responses, batch, left>>

\* X_reply_cb, with or without memory to unpack the result
RunCallback(m, result) ==
    \E starves \in {FALSE} \cup {b \in {TRUE} : "alloc" \in Faults} :
        LET info == IF starves THEN Null ELSE Info(m, result)
        IN  /\ told' = [told EXCEPT ![m] =
                           Append(@, [ret |-> IF info = Null THEN -1 ELSE 0, info |-> info])]
            /\ priv' = [priv EXCEPT ![m] = "freed"]
            /\ starved' = IF starves THEN starved \cup {m} ELSE starved

\* mutant: the entry stays in the list when the callback fails
ReplyKeepsEntry ==
    /\ Running("client") /\ batch["client"] > 0
    /\ LET r == Head(responses)
       IN  /\ RunCallback(r.id, r.result)
           /\ node' = IF told'[r.id][1].ret = 0 THEN [node EXCEPT ![r.id] = "freed"] ELSE node
    /\ responses' = Tail(responses) /\ Take("client")
    /\ UNCHANGED <<procVars, todo, ret, servVars, dropped, conn, requests, left>>

\* process_response, one message of the read callback; without memory for the
\* response it is dropped, and its call stays outstanding
Reply ==
    /\ Running("client") /\ batch["client"] > 0
    /\ LET r == Head(responses)
       IN  \/ /\ node[r.id] = "listed"
             /\ RunCallback(r.id, r.result)
             /\ node' = [node EXCEPT ![r.id] = "freed"]
             /\ UNCHANGED dropped
          \/ /\ "alloc" \in Faults
             /\ dropped' = dropped \cup {r.id}
             /\ UNCHANGED <<node, priv, told, starved>>
    /\ responses' = Tail(responses) /\ Take("client")
    /\ UNCHANGED <<procVars, todo, ret, servVars, conn, requests, left>>

-----------------------------------------------------------------------------

ClientStep == Create("client") \/ Start_("client") \/ New("client") \/ Connect \/ Disconnect
                \/ Call \/ Read("client") \/ Reply
ServerStep == Create("server") \/ Start_("server") \/ New("server") \/ Share
                \/ Read("server") \/ Serve
                \/ \E m \in Task : Register(m)

Next == ClientStep \/ ServerStep
Spec == Init /\ [][Next]_vars

\* the event loops run, a connection is made or refused but need not be lost,
\* and processes go on
FairSpec ==
    /\ Spec
    /\ \A p \in Process : /\ WF_vars(Create(p)) /\ WF_vars(Start_(p)) /\ WF_vars(New(p))
                         /\ WF_vars(Read(p))
    /\ WF_vars(Share) /\ WF_vars(Serve) /\ WF_vars(Call) /\ WF_vars(Reply)
    /\ WF_vars(conn = "none" /\ (Connect \/ Disconnect))

-----------------------------------------------------------------------------
(* Properties *)

TypeOK ==
    /\ core \in [Process -> {"create", "start", "use", "idle", "dead"}]
    /\ wrapper \in [Process -> {"none", "live", "freed"}]
    /\ thread \in [Process -> {"none", "new", "run", "ended"}]
    /\ object \in [Process -> {"null", "private", "shared"}]
    /\ todo \in Seq(Method)
    /\ node \in [Method -> {"none", "listed", "freed"}]
    /\ priv \in [Method -> {"none", "live", "freed"}]
    /\ ret \in [Method -> {-1, 0, 1}]
    /\ methods \subseteq Task /\ served \subseteq Method
    /\ dropped \subseteq Method /\ starved \subseteq Method
    /\ conn \in {"none", "open", "closed"}
    /\ batch \in [Process -> Nat] /\ left \in [Process -> Nat]

\* The context a stub allocates for a call (rpc_clnt_demo and its like) is
\* live as long as its entry is in the list of outstanding calls, so no reply
\* callback gets a freed one; it outlives the entry only when pbrpc_clnt_call
\* returned -1, and then nobody frees it.
ContextOwned ==
    TypeOK /\ \A m \in Method :
        /\ node[m] = "listed" => priv[m] = "live"
        /\ priv[m] = "live" => node[m] = "listed" \/ ret[m] = -1

\* The caller's callback (pfn_callback) runs at most once for a call, only for
\* one that returned 0; it is told 0 exactly if the server found the method and
\* the memory for its result and the stub had the memory to unpack it, and then
\* what the handler answered.
AnswerIsHandlers ==
    \A m \in Method : told[m] # <<>> =>
        /\ Len(told[m]) = 1 /\ ret[m] = 0
        /\ (told[m][1].ret = 0) <=> (m \in served \ starved)
        /\ told[m][1].ret = 0 =>
             LET info == told[m][1].info
             IN  CASE m = "demo" -> info = [id |-> 1, count |-> ScDemo.cnt, memory |-> ScDemo.mem]
                   [] m = "vmon" -> info["id"] = 1 /\ info["count"] = ScVmon.num
                   [] m = "node_state" -> info["id"] = 1 /\ \A f \in DOMAIN ScNodeState :
                                                             info[f] = ScNodeState[f]

\* the messages of a call that are under way
Copies(m) ==
    {<<"request", i>> : i \in {j \in 1 .. Len(requests) : requests[j].id = m}}
      \cup {<<"response", i>> : i \in {j \in 1 .. Len(responses) : responses[j].id = m}}

\* A call in the list of outstanding calls (pbrpc_clnt_call, process_response)
\* has exactly one message under way, its request or its response, until the
\* connection is lost or one of them finds no memory: an entry that stays for
\* ever is never owed to anything else.  No other call has a message under way,
\* so process_response is never given a second response to a call.
CallAccounted ==
    \A m \in Method :
        IF node[m] = "listed" /\ m \notin dropped /\ conn # "closed"
        THEN \E c \in Copies(m) : Copies(m) = {c}
        ELSE Copies(m) = {}

\* the message of the call lies where a read callback without memory left it
Held(m) ==
    \E p \in Process : \E i \in 1 .. left[p] : Queue(p)[i].id = m

\* Every call that was written is told a result, unless the connection is lost,
\* there is no memory for its request, result or response, or its message is
\* one that a read callback without memory left and nothing comes after it;
\* pbrpc-clnt.h:90 (callback called when the call is responded to).
CallEnds ==
    \A m \in Method :
        <>[]Held(m) \/
        (node[m] = "listed" /\ m \in {requests[i].id : i \in 1 .. Len(requests)}
            ~> told[m] # <<>> \/ conn = "closed" \/ m \in dropped
                 \/ ~ Alive("server") \/ ~ Alive("client"))
=============================================================================
