----------------------------- MODULE CallsProofs -----------------------------
(* Proofs about Calls, whatever fails and in whatever order.                *)
EXTENDS Calls, TLAPS

-----------------------------------------------------------------------------
(* The inductive invariants.                                                *)

\* A read callback takes or leaves no more than has arrived, and never both.
BatchInv ==
    \A p \in Process :
        /\ batch[p] <= Len(Queue(p)) /\ left[p] <= Len(Queue(p))
        /\ batch[p] > 0 => left[p] = 0

\* A request on the connection, and the result the server gives it: the
\* handler's if it found the method and the memory, an empty one otherwise.
Request(m) == [id |-> m, method |-> m, params |-> RequestPack(m, 1)]
Result(m, found) ==
    IF found /\ m \in Task THEN Exec(m, RequestPack(m, 1)) ELSE Empty

\* What a reply callback makes of it, with or without memory to unpack it.
Outcome(m, found, starves) ==
    LET info == IF starves THEN Null ELSE Info(m, Result(m, found))
    IN  [ret |-> IF info = Null THEN -1 ELSE 0, info |-> info]

MessageOK ==
    /\ requests \in Seq({Request(m) : m \in Method})
    /\ responses \in Seq({[id |-> m, result |-> Result(m, b)] :
                            m \in Method, b \in BOOLEAN})
    /\ told \in [Method -> {<<>>} \cup {<<Outcome(m, b, e)>> :
                                 m \in Method, b \in BOOLEAN, e \in BOOLEAN}]

\* The call m has not been made.
Fresh(m) == /\ node[m] = "none" /\ priv[m] = "none"
            /\ told[m] = <<>> /\ m \notin served /\ m \notin dropped

TodoInv ==
    /\ \A i \in 1 .. Len(todo) : Fresh(todo[i])
    /\ \A i, j \in 1 .. Len(todo) : todo[i] = todo[j] => i = j

\* A call is on the connection at most once, as a request or as a response,
\* and then it is in the list of outstanding calls; only the response of a
\* call that was served carries the handler's result.
FlightInv ==
    /\ \A i \in 1 .. Len(requests) :
         LET m == requests[i].id
         IN  node[m] = "listed" /\ m \notin served /\ m \notin dropped
    /\ \A i \in 1 .. Len(responses) :
         LET m == responses[i].id
         IN  /\ node[m] = "listed" /\ m \notin dropped
             /\ responses[i].result = Result(m, m \in served)
    /\ \A i, j \in 1 .. Len(requests) : requests[i].id = requests[j].id => i = j
    /\ \A i, j \in 1 .. Len(responses) : responses[i].id = responses[j].id => i = j
    /\ \A i \in 1 .. Len(requests), j \in 1 .. Len(responses) :
         requests[i].id # responses[j].id

\* An outstanding call is on the connection unless it was lost.
OnTheWay(m) == \/ \E i \in 1 .. Len(requests) : requests[i].id = m
               \/ \E i \in 1 .. Len(responses) : responses[i].id = m
ListedInv ==
    /\ conn = "closed" => requests = <<>> /\ responses = <<>>
    /\ \A m \in Method :
         node[m] = "listed" /\ m \notin dropped /\ conn # "closed" => OnTheWay(m)

\* The entry of a call is freed with its one callback.
CallInv ==
    \A m \in Method :
        /\ node[m] # "freed" => told[m] = <<>> /\ m \notin starved
        /\ node[m] # "none" => ret[m] = 0
        /\ node[m] = "listed" => priv[m] = "live"
        /\ priv[m] = "live" => node[m] = "listed" \/ ret[m] = -1
        /\ told[m] # <<>> => told[m] = <<Outcome(m, m \in served, m \in starved)>>
        /\ m \in served => m \in Task

CallPart == MessageOK /\ TodoInv /\ FlightInv /\ ListedInv /\ CallInv
Inv == TypeOK /\ BatchInv /\ CallPart

-----------------------------------------------------------------------------
(* Sequences                                                                *)

\* What taking the first message off a queue leaves (process_request and
\* process_response read from the front of the buffer).
LEMMA FrontTaken ==
    ASSUME NEW S, NEW s \in Seq(S), s # <<>>
    PROVE  /\ Len(s) \in Nat /\ 1 \in 1 .. Len(s) /\ Head(s) = s[1] /\ s[1] \in S
           /\ Tail(s) \in Seq(S) /\ Len(Tail(s)) = Len(s) - 1
           /\ \A i \in 1 .. Len(Tail(s)) :
                i + 1 \in 1 .. Len(s) /\ Tail(s)[i] = s[i + 1]
OBVIOUS

\* What writing a message behind the others gives.
LEMMA BackWritten ==
    ASSUME NEW S, NEW s \in Seq(S), NEW e \in S
    PROVE  /\ Len(s) \in Nat /\ Append(s, e) \in Seq(S) /\ Len(Append(s, e)) = Len(s) + 1
           /\ \A i \in 1 .. Len(s) : Append(s, e)[i] = s[i]
           /\ Append(s, e)[Len(s) + 1] = e
           /\ \A i \in 1 .. Len(s) + 1 : i \in 1 .. Len(s) \/ i = Len(s) + 1
OBVIOUS

-----------------------------------------------------------------------------
(* Packing and unpacking (service-*.c, clnt_*.c)                            *)

\* An empty result, which is all an unknown method is answered with, lacks
\* the required fields: no callback takes it for an answer.
LEMMA EmptyIsRefused ==
    ASSUME NEW m \in Method
    PROVE  Info(m, Empty) = Null
<1>1. DOMAIN Empty = {}  BY DEF Empty
<1>2. Unpack(DemoRsp, Empty) = Null
  BY <1>1 DEF Unpack, DemoRsp
<1>3. Unpack(VmonRsp, Empty) = Null
  BY <1>1 DEF Unpack, VmonRsp
<1>4. Unpack(NodeStateRsp, Empty) = Null
  BY <1>1 DEF Unpack, NodeStateRsp
<1>5. Unpack(RegistryRsp, Empty) = Null
  BY <1>1 DEF Unpack, RegistryRsp
<1> QED
  BY <1>2, <1>3, <1>4, <1>5
  DEF Method, Info, DemoInfo, VmonInfo, NodeStateInfo, RegistryInfo

\* Nothing that unpacks to a structure with an id is a failed unpack.
LEMMA HasId ==
    ASSUME NEW f, "id" \in DOMAIN f
    PROVE  f # Null
BY DEF Null

\* A structure of required fields is packed and unpacked without a change.
LEMMA RoundTrip ==
    ASSUME NEW t, t.optional = {}, NEW s, DOMAIN s = t.required
    PROVE  /\ DOMAIN Unpack(t, Pack(t, s)) = t.required
           /\ \A f \in t.required : Unpack(t, Pack(t, s))[f] = s[f]
<1>1. {f \in DOMAIN s : f \in t.required \/ s[f] # Unset} = t.required
  OBVIOUS
<1>2. Pack(t, s) = [f \in t.required |-> s[f]]
  BY <1>1 DEF Pack, Restrict
<1> QED  BY <1>2 DEF Unpack

\* The caller's id reaches the handler in each of the three requests.
LEMMA IdArrives ==
    /\ Unpack(DemoReq, RequestPack("demo", 1))["id"] = 1
    /\ Unpack(VmonReq, RequestPack("vmon", 1))["id"] = 1
    /\ Unpack(NodeStateReq, RequestPack("node_state", 1))["id"] = 1
<1> DEFINE Filled(t) == [Start(t) EXCEPT !["id"] = 1]
<1>1. ASSUME NEW t, t.required = {"id"}, t.optional = {}
      PROVE  Unpack(t, Pack(t, Filled(t)))["id"] = 1
  <2>1. DOMAIN Filled(t) = t.required /\ Filled(t)["id"] = 1
    BY <1>1 DEF Start
  <2> HIDE DEF Filled
  <2> QED  BY <1>1, <2>1, RoundTrip
<1>2. DemoReq.required = {"id"} /\ DemoReq.optional = {}  BY DEF DemoReq
<1>3. VmonReq.required = {"id"} /\ VmonReq.optional = {}  BY DEF VmonReq
<1>4. NodeStateReq.required = {"id"} /\ NodeStateReq.optional = {}  BY DEF NodeStateReq
<1>5. /\ RequestPack("demo", 1) = Pack(DemoReq, Filled(DemoReq))
      /\ RequestPack("vmon", 1) = Pack(VmonReq, Filled(VmonReq))
      /\ RequestPack("node_state", 1) = Pack(NodeStateReq, Filled(NodeStateReq))
  BY DEF RequestPack, DemoCall, VmonCall, NodeStateCall
<1> HIDE DEF Filled
<1> QED  BY <1>1, <1>2, <1>3, <1>4, <1>5

\* What the callback of rpc_clnt_demo is handed: clnt_demo.c hands memory on
\* as an unsigned int, which keeps the handler's figure.
LEMMA DemoAnswer ==
    Info("demo", Exec("demo", RequestPack("demo", 1)))
        = [id |-> 1, count |-> ScDemo.cnt, memory |-> ScDemo.mem]
<1> DEFINE req == RequestPack("demo", 1)
           full == [Start(DemoRsp) EXCEPT !["id"] = Unpack(DemoReq, req)["id"],
                                          !["video_cnt"] = ScDemo.cnt,
                                          !["info_mem"] = ScDemo.mem]
           rsp == Unpack(DemoRsp, Pack(DemoRsp, full))
<1>1. /\ DemoRsp.required = {"id", "video_cnt", "info_mem"} /\ DemoRsp.optional = {}
  BY DEF DemoRsp
<1>2. Unpack(DemoReq, req)["id"] = 1  BY IdArrives
<1>3. Exec("demo", req) = Pack(DemoRsp, full)  BY DEF Exec, DemoExec
<1>4. /\ DOMAIN full = DemoRsp.required
      /\ full["id"] = 1 /\ full["video_cnt"] = ScDemo.cnt /\ full["info_mem"] = ScDemo.mem
  <2> HIDE DEF req
  <2> QED  BY <1>1, <1>2 DEF Start
<1> HIDE DEF full, req
<1>5. /\ "id" \in DOMAIN rsp
      /\ rsp["id"] = 1 /\ rsp["video_cnt"] = ScDemo.cnt /\ rsp["info_mem"] = ScDemo.mem
  BY <1>1, <1>4, RoundTrip
<1>6. rsp # Null  BY <1>5, HasId
<1>7. ScDemo.mem % UIntMod = ScDemo.mem
  <2>1. ScDemo.mem = UIntMod \div 2  BY DEF ScDemo
  <2>2. UIntMod \in Nat /\ UIntMod > 1  BY WireAssumption
  <2>3. UIntMod \div 2 \in 0 .. UIntMod - 1  BY <2>2
  <2> QED  BY <2>1, <2>2, <2>3
<1>8. Info("demo", Exec("demo", req))
        = [id |-> rsp["id"], count |-> rsp["video_cnt"], memory |-> rsp["info_mem"] % UIntMod]
  BY <1>3, <1>6 DEF Info, DemoInfo
<1> HIDE DEF rsp
<1> QED  BY <1>5, <1>7, <1>8 DEF req

\* The callback of rpc_clnt_vmon is handed the number the handler filled in.
LEMMA VmonAnswer ==
    LET info == Info("vmon", Exec("vmon", RequestPack("vmon", 1)))
    IN  info # Null /\ info["id"] = 1 /\ info["count"] = ScVmon.num
<1> DEFINE req == RequestPack("vmon", 1)
           full == [Start(VmonRsp) EXCEPT !["id"] = Unpack(VmonReq, req)["id"],
                                          !["count"] = ScVmon.num]
           rsp == Unpack(VmonRsp, Pack(VmonRsp, full))
<1>1. VmonRsp.required = {"id", "count"} /\ VmonRsp.optional = {}  BY DEF VmonRsp
<1>2. Unpack(VmonReq, req)["id"] = 1  BY IdArrives
<1>3. Info("vmon", Exec("vmon", req)) = rsp
  BY DEF Exec, VmonExec, Info, VmonInfo
<1>4. DOMAIN full = VmonRsp.required /\ full["id"] = 1 /\ full["count"] = ScVmon.num
  <2> HIDE DEF req
  <2> QED  BY <1>1, <1>2 DEF Start
<1> HIDE DEF full, req
<1>5. "id" \in DOMAIN rsp /\ rsp["id"] = 1 /\ rsp["count"] = ScVmon.num
  BY <1>1, <1>4, RoundTrip
<1>6. rsp # Null  BY <1>5, HasId
<1> QED  BY <1>3, <1>5, <1>6 DEF req

\* The callback of rpc_clnt_node_state is handed every figure of the node.
LEMMA NodeStateAnswer ==
    LET info == Info("node_state", Exec("node_state", RequestPack("node_state", 1)))
    IN  /\ info # Null /\ info["id"] = 1
        /\ \A f \in DOMAIN ScNodeState : info[f] = ScNodeState[f]
<1> DEFINE req == RequestPack("node_state", 1)
           full == [Start(NodeStateRsp) EXCEPT
                      !["id"] = Unpack(NodeStateReq, req)["id"],
                      !["index"] = ScNodeState.index, !["name"] = ScNodeState.name,
                      !["count"] = ScNodeState.count, !["uplink"] = ScNodeState.uplink,
                      !["downlink"] = ScNodeState.downlink,
                      !["memory"] = ScNodeState.memory, !["cpu"] = ScNodeState.cpu]
           rsp == Unpack(NodeStateRsp, Pack(NodeStateRsp, full))
           figures == {"index", "name", "count", "uplink", "downlink", "memory", "cpu"}
<1>1. NodeStateRsp.required = {"id"} \cup figures /\ NodeStateRsp.optional = {}
  BY DEF NodeStateRsp
<1>2. Unpack(NodeStateReq, req)["id"] = 1  BY IdArrives
<1>3. Info("node_state", Exec("node_state", req)) = rsp
  BY DEF Exec, NodeStateExec, Info, NodeStateInfo
<1>4. /\ DOMAIN full = NodeStateRsp.required
      /\ full["id"] = 1 /\ \A f \in figures : full[f] = ScNodeState[f]
  <2> HIDE DEF req
  <2> QED  BY <1>1, <1>2 DEF Start, ScNodeState
<1>5. DOMAIN ScNodeState = figures  BY DEF ScNodeState
<1> HIDE DEF full, req
<1>6. "id" \in DOMAIN rsp /\ rsp["id"] = 1 /\ \A f \in figures : rsp[f] = ScNodeState[f]
  <2> HIDE DEF figures
  <2> QED  BY <1>1, <1>4, RoundTrip
<1>7. rsp # Null  BY <1>6, HasId
<1> HIDE DEF rsp, figures
<1> QED  BY <1>3, <1>5, <1>6, <1>7 DEF req

-----------------------------------------------------------------------------
(* The processes and the messages                                           *)

\* What is on the connection names a method and carries its packed request,
\* or a result of it.
LEMMA OnConnection ==
    ASSUME MessageOK
    PROVE  /\ \A i \in 1 .. Len(requests) :
                /\ requests[i].id \in Method /\ requests[i].method = requests[i].id
                /\ requests[i].params = RequestPack(requests[i].id, 1)
           /\ \A i \in 1 .. Len(responses) : responses[i].id \in Method
<1>1. ASSUME NEW i \in 1 .. Len(requests)
      PROVE  /\ requests[i].id \in Method /\ requests[i].method = requests[i].id
             /\ requests[i].params = RequestPack(requests[i].id, 1)
  <2>1. PICK m \in Method : requests[i] = Request(m)
    BY DEF MessageOK
  <2>2. requests[i].id = m /\ requests[i].method = m /\ requests[i].params = RequestPack(m, 1)
    BY <2>1 DEF Request
  <2> QED  BY <2>2
<1>2. ASSUME NEW i \in 1 .. Len(responses)
      PROVE  responses[i].id \in Method
  <2>1. PICK m \in Method, b \in BOOLEAN : responses[i] = [id |-> m, result |-> Result(m, b)]
    BY DEF MessageOK
  <2> QED  BY <2>1
<1> QED  BY <1>1, <1>2

\* The call part of the state is left alone by everything but Call, Serve,
\* Reply and Disconnect.
LEMMA CallPartStays ==
    ASSUME CallPart, UNCHANGED <<callVars, served, lossVars, requests, responses>>,
           (conn' = "closed") = (conn = "closed")
    PROVE  CallPart'
BY DEF CallPart, MessageOK, TodoInv, Fresh, FlightInv, OnTheWay, ListedInv, CallInv,
       callVars, lossVars

\* A process creates its wrapper (vmp_rpcsvc_create, vmp_rpclnt_create), starts
\* its thread and makes its object.
LEMMA ProcessStep ==
    ASSUME TypeOK, NEW p \in Process, Create(p) \/ Start_(p) \/ New(p)
    PROVE  TypeOK'
<1>1. CASE Create(p)
  BY <1>1 DEF TypeOK, Create, callVars, servVars, lossVars, connVars
<1>2. CASE Start_(p)
  <2>1. UNCHANGED <<object, callVars, servVars, lossVars, connVars>>  BY <1>2 DEF Start_
  <2>2. /\ core' \in {[core EXCEPT ![p] = "use"], [core EXCEPT ![p] = "dead"]}
        /\ wrapper' \in {wrapper, [wrapper EXCEPT ![p] = "freed"]}
        /\ thread' \in {thread, [thread EXCEPT ![p] = "new"]}
    BY <1>2 DEF Start_
  <2>3. core' \in [Process -> {"create", "start", "use", "idle", "dead"}]
    BY <2>2 DEF TypeOK
  <2>4. wrapper' \in [Process -> {"none", "live", "freed"}]
    BY <2>2 DEF TypeOK
  <2>5. thread' \in [Process -> {"none", "new", "run", "ended"}]
    BY <2>2 DEF TypeOK
  <2> QED
    BY <2>1, <2>3, <2>4, <2>5 DEF TypeOK, callVars, servVars, lossVars, connVars
<1>3. CASE New(p)
  BY <1>3 DEF TypeOK, New, callVars, servVars, lossVars, connVars
<1> QED  BY <1>1, <1>2, <1>3

\* The steps that change neither a call nor the connection's queues.
LEMMA ServerStays ==
    ASSUME TypeOK, Share \/ Connect \/ \E m \in Task : Register(m)
    PROVE  TypeOK'
<1>1. CASE Share
  BY <1>1 DEF TypeOK, Share, Process, callVars, servVars, lossVars, connVars
<1>2. CASE Connect
  BY <1>2 DEF TypeOK, Connect, procVars, callVars, servVars, lossVars
<1>3. ASSUME NEW m \in Task, Register(m) PROVE TypeOK'
  <2>1. /\ core' \in {core, [core EXCEPT !["server"] = "dead"]}
        /\ methods' \in {methods, methods \cup {m}}
        /\ UNCHANGED <<wrapper, thread, object, callVars, served, lossVars, connVars>>
    BY <1>3 DEF Register
  <2>2. core' \in [Process -> {"create", "start", "use", "idle", "dead"}]
    BY <2>1 DEF TypeOK, Process
  <2> QED  BY <2>1, <2>2 DEF TypeOK, callVars, lossVars, connVars
<1> QED  BY <1>1, <1>2, <1>3

\* A read callback counts what has arrived (generic_read_cb).
LEMMA ReadStep ==
    ASSUME TypeOK, BatchInv, NEW p \in Process, Read(p)
    PROVE  TypeOK' /\ BatchInv'
<1>1. PICK n \in left[p] + 1 .. Len(Queue(p)) :
        \/ batch' = [batch EXCEPT ![p] = n] /\ left' = [left EXCEPT ![p] = 0]
        \/ batch' = batch /\ left' = [left EXCEPT ![p] = n]
  BY DEF Read
<1>2. /\ batch[p] = 0
      /\ UNCHANGED <<procVars, callVars, servVars, lossVars, conn, requests, responses>>
  BY DEF Read
<1>3. /\ batch \in [Process -> Nat] /\ left \in [Process -> Nat]
      /\ n \in Nat /\ n <= Len(Queue(p))
  <2>1. batch \in [Process -> Nat] /\ left \in [Process -> Nat]  BY DEF TypeOK
  <2>2. left[p] \in Nat  BY <2>1
  <2> QED  BY <1>1, <2>1, <2>2
<1>4. \A q \in Process : Queue(q)' = Queue(q)  BY <1>2 DEF Queue
<1>5. batch' \in [Process -> Nat] /\ left' \in [Process -> Nat]
  <2>1. batch' \in {batch, [batch EXCEPT ![p] = n]}  BY <1>1
  <2>2. left' \in {[left EXCEPT ![p] = 0], [left EXCEPT ![p] = n]}  BY <1>1
  <2>3. batch' \in [Process -> Nat]  BY <1>3, <2>1
  <2>4. left' \in [Process -> Nat]  BY <1>3, <2>2
  <2> QED  BY <2>3, <2>4
<1>6. TypeOK'
  BY <1>2, <1>5 DEF TypeOK, procVars, callVars, servVars, lossVars
<1>7. ASSUME NEW q \in Process
      PROVE  /\ batch'[q] <= Len(Queue(q)) /\ left'[q] <= Len(Queue(q))
             /\ batch'[q] > 0 => left'[q] = 0
  <2> HIDE DEF Queue
  <2>1. CASE q # p  BY <1>1, <1>3, <2>1 DEF BatchInv
  <2>2. CASE q = p  BY <1>1, <1>2, <1>3, <2>2 DEF BatchInv
  <2> QED  BY <2>1, <2>2
<1> QED  BY <1>4, <1>6, <1>7 DEF BatchInv

\* A lost connection (generic_event_cb) loses the messages on it, not the
\* entries of the calls.
LEMMA DisconnectStep ==
    ASSUME Inv, Disconnect
    PROVE  Inv'
<1>1. /\ thread' = [thread EXCEPT !["client"] = "ended"]
      /\ conn' = "closed" /\ requests' = <<>> /\ responses' = <<>>
      /\ batch' = [p \in Process |-> 0] /\ left' = [p \in Process |-> 0]
      /\ UNCHANGED <<core, wrapper, object, callVars, servVars, lossVars>>
  BY DEF Disconnect
<1>2. TypeOK'  BY <1>1 DEF Inv, TypeOK, callVars, servVars, lossVars
<1>3. BatchInv'
  <2>1. \A p \in Process : Queue(p)' = <<>>  BY <1>1 DEF Queue
  <2>2. Len(<<>>) = 0  OBVIOUS
  <2> QED  BY <1>1, <2>1, <2>2 DEF BatchInv
<1>4. MessageOK' /\ TodoInv' /\ CallInv'
  BY <1>1 DEF Inv, CallPart, MessageOK, TodoInv, Fresh, CallInv, callVars, servVars, lossVars
<1>5. FlightInv' /\ ListedInv'  BY <1>1 DEF FlightInv, ListedInv
<1> QED  BY <1>2, <1>3, <1>4, <1>5 DEF Inv, CallPart

\* A message processed is one fewer in its queue and one fewer in the batch.
LEMMA TakeStep ==
    ASSUME TypeOK, BatchInv, NEW p \in Process, batch[p] > 0,
           Take(p), left' = left,
           Len(Queue(p)') = Len(Queue(p)) - 1,
           \A q \in Process : q # p => Len(Queue(q)') >= Len(Queue(q)),
           \A q \in Process : Len(Queue(q)) \in Nat /\ Len(Queue(q)') \in Nat
    PROVE  BatchInv' /\ batch' \in [Process -> Nat] /\ left' \in [Process -> Nat]
<1>1. batch \in [Process -> Nat] /\ left \in [Process -> Nat]  BY DEF TypeOK
<1>2. batch' = [batch EXCEPT ![p] = batch[p] - 1]  BY DEF Take
<1>3. batch[p] - 1 \in Nat /\ left[p] = 0  BY <1>1 DEF BatchInv
<1>4. batch' \in [Process -> Nat]  BY <1>1, <1>2, <1>3
<1>5. ASSUME NEW q \in Process
      PROVE  /\ batch'[q] <= Len(Queue(q)') /\ left'[q] <= Len(Queue(q)')
             /\ batch'[q] > 0 => left'[q] = 0
  <2> USE DEF BatchInv
  <2>1. CASE q # p  BY <1>1, <1>2, <2>1
  <2>2. CASE q = p  BY <1>1, <1>2, <1>3, <2>2
  <2> QED  BY <2>1, <2>2
<1> QED  BY <1>1, <1>4, <1>5 DEF BatchInv

-----------------------------------------------------------------------------
(* A call, from the client to its callback                                  *)

\* process_request takes one request and answers it at most once.
LEMMA AnswerStep ==
    ASSUME Inv, batch["server"] > 0,
           Answer(Head(requests)), requests' = Tail(requests), Take("server"),
           UNCHANGED <<procVars, callVars, methods, starved, conn, left>>
    PROVE  Inv'
<1> DEFINE m == Head(requests).id
<1>1. /\ requests # <<>> /\ requests' = Tail(requests)
      /\ UNCHANGED <<procVars, callVars, methods, starved, conn>>
  <2>1. batch["server"] \in Nat /\ batch["server"] <= Len(requests)
    BY DEF Inv, TypeOK, BatchInv, Queue, Process
  <2>2. Len(requests) > 0  BY <2>1 DEF Inv, CallPart, MessageOK
  <2>3. Len(<<>>) = 0  OBVIOUS
  <2> QED  BY <2>2, <2>3
<1>2. requests \in Seq({Request(x) : x \in Method})
  BY DEF Inv, CallPart, MessageOK
<1>3. /\ Len(requests) \in Nat /\ 1 \in 1 .. Len(requests) /\ Head(requests) = requests[1]
      /\ requests' \in Seq({Request(x) : x \in Method})
      /\ Len(requests') = Len(requests) - 1
      /\ \A i \in 1 .. Len(requests') :
           i + 1 \in 1 .. Len(requests) /\ requests'[i] = requests[i + 1]
  BY <1>1, <1>2, FrontTaken
<1>4. /\ m \in Method /\ Head(requests).method = m
      /\ Head(requests).params = RequestPack(m, 1)
  BY <1>3, OnConnection DEF Inv, CallPart
<1>5. node[m] = "listed" /\ m \notin served /\ m \notin dropped /\ told[m] = <<>>
  BY <1>3, <1>4 DEF Inv, CallPart, FlightInv, CallInv
<1>6. \A j \in 1 .. Len(responses) : responses[j].id # m
  BY <1>3 DEF Inv, CallPart, FlightInv
<1>7. \A i \in 1 .. Len(requests') : requests'[i].id # m
  BY <1>3 DEF Inv, CallPart, FlightInv
<1>8. methods \subseteq Task  BY DEF Inv, TypeOK
<1>9. \E found \in BOOLEAN, answered \in BOOLEAN :
        /\ found => m \in Task
        /\ served' = IF found THEN served \cup {m} ELSE served
        /\ responses' = IF answered
                        THEN Append(responses, [id |-> m, result |-> Result(m, found)])
                        ELSE responses
        /\ dropped' = IF answered THEN dropped ELSE dropped \cup {m}
  <2>1. PICK fails \in {"none"} \cup {f \in {"result", "reply"} : "alloc" \in Faults} :
          LET r == Head(requests)
              found == r.method \in methods /\ fails # "result"
              result == IF found THEN Exec(r.method, r.params) ELSE Empty
          IN  /\ responses' = IF fails = "reply" THEN responses
                              ELSE Append(responses, [id |-> r.id, result |-> result])
              /\ served' = IF found THEN served \cup {r.id} ELSE served
              /\ dropped' = IF fails = "reply" THEN dropped \cup {r.id} ELSE dropped
    BY DEF Answer
  <2> DEFINE found == m \in methods /\ fails # "result"
             answered == fails # "reply"
  <2>2. found \in BOOLEAN /\ answered \in BOOLEAN /\ (found => m \in Task)
    BY <1>8
  <2>3. Result(m, found)
          = IF found THEN Exec(Head(requests).method, Head(requests).params) ELSE Empty
    BY <1>4, <2>2 DEF Result
  <2>4. /\ served' = IF found THEN served \cup {m} ELSE served
        /\ responses' = IF answered
                        THEN Append(responses, [id |-> m, result |-> Result(m, found)])
                        ELSE responses
        /\ dropped' = IF answered THEN dropped ELSE dropped \cup {m}
    <3> HIDE DEF Result
    <3> QED  BY <1>4, <2>1, <2>3
  <2> HIDE DEF found, answered, m
  <2> QED  BY <2>2, <2>4
<1>10. PICK found \in BOOLEAN, answered \in BOOLEAN :
        /\ found => m \in Task
        /\ served' = IF found THEN served \cup {m} ELSE served
        /\ responses' = IF answered
                        THEN Append(responses, [id |-> m, result |-> Result(m, found)])
                        ELSE responses
        /\ dropped' = IF answered THEN dropped ELSE dropped \cup {m}
  BY <1>9
<1> HIDE DEF m
<1> DEFINE Rsp == {[id |-> x, result |-> Result(x, b)] : x \in Method, b \in BOOLEAN}
           new == [id |-> m, result |-> Result(m, found)]
<1>11. responses \in Seq(Rsp) /\ new \in Rsp /\ new.id = m
  BY <1>4 DEF Inv, CallPart, MessageOK
<1>12. new.result = Result(m, m \in served')
  BY <1>5, <1>10 DEF Result
<1> HIDE DEF Rsp, new
<1>13. /\ responses' \in Seq(Rsp) /\ Len(responses) \in Nat
       /\ \A i \in 1 .. Len(responses') :
            \/ i \in 1 .. Len(responses) /\ responses'[i] = responses[i]
            \/ i = Len(responses) + 1 /\ responses'[i] = new /\ answered
       /\ \A i \in 1 .. Len(responses) :
            i \in 1 .. Len(responses') /\ responses'[i] = responses[i]
       /\ answered => /\ Len(responses) + 1 \in 1 .. Len(responses')
                      /\ responses'[Len(responses) + 1] = new
       /\ Len(responses') \in Nat /\ Len(responses') >= Len(responses)
  <2>1. CASE answered
    <3>1. responses' = Append(responses, new)  BY <1>10, <2>1 DEF new
    <3>2. /\ Len(responses) \in Nat /\ responses' \in Seq(Rsp)
          /\ Len(responses') = Len(responses) + 1
          /\ \A i \in 1 .. Len(responses) : responses'[i] = responses[i]
          /\ responses'[Len(responses) + 1] = new
          /\ \A i \in 1 .. Len(responses) + 1 :
               i \in 1 .. Len(responses) \/ i = Len(responses) + 1
      BY <1>11, <3>1, BackWritten
    <3> QED  BY <2>1, <3>2
  <2>2. CASE ~ answered
    BY <1>10, <1>11, <2>2
  <2> QED  BY <2>1, <2>2
<1>14. BatchInv' /\ batch' \in [Process -> Nat] /\ left' \in [Process -> Nat]
  <2>1. "server" \in Process /\ \A q \in Process : q # "server" => q = "client"
    BY DEF Process
  <2>2. /\ Queue("server") = requests /\ Queue("server")' = requests'
        /\ Queue("client") = responses /\ Queue("client")' = responses'
    BY DEF Queue
  <2> QED  BY <1>3, <1>13, <2>1, <2>2, TakeStep DEF Inv
<1>15. TypeOK'
  BY <1>1, <1>4, <1>10, <1>14 DEF Inv, TypeOK, procVars, callVars
<1>16. MessageOK'
  BY <1>1, <1>3, <1>13 DEF Inv, CallPart, MessageOK, callVars, Rsp
<1>17. \A x \in Method : x # m => /\ x \in served' <=> x \in served
                                  /\ x \in dropped' <=> x \in dropped
  BY <1>10
<1>18. TodoInv'
  <2>1. \A i \in 1 .. Len(todo) : todo[i] # m  BY <1>5 DEF Inv, CallPart, TodoInv, Fresh
  <2>2. \A i \in 1 .. Len(todo) : todo[i] \in Method  BY DEF Inv, TypeOK
  <2> QED  BY <1>1, <1>17, <2>1, <2>2 DEF Inv, CallPart, TodoInv, Fresh, callVars
<1>19. CallInv'
  BY <1>1, <1>5, <1>10, <1>17 DEF Inv, CallPart, CallInv, callVars
<1>20. FlightInv'
  <2>1. ASSUME NEW i \in 1 .. Len(requests')
        PROVE  /\ node'[requests'[i].id] = "listed"
               /\ requests'[i].id \notin served' /\ requests'[i].id \notin dropped'
    <3>1. requests'[i].id \in Method  BY <1>3, OnConnection DEF Inv, CallPart
    <3> QED  BY <1>1, <1>3, <1>7, <1>17, <3>1 DEF Inv, CallPart, FlightInv, callVars
  <2>2. ASSUME NEW i \in 1 .. Len(responses')
        PROVE  /\ node'[responses'[i].id] = "listed" /\ responses'[i].id \notin dropped'
               /\ responses'[i].result = Result(responses'[i].id, responses'[i].id \in served')
    <3>1. CASE i \in 1 .. Len(responses) /\ responses'[i] = responses[i]
      <4>1. responses[i].id \in Method /\ responses[i].id # m
        BY <1>6, <3>1, OnConnection DEF Inv, CallPart
      <4>2. /\ (responses[i].id \in served') = (responses[i].id \in served)
            /\ (responses[i].id \in dropped') = (responses[i].id \in dropped)
        BY <1>17, <4>1
      <4> QED  BY <1>1, <3>1, <4>2 DEF Inv, CallPart, FlightInv, callVars
    <3>2. CASE responses'[i] = new /\ answered
      BY <1>1, <1>5, <1>10, <1>11, <1>12, <3>2 DEF callVars
    <3> QED  BY <1>13, <3>1, <3>2
  <2>3. \A i, j \in 1 .. Len(requests') : requests'[i].id = requests'[j].id => i = j
    BY <1>3, SMTT(40) DEF Inv, CallPart, FlightInv
  <2>4. \A i, j \in 1 .. Len(responses') : responses'[i].id = responses'[j].id => i = j
    BY <1>6, <1>11, <1>13 DEF Inv, CallPart, FlightInv
  <2>5. ASSUME NEW i \in 1 .. Len(requests'), NEW j \in 1 .. Len(responses')
        PROVE  requests'[i].id # responses'[j].id
    <3>1. requests'[i].id # m /\ i + 1 \in 1 .. Len(requests) /\ requests'[i] = requests[i + 1]
      BY <1>3, <1>7
    <3>2. CASE responses'[j] = new  BY <1>11, <3>1, <3>2
    <3>3. CASE j \in 1 .. Len(responses) /\ responses'[j] = responses[j]
      BY <3>1, <3>3 DEF Inv, CallPart, FlightInv
    <3> QED  BY <1>13, <3>2, <3>3
  <2> QED  BY <2>1, <2>2, <2>3, <2>4, <2>5 DEF FlightInv
<1>21. ListedInv'
  <2>1. conn # "closed"  BY <1>1 DEF Inv, CallPart, ListedInv
  <2>2. ASSUME NEW x \in Method, node[x] = "listed", x \notin dropped'
        PROVE  OnTheWay(x)'
    <3>1. CASE x = m
      <4>1. answered  BY <1>10, <2>2, <3>1
      <4> QED  BY <1>11, <1>13, <3>1, <4>1 DEF OnTheWay
    <3>2. CASE x # m
      <4>1. OnTheWay(x)  BY <1>17, <2>1, <2>2, <3>2 DEF Inv, CallPart, ListedInv
      <4>2. CASE \E i \in 1 .. Len(requests) : requests[i].id = x
        <5>1. PICK i \in 1 .. Len(requests) : requests[i].id = x  BY <4>2
        <5>2. i # 1  BY <1>3, <3>2, <5>1 DEF m
        <5>3. i - 1 \in 1 .. Len(requests') /\ (i - 1) + 1 = i  BY <1>3, <5>1, <5>2
        <5>4. requests'[i - 1] = requests[i]  BY <1>3, <5>3
        <5> QED  BY <5>1, <5>3, <5>4 DEF OnTheWay
      <4>3. CASE \E i \in 1 .. Len(responses) : responses[i].id = x
        BY <1>13, <4>3 DEF OnTheWay
      <4> QED  BY <4>1, <4>2, <4>3 DEF OnTheWay
    <3> QED  BY <3>1, <3>2
  <2> QED  BY <1>1, <2>1, <2>2 DEF ListedInv, callVars
<1> QED  BY <1>14, <1>15, <1>16, <1>18, <1>19, <1>20, <1>21 DEF Inv, CallPart

\* Without memory for the request the server ends and leaves all as it is.
LEMMA ServeStep ==
    ASSUME Inv, Serve
    PROVE  Inv'
<1>1. CASE /\ Answer(Head(requests)) /\ requests' = Tail(requests) /\ Take("server")
           /\ UNCHANGED core
  BY <1>1, AnswerStep DEF Serve, procVars
<1>2. CASE /\ core' = [core EXCEPT !["server"] = "dead"]
           /\ UNCHANGED <<requests, responses, batch, served, dropped>>
  <2>1. UNCHANGED <<wrapper, thread, object, callVars, methods, starved, conn, left>>
    BY DEF Serve
  <2>2. CallPart'  BY <1>2, <2>1, CallPartStays DEF Inv, lossVars
  <2>3. TypeOK'  BY <1>2, <2>1 DEF Inv, TypeOK, Process, callVars
  <2>4. BatchInv'  BY <1>2, <2>1 DEF Inv, BatchInv, Queue
  <2> QED  BY <2>2, <2>3, <2>4 DEF Inv
<1> QED  BY <1>1, <1>2 DEF Serve

\* process_response and the callback it runs free the entry and the context of
\* the call that is answered, and of no other; a response that is not unpacked
\* is dropped.
LEMMA ReplyStep ==
    ASSUME Inv, Reply
    PROVE  Inv'
<1> DEFINE m == Head(responses).id
           Rsp == {[id |-> x, result |-> Result(x, b)] : x \in Method, b \in BOOLEAN}
           Told == {<<>>} \cup {<<Outcome(x, b, e)>> :
                                   x \in Method, b \in BOOLEAN, e \in BOOLEAN}
<1>1. /\ responses # <<>> /\ responses' = Tail(responses)
      /\ Take("client") /\ batch["client"] > 0 /\ left' = left
      /\ UNCHANGED <<procVars, todo, ret, servVars, conn, requests>>
  <2>1. batch["client"] \in Nat /\ batch["client"] <= Len(responses)
    BY DEF Inv, TypeOK, BatchInv, Queue, Process
  <2>2. batch["client"] > 0  BY DEF Reply
  <2>3. Len(responses) > 0  BY <2>1, <2>2 DEF Inv, CallPart, MessageOK
  <2>4. Len(<<>>) = 0  OBVIOUS
  <2> QED  BY <2>3, <2>4 DEF Reply
<1>2. responses \in Seq(Rsp)  BY DEF Inv, CallPart, MessageOK
<1>3. told \in [Method -> Told]  BY DEF Inv, CallPart, MessageOK
<1> HIDE DEF Rsp, Told
<1>4. /\ Len(responses) \in Nat /\ 1 \in 1 .. Len(responses)
      /\ Head(responses) = responses[1]
      /\ responses' \in Seq(Rsp) /\ Len(responses') = Len(responses) - 1
      /\ \A i \in 1 .. Len(responses') :
           i + 1 \in 1 .. Len(responses) /\ responses'[i] = responses[i + 1]
  BY <1>1, <1>2, FrontTaken
<1>5. /\ m \in Method /\ node[m] = "listed" /\ told[m] = <<>> /\ priv[m] = "live"
      /\ m \notin dropped /\ m \notin starved /\ ret[m] = 0
      /\ Head(responses).result = Result(m, m \in served)
  BY <1>4, OnConnection DEF Inv, CallPart, FlightInv, CallInv
<1>6. /\ \A i \in 1 .. Len(responses') : responses'[i].id # m
      /\ \A i \in 1 .. Len(requests) : requests[i].id # m
  BY <1>4, SMTT(40) DEF Inv, CallPart, FlightInv
<1>7. \/ \E e \in BOOLEAN :
            /\ node' = [node EXCEPT ![m] = "freed"] /\ priv' = [priv EXCEPT ![m] = "freed"]
            /\ told' = [told EXCEPT ![m] = <<Outcome(m, m \in served, e)>>]
            /\ starved' = IF e THEN starved \cup {m} ELSE starved
            /\ dropped' = dropped
      \/ dropped' = dropped \cup {m} /\ UNCHANGED <<node, priv, told, starved>>
  <2>1. CASE dropped' = dropped \cup {m} /\ UNCHANGED <<node, priv, told, starved>>
    BY <2>1
  <2>2. CASE /\ RunCallback(m, Head(responses).result)
             /\ node' = [node EXCEPT ![m] = "freed"] /\ UNCHANGED dropped
    <3> DEFINE inf(e) == IF e THEN Null ELSE Info(m, Head(responses).result)
               outcome(e) == [ret |-> IF inf(e) = Null THEN -1 ELSE 0, info |-> inf(e)]
    <3>1. PICK e \in BOOLEAN :
            /\ told' = [told EXCEPT ![m] = Append(told[m], outcome(e))]
            /\ priv' = [priv EXCEPT ![m] = "freed"]
            /\ starved' = IF e THEN starved \cup {m} ELSE starved
      BY <2>2 DEF RunCallback
    <3>2. outcome(e) = Outcome(m, m \in served, e)
      BY <1>5 DEF Outcome
    <3> HIDE DEF outcome, m
    <3>3. Append(<<>>, outcome(e)) = <<outcome(e)>>  OBVIOUS
    <3> QED  BY <1>5, <2>2, <3>1, <3>2, <3>3
  <2> QED  BY <2>1, <2>2 DEF Reply
<1> HIDE DEF m
<1>8. /\ node' \in [Method -> {"none", "listed", "freed"}]
      /\ priv' \in [Method -> {"none", "live", "freed"}]
      /\ dropped' \subseteq Method /\ starved' \subseteq Method
      /\ told' \in [Method -> Told]
  <2>1. \A b, e \in BOOLEAN : <<Outcome(m, b, e)>> \in Told  BY <1>5 DEF Told
  <2>2. (m \in served) \in BOOLEAN  OBVIOUS
  <2>3. /\ node' \in {node, [node EXCEPT ![m] = "freed"]}
        /\ priv' \in {priv, [priv EXCEPT ![m] = "freed"]}
        /\ dropped' \in {dropped, dropped \cup {m}}
        /\ starved' \in {starved, starved \cup {m}}
    BY <1>7
  <2>4. node' \in [Method -> {"none", "listed", "freed"}]  BY <2>3 DEF Inv, TypeOK
  <2>5. priv' \in [Method -> {"none", "live", "freed"}]  BY <2>3 DEF Inv, TypeOK
  <2>6. dropped' \subseteq Method /\ starved' \subseteq Method
    BY <1>5, <2>3 DEF Inv, TypeOK
  <2>7. told' \in [Method -> Told]
    <3>1. told' = told \/ \E e \in BOOLEAN :
            told' = [told EXCEPT ![m] = <<Outcome(m, m \in served, e)>>]
      BY <1>7
    <3> QED  BY <1>3, <2>1, <2>2, <3>1
  <2> QED  BY <2>4, <2>5, <2>6, <2>7
<1>9. BatchInv' /\ batch' \in [Process -> Nat] /\ left' \in [Process -> Nat]
  <2>1. "client" \in Process /\ \A q \in Process : q # "client" => q = "server"
    BY DEF Process
  <2>2. /\ Queue("server") = requests /\ Queue("server")' = requests
        /\ Queue("client") = responses /\ Queue("client")' = responses'
    BY <1>1 DEF Queue
  <2>3. Len(requests) \in Nat  BY DEF Inv, CallPart, MessageOK
  <2> QED  BY <1>1, <1>4, <2>1, <2>2, <2>3, TakeStep DEF Inv
<1>10. TypeOK'  BY <1>1, <1>8, <1>9 DEF Inv, TypeOK, procVars, servVars
<1>12. MessageOK'
  BY <1>1, <1>4, <1>8 DEF Inv, CallPart, MessageOK, Rsp, Told
<1>13. \A x \in Method : x # m => /\ node'[x] = node[x] /\ priv'[x] = priv[x]
                                  /\ told'[x] = told[x]
                                  /\ x \in dropped' <=> x \in dropped
                                  /\ x \in starved' <=> x \in starved
  BY <1>3, <1>5, <1>7 DEF Inv, TypeOK
<1>14. \/ /\ node'[m] = "freed" /\ priv'[m] = "freed"
          /\ told'[m] = <<Outcome(m, m \in served, m \in starved')>>
       \/ /\ m \in dropped' /\ m \notin starved' /\ node'[m] = "listed" /\ priv'[m] = "live"
          /\ told'[m] = <<>>
  <2>1. CASE dropped' = dropped \cup {m} /\ UNCHANGED <<node, priv, told, starved>>
    BY <1>5, <2>1
  <2>2. ASSUME NEW e \in BOOLEAN,
               /\ node' = [node EXCEPT ![m] = "freed"] /\ priv' = [priv EXCEPT ![m] = "freed"]
               /\ told' = [told EXCEPT ![m] = <<Outcome(m, m \in served, e)>>]
               /\ starved' = IF e THEN starved \cup {m} ELSE starved
        PROVE  /\ node'[m] = "freed" /\ priv'[m] = "freed"
               /\ told'[m] = <<Outcome(m, m \in served, m \in starved')>>
    <3>1. node'[m] = "freed" /\ priv'[m] = "freed"  BY <1>5, <2>2 DEF Inv, TypeOK
    <3>2. told'[m] = <<Outcome(m, m \in served, e)>>  BY <1>3, <1>5, <2>2
    <3>3. e = (m \in starved')  BY <1>5, <2>2
    <3> QED  BY <3>1, <3>2, <3>3
  <2> QED  BY <1>7, <2>1, <2>2
<1>15. TodoInv'
  <2>1. \A i \in 1 .. Len(todo) : todo[i] # m  BY <1>5 DEF Inv, CallPart, TodoInv, Fresh
  <2>2. \A i \in 1 .. Len(todo) : todo[i] \in Method  BY DEF Inv, TypeOK
  <2> QED  BY <1>1, <1>13, <2>1, <2>2 DEF Inv, CallPart, TodoInv, Fresh, servVars
<1>16. CallInv'
  <2>2. ret' = ret /\ served' = served  BY <1>1 DEF servVars
  <2>3. ASSUME NEW x \in Method
        PROVE  /\ node'[x] # "freed" => told'[x] = <<>> /\ x \notin starved'
               /\ node'[x] # "none" => ret'[x] = 0
               /\ node'[x] = "listed" => priv'[x] = "live"
               /\ priv'[x] = "live" => node'[x] = "listed" \/ ret'[x] = -1
               /\ told'[x] # <<>> => told'[x] = <<Outcome(x, x \in served', x \in starved')>>
               /\ x \in served' => x \in Task
    <3>1. CASE x = m
      BY <1>5, <1>14, <2>2, <3>1 DEF Inv, CallPart, CallInv
    <3>2. CASE x # m
      <4>1. (x \in starved') = (x \in starved)  BY <1>13, <3>2
      <4> QED  BY <1>13, <2>2, <3>2, <4>1 DEF Inv, CallPart, CallInv
    <3> QED  BY <3>1, <3>2
  <2> QED  BY <2>3 DEF CallInv
<1>17. FlightInv'
  <2>1. served' = served /\ requests' = requests  BY <1>1 DEF servVars
  <2>2. ASSUME NEW i \in 1 .. Len(requests)
        PROVE  /\ node'[requests[i].id] = "listed"
               /\ requests[i].id \notin served /\ requests[i].id \notin dropped'
    BY <1>6, <1>13, OnConnection DEF Inv, CallPart, FlightInv
  <2>3. ASSUME NEW i \in 1 .. Len(responses')
        PROVE  /\ node'[responses'[i].id] = "listed" /\ responses'[i].id \notin dropped'
               /\ responses'[i].result = Result(responses'[i].id, responses'[i].id \in served)
    <3>1. responses'[i].id \in Method  BY <1>4, OnConnection DEF Inv, CallPart
    <3> QED  BY <1>4, <1>6, <1>13, <3>1 DEF Inv, CallPart, FlightInv
  <2>4. \A i, j \in 1 .. Len(responses') : responses'[i].id = responses'[j].id => i = j
    BY <1>4 DEF Inv, CallPart, FlightInv
  <2>5. \A i \in 1 .. Len(requests), j \in 1 .. Len(responses') :
          requests[i].id # responses'[j].id
    BY <1>4 DEF Inv, CallPart, FlightInv
  <2>6. \A i, j \in 1 .. Len(requests) : requests[i].id = requests[j].id => i = j
    BY DEF Inv, CallPart, FlightInv
  <2> QED  BY <2>1, <2>2, <2>3, <2>4, <2>5, <2>6 DEF FlightInv
<1>18. ListedInv'
  <2>1. conn # "closed" /\ conn' = conn /\ requests' = requests
    BY <1>1 DEF Inv, CallPart, ListedInv
  <2>2. ASSUME NEW x \in Method, node'[x] = "listed", x \notin dropped'
        PROVE  OnTheWay(x)'
    <3>1. x # m  BY <1>14, <2>2
    <3>2. OnTheWay(x)  BY <1>13, <2>1, <2>2, <3>1 DEF Inv, CallPart, ListedInv
    <3>3. CASE \E i \in 1 .. Len(requests) : requests[i].id = x
      BY <2>1, <3>3 DEF OnTheWay
    <3>4. CASE \E i \in 1 .. Len(responses) : responses[i].id = x
      <4>1. PICK i \in 1 .. Len(responses) : responses[i].id = x  BY <3>4
      <4>2. i # 1  BY <1>4, <3>1, <4>1 DEF m
      <4>3. i - 1 \in 1 .. Len(responses') /\ (i - 1) + 1 = i  BY <1>4, <4>1, <4>2
      <4>4. responses'[i - 1] = responses[i]  BY <1>4, <4>3
      <4> QED  BY <4>1, <4>3, <4>4 DEF OnTheWay
    <3> QED  BY <3>2, <3>3, <3>4 DEF OnTheWay
  <2> QED  BY <2>1, <2>2 DEF ListedInv
<1> QED  BY <1>9, <1>10, <1>12, <1>15, <1>16, <1>17, <1>18 DEF Inv, CallPart

\* clnt_X_call makes the next call: it is entered in the list and written, or
\* its context is lost, or nothing happens without a client.
LEMMA CallStep ==
    ASSUME Inv, Call
    PROVE  Inv'
<1> DEFINE m == Head(todo)
           Req == {Request(x) : x \in Method}
<1>1. /\ core["client"] = "use" /\ todo # <<>> /\ todo' = Tail(todo)
      /\ UNCHANGED <<wrapper, thread, object, told, servVars, starved, conn, responses,
                     batch, left>>
  BY DEF Call
<1>2. core' \in {core, [core EXCEPT !["client"] = "dead"]}
  BY DEF Call
<1>3. Skip(m) \/ Send(m) \/ Fail(m) \/ UNCHANGED <<node, priv, ret, requests, dropped>>
  BY DEF Call
<1>4. todo \in Seq(Method)  BY DEF Inv, TypeOK
<1>5. /\ Len(todo) \in Nat /\ 1 \in 1 .. Len(todo) /\ Head(todo) = todo[1] /\ todo[1] \in Method
      /\ todo' \in Seq(Method) /\ Len(todo') = Len(todo) - 1
      /\ \A i \in 1 .. Len(todo') : i + 1 \in 1 .. Len(todo) /\ todo'[i] = todo[i + 1]
  BY <1>1, <1>4, FrontTaken
<1>6. m \in Method /\ Fresh(m)  BY <1>5 DEF Inv, CallPart, TodoInv
<1>7. \A i \in 1 .. Len(todo') : todo'[i] \in Method /\ todo'[i] # m
  BY <1>4, <1>5 DEF Inv, CallPart, TodoInv
<1>8. requests \in Seq(Req)  BY DEF Inv, CallPart, MessageOK
<1> HIDE DEF m, Req
<1>9. /\ node' \in {node, [node EXCEPT ![m] = "listed"]}
      /\ priv' \in {priv, [priv EXCEPT ![m] = "live"]}
      /\ ret' \in {ret, [ret EXCEPT ![m] = 0], [ret EXCEPT ![m] = -1]}
      /\ dropped' \in {dropped, dropped \cup {m}}
  BY <1>3 DEF Skip, Send, Fail
<1>10. /\ \A x \in Method : x # m => /\ node'[x] = node[x] /\ priv'[x] = priv[x]
                                     /\ ret'[x] = ret[x]
                                     /\ x \in dropped' <=> x \in dropped
       /\ dropped' \subseteq Method
       /\ node' \in [Method -> {"none", "listed", "freed"}]
       /\ priv' \in [Method -> {"none", "live", "freed"}]
       /\ ret' \in [Method -> {-1, 0, 1}]
  <2>1. /\ node \in [Method -> {"none", "listed", "freed"}]
        /\ priv \in [Method -> {"none", "live", "freed"}]
        /\ ret \in [Method -> {-1, 0, 1}] /\ dropped \subseteq Method
    BY DEF Inv, TypeOK
  <2>2. /\ node' \in [Method -> {"none", "listed", "freed"}]
        /\ \A x \in Method : x # m => node'[x] = node[x]
    BY <1>9, <2>1
  <2>3. /\ priv' \in [Method -> {"none", "live", "freed"}]
        /\ \A x \in Method : x # m => priv'[x] = priv[x]
    BY <1>9, <2>1
  <2>4. /\ ret' \in [Method -> {-1, 0, 1}]
        /\ \A x \in Method : x # m => ret'[x] = ret[x]
    BY <1>9, <2>1
  <2>5. /\ dropped' \subseteq Method
        /\ \A x \in Method : x # m => (x \in dropped' <=> x \in dropped)
    BY <1>6, <1>9, <2>1
  <2> QED  BY <2>2, <2>3, <2>4, <2>5
<1>11. \/ node'[m] = "none" /\ priv'[m] = "none"
       \/ node'[m] = "none" /\ priv'[m] = "live" /\ ret'[m] = -1
       \/ node'[m] = "listed" /\ priv'[m] = "live" /\ ret'[m] = 0
  BY <1>3, <1>6 DEF Skip, Send, Fail, Inv, TypeOK, Fresh
<1>12. \/ requests' = requests /\ (node'[m] = "listed" => m \in dropped')
       \/ /\ node'[m] = "listed" /\ requests' = Append(requests, Request(m))
          /\ dropped' = dropped /\ conn # "closed"
  BY <1>3, <1>6 DEF Skip, Send, Fail, Request, Inv, TypeOK, Fresh
<1>13. /\ Request(m) \in Req /\ Request(m).id = m
  BY <1>6 DEF Req, Request
<1>14. /\ requests' \in Seq(Req) /\ Len(requests) \in Nat
       /\ \A i \in 1 .. Len(requests') :
            \/ i \in 1 .. Len(requests) /\ requests'[i] = requests[i]
            \/ /\ i = Len(requests) + 1 /\ requests'[i] = Request(m)
               /\ node'[m] = "listed" /\ dropped' = dropped
       /\ Len(requests') \in Nat /\ Len(requests') >= Len(requests)
       /\ \A i \in 1 .. Len(requests) :
            i \in 1 .. Len(requests') /\ requests'[i] = requests[i]
       /\ \/ node'[m] = "listed" => m \in dropped'
          \/ \E i \in 1 .. Len(requests') : requests'[i] = Request(m)
  <2>1. CASE requests' = requests /\ (node'[m] = "listed" => m \in dropped')
    BY <1>8, <2>1
  <2>2. CASE /\ node'[m] = "listed" /\ requests' = Append(requests, Request(m))
             /\ dropped' = dropped
    BY <1>8, <1>13, <2>2, BackWritten
  <2> QED  BY <1>12, <2>1, <2>2
<1>15. /\ \A i \in 1 .. Len(requests) : requests[i].id \in Method /\ requests[i].id # m
       /\ \A i \in 1 .. Len(responses) : responses[i].id \in Method /\ responses[i].id # m
  BY <1>6, OnConnection DEF Inv, CallPart, FlightInv, Fresh
<1>16. TypeOK'
  <2>1. core' \in [Process -> {"create", "start", "use", "idle", "dead"}]
    BY <1>2 DEF Inv, TypeOK, Process
  <2> QED  BY <1>1, <1>5, <1>10, <2>1 DEF Inv, TypeOK, servVars
<1>17. BatchInv'
  <2>1. /\ Queue("server") = requests /\ Queue("server")' = requests'
        /\ Queue("client") = responses /\ Queue("client")' = responses
    BY <1>1 DEF Queue
  <2>2. batch' = batch /\ left' = left  BY <1>1
  <2>3. batch["server"] \in Nat /\ left["server"] \in Nat  BY DEF Inv, TypeOK, Process
  <2> QED  BY <1>14, <2>1, <2>2, <2>3 DEF Inv, BatchInv, Process
<1>18. MessageOK'
  BY <1>1, <1>14 DEF Inv, CallPart, MessageOK, Req
<1>19. TodoInv'
  <2>1. ASSUME NEW i \in 1 .. Len(todo')
        PROVE  /\ node'[todo'[i]] = "none" /\ priv'[todo'[i]] = "none"
               /\ told'[todo'[i]] = <<>> /\ todo'[i] \notin served'
               /\ todo'[i] \notin dropped'
    <3>1. Fresh(todo[i + 1]) /\ todo'[i] = todo[i + 1] /\ todo'[i] \in Method /\ todo'[i] # m
      BY <1>5, <1>7 DEF Inv, CallPart, TodoInv
    <3> QED  BY <1>1, <1>10, <3>1 DEF Fresh, servVars
  <2>2. \A i, j \in 1 .. Len(todo') : todo'[i] = todo'[j] => i = j
    BY <1>5 DEF Inv, CallPart, TodoInv
  <2> QED  BY <2>1, <2>2 DEF TodoInv, Fresh
<1>20. CallInv'
  <2>1. /\ told' = told /\ served' = served /\ starved' = starved
        /\ told[m] = <<>> /\ m \notin served /\ m \notin starved
    BY <1>1, <1>6 DEF servVars, Fresh, Inv, CallPart, CallInv
  <2>2. ASSUME NEW x \in Method
        PROVE  /\ node'[x] # "freed" => told'[x] = <<>> /\ x \notin starved'
               /\ node'[x] # "none" => ret'[x] = 0
               /\ node'[x] = "listed" => priv'[x] = "live"
               /\ priv'[x] = "live" => node'[x] = "listed" \/ ret'[x] = -1
               /\ told'[x] # <<>> => told'[x] = <<Outcome(x, x \in served', x \in starved')>>
               /\ x \in served' => x \in Task
    <3>1. CASE x = m
      BY <1>11, <2>1, <3>1 DEF Inv, CallPart, CallInv
    <3>2. CASE x # m
      BY <1>10, <2>1, <3>2 DEF Inv, CallPart, CallInv
    <3> QED  BY <3>1, <3>2
  <2> QED  BY <2>2 DEF CallInv
<1>21. FlightInv'
  <2>1. /\ served' = served /\ responses' = responses
        /\ m \notin served /\ m \notin dropped
    BY <1>1, <1>6 DEF servVars, Fresh
  <2>2. ASSUME NEW i \in 1 .. Len(requests')
        PROVE  /\ node'[requests'[i].id] = "listed"
               /\ requests'[i].id \notin served /\ requests'[i].id \notin dropped'
    <3>1. CASE i \in 1 .. Len(requests) /\ requests'[i] = requests[i]
      BY <1>10, <1>15, <3>1 DEF Inv, CallPart, FlightInv
    <3>2. CASE requests'[i] = Request(m) /\ node'[m] = "listed" /\ dropped' = dropped
      BY <1>13, <2>1, <3>2
    <3> QED  BY <1>14, <3>1, <3>2
  <2>3. ASSUME NEW i \in 1 .. Len(responses)
        PROVE  /\ node'[responses[i].id] = "listed" /\ responses[i].id \notin dropped'
               /\ responses[i].result = Result(responses[i].id, responses[i].id \in served)
    BY <1>10, <1>15 DEF Inv, CallPart, FlightInv
  <2>4. \A i, j \in 1 .. Len(requests') : requests'[i].id = requests'[j].id => i = j
    BY <1>13, <1>14, <1>15 DEF Inv, CallPart, FlightInv
  <2>5. ASSUME NEW i \in 1 .. Len(requests'), NEW j \in 1 .. Len(responses)
        PROVE  requests'[i].id # responses[j].id
    <3>1. CASE i \in 1 .. Len(requests) /\ requests'[i] = requests[i]
      BY <3>1 DEF Inv, CallPart, FlightInv
    <3>2. CASE requests'[i] = Request(m)  BY <1>13, <1>15, <3>2
    <3> QED  BY <1>14, <3>1, <3>2
  <2>6. \A i, j \in 1 .. Len(responses) : responses[i].id = responses[j].id => i = j
    BY DEF Inv, CallPart, FlightInv
  <2> QED  BY <2>1, <2>2, <2>3, <2>4, <2>5, <2>6 DEF FlightInv
<1>22. ListedInv'
  <2>1. conn' = conn /\ responses' = responses  BY <1>1
  <2>2. ASSUME NEW x \in Method, node'[x] = "listed", x \notin dropped', conn # "closed"
        PROVE  OnTheWay(x)'
    <3>1. CASE x = m  BY <1>13, <1>14, <2>2, <3>1 DEF OnTheWay
    <3>2. CASE x # m
      <4>1. OnTheWay(x)  BY <1>10, <2>2, <3>2 DEF Inv, CallPart, ListedInv
      <4> QED  BY <1>14, <2>1, <4>1 DEF OnTheWay
    <3> QED  BY <3>1, <3>2
  <2>3. conn = "closed" => requests' = <<>> /\ responses' = <<>>
    BY <1>12, <2>1 DEF Inv, CallPart, ListedInv
  <2> QED  BY <2>1, <2>2, <2>3 DEF ListedInv
<1> QED  BY <1>16, <1>17, <1>18, <1>19, <1>20, <1>21, <1>22 DEF Inv, CallPart

-----------------------------------------------------------------------------
(* The theorems                                                             *)

\* Both processes begin without a wrapper and without a call.
LEMMA InitInv ==
    ASSUME Init
    PROVE  Inv
<1>1. TypeOK  BY DEF Init, TypeOK, Process, Method
<1>2. BatchInv
  <2>1. \A p \in Process : Queue(p) = <<>>  BY DEF Init, Queue
  <2>2. Len(<<>>) = 0  OBVIOUS
  <2> QED  BY <2>1, <2>2 DEF Init, BatchInv
<1>3. MessageOK  BY DEF Init, MessageOK
<1>4. TodoInv
  <2>1. Len(todo) = 4 /\ \A i \in 1 .. 4 : todo[i] \in Method
    BY DEF Init, Method
  <2>2. \A m \in Method : Fresh(m)  BY DEF Init, Fresh
  <2>3. \A i, j \in 1 .. 4 : todo[i] = todo[j] => i = j  BY DEF Init
  <2> QED  BY <2>1, <2>2, <2>3 DEF TodoInv
<1>5. FlightInv /\ ListedInv  BY DEF Init, FlightInv, ListedInv
<1>6. CallInv  BY DEF Init, CallInv
<1> QED  BY <1>1, <1>2, <1>3, <1>4, <1>5, <1>6 DEF Inv, CallPart

\* The invariant of the calls holds in every state of the two processes,
\* whatever fails.
THEOREM CallsInvariant == Spec => []Inv
<1>1. Init => Inv  BY InitInv
<1>2. Inv /\ [Next]_vars => Inv'
  <2> SUFFICES ASSUME Inv, [Next]_vars PROVE Inv'
    OBVIOUS
  <2>1. ASSUME NEW p \in Process, Create(p) \/ Start_(p) \/ New(p) PROVE Inv'
    <3>1. UNCHANGED <<callVars, servVars, lossVars, connVars>>
      BY <2>1 DEF Create, Start_, New
    <3>2. CallPart'  BY <3>1, CallPartStays DEF Inv, servVars, connVars
    <3>3. BatchInv'  BY <3>1 DEF Inv, BatchInv, Queue, connVars
    <3> QED  BY <2>1, <3>2, <3>3, ProcessStep DEF Inv
  <2>2. CASE Share \/ Connect \/ \E m \in Task : Register(m)
    <3>1. /\ UNCHANGED <<callVars, served, lossVars, requests, responses, batch, left>>
          /\ (conn' = "closed") = (conn = "closed")
      BY <2>2 DEF Share, Connect, Register, servVars, connVars
    <3>2. BatchInv'  BY <3>1 DEF Inv, BatchInv, Queue
    <3> QED  BY <2>2, <3>1, <3>2, ServerStays, CallPartStays DEF Inv
  <2>3. CASE Disconnect  BY <2>3, DisconnectStep
  <2>4. CASE Serve  BY <2>4, ServeStep
  <2>5. CASE Reply  BY <2>5, ReplyStep
  <2>6. CASE Call  BY <2>6, CallStep
  <2>7. ASSUME NEW p \in Process, Read(p) PROVE Inv'
    <3>1. UNCHANGED <<callVars, servVars, lossVars, conn, requests, responses>>
      BY <2>7 DEF Read
    <3> QED  BY <2>7, <3>1, ReadStep, CallPartStays DEF Inv, servVars
  <2>8. CASE UNCHANGED vars
    <3>1. UNCHANGED <<procVars, callVars, servVars, lossVars, connVars>>
      BY <2>8 DEF vars
    <3>2. CallPart'  BY <3>1, CallPartStays DEF Inv, servVars, connVars
    <3>3. TypeOK'
      BY <3>1 DEF Inv, TypeOK, procVars, callVars, servVars, lossVars, connVars
    <3>4. BatchInv'  BY <3>1 DEF Inv, BatchInv, Queue, connVars
    <3> QED  BY <3>2, <3>3, <3>4 DEF Inv
  <2> QED
    BY <2>1, <2>2, <2>3, <2>4, <2>5, <2>6, <2>7, <2>8
    DEF Next, ClientStep, ServerStep, Process
<1> QED  BY <1>1, <1>2, PTL DEF Spec

\* A reply callback never gets a freed context, and a context without an entry
\* is one of a call that returned -1 (rpc_clnt_demo and its like).
THEOREM ContextIsOwned == Spec => []ContextOwned
<1>1. Inv => ContextOwned
  BY DEF Inv, CallPart, CallInv, ContextOwned
<1> QED  BY <1>1, CallsInvariant, PTL

\* What an outcome says of the handler.
LEMMA OutcomeOfServed ==
    ASSUME NEW m \in Method, NEW found \in BOOLEAN, found => m \in Task,
           NEW starves \in BOOLEAN
    PROVE  LET o == Outcome(m, found, starves)
           IN  /\ (o.ret = 0) <=> (found /\ ~ starves)
               /\ o.ret = 0 /\ m = "demo" =>
                    o.info = [id |-> 1, count |-> ScDemo.cnt, memory |-> ScDemo.mem]
               /\ o.ret = 0 /\ m = "vmon" => o.info["id"] = 1 /\ o.info["count"] = ScVmon.num
               /\ o.ret = 0 /\ m = "node_state" =>
                    o.info["id"] = 1 /\ \A f \in DOMAIN ScNodeState : o.info[f] = ScNodeState[f]
<1> DEFINE info == Info(m, Result(m, found))
           inf == IF starves THEN Null ELSE info
<1>0. /\ Outcome(m, found, starves).info = inf
      /\ Outcome(m, found, starves).ret = IF inf = Null THEN -1 ELSE 0
  BY DEF Outcome
<1>6. CASE starves
  <2> HIDE DEF info
  <2> QED  BY <1>0, <1>6
<1> SUFFICES ASSUME ~ starves
             PROVE  LET o == Outcome(m, found, starves)
                    IN  /\ (o.ret = 0) <=> found
                        /\ o.ret = 0 /\ m = "demo" =>
                             o.info = [id |-> 1, count |-> ScDemo.cnt, memory |-> ScDemo.mem]
                        /\ o.ret = 0 /\ m = "vmon" =>
                             o.info["id"] = 1 /\ o.info["count"] = ScVmon.num
                        /\ o.ret = 0 /\ m = "node_state" =>
                             /\ o.info["id"] = 1
                             /\ \A f \in DOMAIN ScNodeState : o.info[f] = ScNodeState[f]
  BY <1>6
<1>1. /\ Outcome(m, found, starves).info = info
      /\ Outcome(m, found, starves).ret = IF info = Null THEN -1 ELSE 0
  BY <1>0
<1>2. CASE ~ found
  <2>1. info = Null  BY <1>2, EmptyIsRefused DEF Result
  <2> QED  BY <1>1, <1>2, <2>1
<1>3. CASE found /\ m = "demo"
  <2>1. info = [id |-> 1, count |-> ScDemo.cnt, memory |-> ScDemo.mem]
    BY <1>3, DemoAnswer DEF Result
  <2>2. info # Null
    <3>1. "id" \in DOMAIN [id |-> 1, count |-> ScDemo.cnt, memory |-> ScDemo.mem]  OBVIOUS
    <3> QED  BY <2>1, <3>1, HasId
  <2> HIDE DEF info
  <2> QED  BY <1>1, <1>3, <2>1, <2>2
<1>4. CASE found /\ m = "vmon"
  <2>1. info # Null /\ info["id"] = 1 /\ info["count"] = ScVmon.num
    BY <1>4, VmonAnswer DEF Result
  <2> HIDE DEF info
  <2> QED  BY <1>1, <1>4, <2>1
<1>5. CASE found /\ m = "node_state"
  <2>1. /\ info # Null /\ info["id"] = 1
        /\ \A f \in DOMAIN ScNodeState : info[f] = ScNodeState[f]
    BY <1>5, NodeStateAnswer DEF Result
  <2> HIDE DEF info
  <2> QED  BY <1>1, <1>5, <2>1
<1> QED  BY <1>2, <1>3, <1>4, <1>5 DEF Task

\* A caller is told once, of a call that was made, that it succeeded exactly
\* when the server had the method and the memory and the stub had the memory to
\* unpack the result, and what the handler filled in (process_request,
\* process_response, the X_reply_cb).
THEOREM AnswersAreHandlers == Spec => []AnswerIsHandlers
<1>1. Inv => AnswerIsHandlers
  <2> SUFFICES ASSUME Inv, NEW m \in Method, told[m] # <<>>
               PROVE  /\ Len(told[m]) = 1 /\ ret[m] = 0
                      /\ (told[m][1].ret = 0) <=> (m \in served \ starved)
                      /\ told[m][1].ret = 0 =>
                           LET info == told[m][1].info
                           IN  CASE m = "demo" -> info = [id |-> 1, count |-> ScDemo.cnt,
                                                          memory |-> ScDemo.mem]
                                 [] m = "vmon" -> info["id"] = 1 /\ info["count"] = ScVmon.num
                                 [] m = "node_state" ->
                                      info["id"] = 1 /\ \A f \in DOMAIN ScNodeState :
                                                          info[f] = ScNodeState[f]
    BY DEF AnswerIsHandlers
  <2>1. /\ told[m] = <<Outcome(m, m \in served, m \in starved)>>
        /\ ret[m] = 0 /\ (m \in served => m \in Task)
    BY DEF Inv, CallPart, CallInv
  <2>2. PICK o : o = Outcome(m, m \in served, m \in starved)  OBVIOUS
  <2>3. Len(told[m]) = 1 /\ told[m][1] = o  BY <2>1, <2>2
  <2>4. (m \in served) \in BOOLEAN /\ (m \in starved) \in BOOLEAN  OBVIOUS
  <2>5. /\ (o.ret = 0) <=> (m \in served /\ ~ (m \in starved))
        /\ o.ret = 0 /\ m = "demo" =>
             o.info = [id |-> 1, count |-> ScDemo.cnt, memory |-> ScDemo.mem]
        /\ o.ret = 0 /\ m = "vmon" => o.info["id"] = 1 /\ o.info["count"] = ScVmon.num
        /\ o.ret = 0 /\ m = "node_state" =>
             o.info["id"] = 1 /\ \A f \in DOMAIN ScNodeState : o.info[f] = ScNodeState[f]
    BY <2>1, <2>2, <2>4, OutcomeOfServed
  <2> QED  BY <2>1, <2>3, <2>5 DEF Task
<1> QED  BY <1>1, CallsInvariant, PTL

\* An outstanding call has exactly one message under way, its request or its
\* response, unless the connection is lost or memory was wanting for one of them
\* (pbrpc_clnt_call, process_request, process_response); other calls have none.
THEOREM CallsAreAccounted == Spec => []CallAccounted
<1>1. Inv => CallAccounted
  <2> SUFFICES ASSUME Inv, NEW m \in Method
               PROVE  IF node[m] = "listed" /\ m \notin dropped /\ conn # "closed"
                      THEN \E c \in Copies(m) : Copies(m) = {c}
                      ELSE Copies(m) = {}
    BY DEF CallAccounted
  <2>1. CASE node[m] = "listed" /\ m \notin dropped /\ conn # "closed"
    <3>1. OnTheWay(m)  BY <2>1 DEF Inv, CallPart, ListedInv
    <3>2. CASE \E i \in 1 .. Len(requests) : requests[i].id = m
      <4>1. PICK i \in 1 .. Len(requests) : requests[i].id = m  BY <3>2
      <4>2. {j \in 1 .. Len(requests) : requests[j].id = m} = {i}
        BY <4>1 DEF Inv, CallPart, FlightInv
      <4>3. {j \in 1 .. Len(responses) : responses[j].id = m} = {}
        BY <4>1 DEF Inv, CallPart, FlightInv
      <4>4. Copies(m) = {<<"request", i>>}  BY <4>2, <4>3 DEF Copies
      <4> QED  BY <2>1, <4>4
    <3>3. CASE \E i \in 1 .. Len(responses) : responses[i].id = m
      <4>1. PICK i \in 1 .. Len(responses) : responses[i].id = m  BY <3>3
      <4>2. {j \in 1 .. Len(responses) : responses[j].id = m} = {i}
        BY <4>1 DEF Inv, CallPart, FlightInv
      <4>3. {j \in 1 .. Len(requests) : requests[j].id = m} = {}
        BY <4>1 DEF Inv, CallPart, FlightInv
      <4>4. Copies(m) = {<<"response", i>>}  BY <4>2, <4>3 DEF Copies
      <4> QED  BY <2>1, <4>4
    <3> QED  BY <3>1, <3>2, <3>3 DEF OnTheWay
  <2>2. CASE ~ (node[m] = "listed" /\ m \notin dropped /\ conn # "closed")
    <3>1. /\ \A i \in 1 .. Len(requests) : requests[i].id # m
          /\ \A i \in 1 .. Len(responses) : responses[i].id # m
      <4>1. CASE conn = "closed"
        <5>1. requests = <<>> /\ responses = <<>>  BY <4>1 DEF Inv, CallPart, ListedInv
        <5> QED  BY <5>1
      <4>2. CASE node[m] # "listed" \/ m \in dropped
        BY <4>2 DEF Inv, CallPart, FlightInv
      <4> QED  BY <2>2, <4>1, <4>2
    <3>2. /\ {j \in 1 .. Len(requests) : requests[j].id = m} = {}
          /\ {j \in 1 .. Len(responses) : responses[j].id = m} = {}
      BY <3>1
    <3>3. Copies(m) = {}  BY <3>2 DEF Copies
    <3> QED  BY <2>2, <3>3
  <2> QED  BY <2>1, <2>2
<1> QED  BY <1>1, CallsInvariant, PTL
=============================================================================
