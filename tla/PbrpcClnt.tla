------------------------------ MODULE PbrpcClnt ------------------------------
(***************************************************************************)
(* The RPC client of rpc/pbc/pbrpc-clnt.c.  One thread makes calls          *)
(* (pbrpc_clnt_call), the libevent thread takes the responses               *)
(* (process_response).  Both work on clnt->outstanding, a circular doubly   *)
(* linked list without a lock.  The two threads interleave freely, one store *)
(* to the list at a time.                                                   *)
(*                                                                          *)
(* A call is named by the id next_id gave it, and so is its rpc_node; the   *)
(* list head is node 0.  The server answers the requests in the order they  *)
(* were sent; it is modelled by what process_request does with a request.   *)
(***************************************************************************)
EXTENDS Integers, Sequences

CONSTANTS
    MaxCalls,  \* bound: calls made
    IdHalf,    \* 2^31: rpc_node.id is an int32_t, RpcRequest.Id a uint64
    Faults     \* what may fail: "mem" (calloc, strdup), "conn" (the socket)

ASSUME ClntAssumption == /\ MaxCalls \in Nat
                         /\ IdHalf \in Nat \ {0}
                         /\ Faults \subseteq {"mem", "conn"}

Outstanding == 0
Calls       == 1 .. MaxCalls
Nodes       == {Outstanding} \cup Calls

VARIABLES
    next, prev,  \* the links of clnt->outstanding, and of every rpc_node
    nid,         \* rpc_node.id; 0 until pbrpc_clnt_call has filled it in
    clashed,     \* history: the last call was taken out while another was put
                 \* behind it
    idgen,       \* id_gen of next_id: the call being made, or the last one
    cpc,         \* where the calling thread is
    ret,         \* what each pbrpc_clnt_call returned, 1 before that
    conn,        \* clnt->bev: "up", or "freed" by generic_event_cb
    reqs, rsps,  \* ids on their way to and from the server
    lpc,         \* where the event thread is in process_response
    rsp,         \* id of the response in hand
    call, tmp,   \* cursors of list_for_each_entry_safe
    sent,        \* calls whose request was written
    called       \* how often the callback of each call ran

listVars == <<next, prev, nid, clashed>>
callVars == <<idgen, cpc, ret, sent>>
loopVars == <<lpc, rsp, call, tmp, called>>
netVars  == <<conn, reqs, rsps>>
vars == <<listVars, callVars, loopVars, netVars>>

TypeOK ==
    /\ next \in [Nodes -> Nodes]
    /\ prev \in [Nodes -> Nodes]
    /\ nid \in [Calls -> -IdHalf .. IdHalf - 1]
    /\ clashed \in BOOLEAN
    /\ idgen \in 0 .. MaxCalls
    /\ cpc \in {"idle", "new", "tail", "head", "fill", "send"}
    /\ ret \in [Calls -> {1, 0, -1}]
    /\ conn \in {"up", "freed"}
    /\ reqs \in Seq(Calls)
    /\ rsps \in Seq(Calls)
    /\ lpc \in {"idle", "scan", "unlink", "relink", "reply"}
    /\ rsp \in Nodes
    /\ call \in Nodes
    /\ tmp \in Nodes
    /\ sent \subseteq Calls
    /\ called \in [Calls -> Nat]

\* pbrpc_clnt_new with the connection established.
Init ==
    /\ next = [n \in Nodes |-> n]
    /\ prev = [n \in Nodes |-> n]
    /\ nid = [k \in Calls |-> 0]
    /\ clashed = FALSE
    /\ idgen = 0
    /\ cpc = "idle"
    /\ ret = [k \in Calls |-> 1]
    /\ conn = "up"
    /\ reqs = <<>>
    /\ rsps = <<>>
    /\ lpc = "idle"
    /\ rsp = 0
    /\ call = Outstanding
    /\ tmp = Outstanding
    /\ sent = {}
    /\ called = [k \in Calls |-> 0]

-----------------------------------------------------------------------------
(* pbrpc_clnt_call.                                                         *)

\* strdup, next_id and calloc; without memory for the node the id is spent
\* and -1 is returned.
CallBegin ==
    /\ cpc = "idle"
    /\ idgen < MaxCalls
    /\ idgen' = idgen + 1
    /\ \/ cpc' = "new" /\ UNCHANGED ret
       \/ /\ "mem" \in Faults
          /\ ret' = [ret EXCEPT ![idgen + 1] = -1]
          /\ UNCHANGED cpc
    /\ UNCHANGED <<listVars, loopVars, netVars, sent>>

\* list_add_tail: new->next = head, new->prev = head->prev ...
LinkNew ==
    /\ cpc = "new"
    /\ next' = [next EXCEPT ![idgen] = Outstanding]
    /\ prev' = [prev EXCEPT ![idgen] = prev[Outstanding]]
    /\ clashed' = (clashed \/ (lpc = "relink" /\ next[call] = Outstanding))
    /\ cpc' = "tail"
    /\ UNCHANGED <<nid, idgen, ret, sent, loopVars, netVars>>

\* ... new->prev->next = new ...
LinkTail ==
    /\ cpc = "tail"
    /\ next' = [next EXCEPT ![prev[idgen]] = idgen]
    /\ cpc' = "head"
    /\ UNCHANGED <<prev, nid, clashed, idgen, ret, sent, loopVars, netVars>>

\* A slip: the head keeps its old prev.
LinkHeadForgotten ==
    /\ cpc = "head"
    /\ cpc' = "fill"
    /\ UNCHANGED <<listVars, idgen, ret, sent, loopVars, netVars>>

\* ... new->next->prev = new.
LinkHead ==
    /\ cpc = "head"
    /\ prev' = [prev EXCEPT ![next[idgen]] = idgen]
    /\ cpc' = "fill"
    /\ UNCHANGED <<next, nid, clashed, idgen, ret, sent, loopVars, netVars>>

\* The value an int32_t takes from a uint64_t.
ToInt32(n) == ((n + IdHalf) % (2 * IdHalf)) - IdHalf

\* entry->id = reqhdr.id, and the callback with its argument.
FillEntry ==
    /\ cpc = "fill"
    /\ nid' = [nid EXCEPT ![idgen] = ToInt32(idgen)]
    /\ cpc' = "send"
    /\ UNCHANGED <<next, prev, clashed, idgen, ret, sent, loopVars, netVars>>

\* rpc_write_request; its result is dropped and the call returns 0.
WriteRequest ==
    /\ cpc = "send"
    /\ cpc' = "idle"
    /\ ret' = [ret EXCEPT ![idgen] = 0]
    /\ \/ /\ conn = "up"
          /\ reqs' = Append(reqs, idgen)
          /\ sent' = sent \cup {idgen}
       \/ /\ conn = "freed" \/ "mem" \in Faults
          /\ UNCHANGED <<reqs, sent>>
    /\ UNCHANGED <<listVars, idgen, loopVars, conn, rsps>>

-----------------------------------------------------------------------------
(* process_response, on the event thread.                                   *)

ReadRspSkipsFirst ==
    /\ lpc = "idle"
    /\ rsps # <<>>
    /\ rsp' = rsps[1]
    /\ rsps' = Tail(rsps)
    /\ call' = next[next[Outstanding]]
    /\ tmp' = next[next[next[Outstanding]]]
    /\ lpc' = "scan"
    /\ UNCHANGED <<listVars, callVars, conn, reqs, called>>

\* rpc_read_rsp, and the start of the search: call = first, tmp = its next.
\* Without memory to unpack it the response is dropped.
ReadRsp ==
    /\ lpc = "idle"
    /\ rsps # <<>>
    /\ rsps' = Tail(rsps)
    /\ \/ /\ rsp' = rsps[1]
          /\ call' = next[Outstanding]
          /\ tmp' = next[next[Outstanding]]
          /\ lpc' = "scan"
       \/ /\ "mem" \in Faults
          /\ UNCHANGED <<rsp, call, tmp, lpc>>
    /\ UNCHANGED <<listVars, callVars, conn, reqs, called>>

\* call->id == rsp->id compares an int32_t with a uint64_t: a negative id
\* becomes a number no response carries.
Matches(k) == nid[k] >= 0 /\ nid[k] = rsp

ScanNext ==
    /\ lpc = "scan"
    /\ call # Outstanding
    /\ ~Matches(call)
    /\ call' = tmp
    /\ tmp' = next[tmp]
    /\ UNCHANGED <<listVars, callVars, netVars, lpc, rsp, called>>

ScanFound ==
    /\ lpc = "scan"
    /\ call # Outstanding
    /\ Matches(call)
    /\ lpc' = "unlink"
    /\ UNCHANGED <<listVars, callVars, netVars, rsp, call, tmp, called>>

\* "Failed to find the corresponding pending call request"
ScanFailed ==
    /\ lpc = "scan"
    /\ call = Outstanding
    /\ lpc' = "idle"
    /\ UNCHANGED <<listVars, callVars, netVars, rsp, call, tmp, called>>

\* list_del_init: call->prev->next = call->next ...
UnlinkNext ==
    /\ lpc = "unlink"
    /\ next' = [next EXCEPT ![prev[call]] = next[call]]
    /\ clashed' = (clashed \/ (cpc = "tail" /\ next[call] = Outstanding))
    /\ lpc' = "relink"
    /\ UNCHANGED <<prev, nid, callVars, netVars, rsp, call, tmp, called>>

\* ... call->next->prev = call->prev, and the node points to itself.
UnlinkPrev ==
    /\ lpc = "relink"
    /\ prev' = [prev EXCEPT ![next[call]] = prev[call], ![call] = call]
    /\ next' = [next EXCEPT ![call] = call]
    /\ lpc' = "reply"
    /\ UNCHANGED <<nid, clashed, callVars, netVars, rsp, call, tmp, called>>

\* call->replymsg(..); free(call).
ReplyMsg ==
    /\ lpc = "reply"
    /\ called' = [called EXCEPT ![call] = @ + 1]
    /\ lpc' = "idle"
    /\ UNCHANGED <<listVars, callVars, netVars, rsp, call, tmp>>

-----------------------------------------------------------------------------
\* process_request of the server: every request is answered under its id.
ServerReply ==
    /\ reqs # <<>>
    /\ rsps' = Append(rsps, reqs[1])
    /\ reqs' = Tail(reqs)
    /\ UNCHANGED <<listVars, callVars, loopVars, conn>>

\* generic_event_cb on an error or EOF frees the bufferevent; what it held is
\* lost, clnt->bev keeps pointing to it.
EventCb ==
    /\ "conn" \in Faults
    /\ conn = "up"
    /\ lpc = "idle"
    /\ conn' = "freed"
    /\ reqs' = <<>>
    /\ rsps' = <<>>
    /\ UNCHANGED <<listVars, callVars, loopVars>>

CallStep == CallBegin \/ LinkNew \/ LinkTail \/ LinkHead \/ FillEntry
            \/ WriteRequest
LoopStep == ReadRsp \/ ScanNext \/ ScanFound \/ ScanFailed \/ UnlinkNext
            \/ UnlinkPrev \/ ReplyMsg

Next == CallStep \/ LoopStep \/ ServerReply \/ EventCb

\* Both threads keep running, and the server answers.
Fairness == WF_vars(CallStep) /\ WF_vars(LoopStep) /\ WF_vars(ServerReply)

Spec == Init /\ [][Next]_vars

FairSpec == Spec /\ Fairness

-----------------------------------------------------------------------------
(* Correctness.                                                             *)

\* "callback called when the RPC call is responded to by RPC server"
\* (pbrpc_clnt_call): the search for the call of a response never comes to
\* the end of the list.
AnswerFindsCall == ~(lpc = "scan" /\ call = Outstanding)

\* However the two threads interleave: a response whose id an int32_t can hold
\* finds its call, also while a call is being put into the list and while the
\* list holds others that no response will ever find; and the callback of a call
\* runs at most once, after its own request was written and for the response
\* to it, also when ids no longer fit an int32_t.  That ends with the first
\* list_del_init of the last call that overlaps a list_add_tail behind it.
ResponseMeetsCall ==
    /\ TypeOK
    /\ ~clashed =>
         /\ ~(lpc = "scan" /\ call = Outstanding /\ rsp < IdHalf)
         /\ lpc \in {"unlink", "relink", "reply"} => call = rsp
         /\ \A k \in Calls :
              /\ called[k] <= 1
              /\ called[k] = 1 => k \in sent /\ k \notin {rsps[i] : i \in DOMAIN rsps}

\* A response that was read leads to its callback, if the id fits and nothing
\* clashes on the list.
AnsweredIsCalled ==
    \A k \in Calls :
        (lpc = "scan" /\ rsp = k /\ k < IdHalf) ~> (called[k] = 1 \/ clashed)
=============================================================================
