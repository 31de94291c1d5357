-------------------------------- MODULE Wire --------------------------------
(***************************************************************************)
(* The messages of the four methods (rpc/service/pbc-*.proto, compiled to  *)
(* the .pb-c.c files), their packing, and the conversions between them and *)
(* the structures of handlers (service-*.c) and callers (clnt_*.c).        *)
(*                                                                         *)
(* A structure is a function of its fields; a packed message is the        *)
(* function of the fields that are in it.  Unpacking refuses a message     *)
(* that lacks a required field.                                            *)
(***************************************************************************)
EXTENDS Integers, Functions

CONSTANT UIntMod        \* 2^32: memory is handed on as an unsigned int

ASSUME WireAssumption == UIntMod \in Nat \ {0, 1}

Unset == -1             \* an optional field whose has_ flag is 0
Null == [none |-> 0]    \* a failed unpack; no message has this field
Empty == [f \in {} |-> 0]

Method == {"demo", "vmon", "node_state", "registry"}

-----------------------------------------------------------------------------
(* Field tables *)

DemoReq == [required |-> {"id"}, optional |-> {}]
DemoRsp == [required |-> {"id", "video_cnt", "info_mem"}, optional |-> {}]
VmonReq == [required |-> {"id"}, optional |-> {}]
VmonRsp == [required |-> {"id", "count"}, optional |-> {}]
NodeStateReq == [required |-> {"id"}, optional |-> {}]
NodeStateRsp ==
    [required |-> {"id", "index", "name", "count", "uplink", "downlink", "memory", "cpu"},
     optional |-> {}]
RegistryReq ==
    [required |-> {"sid", "name", "system", "location", "processor", "bandwidth", "memory",
                   "ip", "port"},
     optional |-> {}]
RegistryRsp == [required |-> {"sid", "name", "index"}, optional |-> {"num"}]
RpcRequest == [required |-> {"id", "method"}, optional |-> {"params"}]
RpcResponse == [required |-> {"id", "result"}, optional |-> {"error"}]

\* a structure after its __INIT
Start(table) ==
    [f \in table.required \cup table.optional |-> IF f \in table.required THEN 0 ELSE Unset]

Pack(table, struct) ==
    Restrict(struct, {f \in DOMAIN struct : f \in table.required \/ struct[f] # Unset})

Unpack(table, bytes) ==
    IF table.required \subseteq DOMAIN bytes
    THEN [f \in table.required \cup table.optional |->
            IF f \in DOMAIN bytes THEN bytes[f] ELSE Unset]
    ELSE Null

-----------------------------------------------------------------------------
(* Requests: what the caller fills in *)

DemoCall(id) == Pack(DemoReq, [Start(DemoReq) EXCEPT !["id"] = id])
VmonCall(id) == Pack(VmonReq, [Start(VmonReq) EXCEPT !["id"] = id])
NodeStateCall(id) == Pack(NodeStateReq, [Start(NodeStateReq) EXCEPT !["id"] = id])
RegistryCall(id) == Pack(RegistryReq, [Start(RegistryReq) EXCEPT !["sid"] = id])

RequestPack(m, id) ==
    CASE m = "demo" -> DemoCall(id)
      [] m = "vmon" -> VmonCall(id)
      [] m = "node_state" -> NodeStateCall(id)
      [] m = "registry" -> RegistryCall(id)

-----------------------------------------------------------------------------
(* What the handlers answer.  The figures of the node are those of         *)
(* LoadSystem and IpcShared; here they are distinct constants.             *)

ScDemo == [cnt |-> 2, mem |-> UIntMod \div 2]
ScVmon == [num |-> 3]
ScNodeState ==
    [index |-> 0, name |-> 4, count |-> 3, uplink |-> 5, downlink |-> 6, memory |-> 7, cpu |-> 8]

\* mutant: a field is not filled in
DemoExecNoCount(bytes) ==
    Pack(DemoRsp, [Start(DemoRsp) EXCEPT !["id"] = Unpack(DemoReq, bytes)["id"],
                                         !["info_mem"] = ScDemo.mem])

DemoExec(bytes) ==
    Pack(DemoRsp, [Start(DemoRsp) EXCEPT !["id"] = Unpack(DemoReq, bytes)["id"],
                                         !["video_cnt"] = ScDemo.cnt,
                                         !["info_mem"] = ScDemo.mem])

VmonExec(bytes) ==
    Pack(VmonRsp, [Start(VmonRsp) EXCEPT !["id"] = Unpack(VmonReq, bytes)["id"],
                                         !["count"] = ScVmon.num])

NodeStateExec(bytes) ==
    Pack(NodeStateRsp,
         [Start(NodeStateRsp) EXCEPT !["id"] = Unpack(NodeStateReq, bytes)["id"],
                                     !["index"] = ScNodeState.index,
                                     !["name"] = ScNodeState.name,
                                     !["count"] = ScNodeState.count,
                                     !["uplink"] = ScNodeState.uplink,
                                     !["downlink"] = ScNodeState.downlink,
                                     !["memory"] = ScNodeState.memory,
                                     !["cpu"] = ScNodeState.cpu])

Exec(m, bytes) ==
    CASE m = "demo" -> DemoExec(bytes)
      [] m = "vmon" -> VmonExec(bytes)
      [] m = "node_state" -> NodeStateExec(bytes)

-----------------------------------------------------------------------------
(* What a reply callback hands on: Null when the reply cannot be unpacked *)

DemoInfo(bytes) ==
    LET rsp == Unpack(DemoRsp, bytes)
    IN  IF rsp = Null THEN Null
        ELSE [id |-> rsp["id"], count |-> rsp["video_cnt"],
              memory |-> rsp["info_mem"] % UIntMod]

VmonInfo(bytes) == Unpack(VmonRsp, bytes)

NodeStateInfo(bytes) == Unpack(NodeStateRsp, bytes)

\* num is handed on as 0 when it is not in the message
RegistryInfo(bytes) ==
    LET rsp == Unpack(RegistryRsp, bytes)
    IN  IF rsp = Null THEN Null
        ELSE [id |-> rsp["sid"], name |-> rsp["name"], index |-> rsp["index"],
              num |-> IF rsp["num"] = Unset THEN 0 ELSE rsp["num"]]

Info(m, bytes) ==
    CASE m = "demo" -> DemoInfo(bytes)
      [] m = "vmon" -> VmonInfo(bytes)
      [] m = "node_state" -> NodeStateInfo(bytes)
      [] m = "registry" -> RegistryInfo(bytes)
=============================================================================
