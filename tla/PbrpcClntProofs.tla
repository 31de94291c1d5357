--------------------------- MODULE PbrpcClntProofs ---------------------------
(* Proofs about PbrpcClnt, for any number of calls, any width of rpc_node.id, *)
(* any faults and every interleaving of the calling thread with the event     *)
(* thread, up to the first list_del_init of the last call that overlaps a     *)
(* list_add_tail behind it.  The list is described by the calls that are in   *)
(* it: since list_add_tail adds them in the order of their ids, the successor *)
(* of a node is the least call above it.  That makes the search of            *)
(* process_response a matter of order, and needs no induction over the list.  *)
EXTENDS PbrpcClnt, TLAPS

-----------------------------------------------------------------------------
(* The outstanding list                                                     *)

\* next links the head and the calls of M in the order of their ids.
InOrder(nx, M) ==
    \A a \in M \cup {0} :
      /\ nx[a] \in M \cup {0}
      /\ nx[a] # 0 => nx[a] > a
      /\ \A b \in M : b > a => nx[a] # 0 /\ nx[a] <= b

\* InOrder looks at the nodes of the list only.
LEMMA OrderInside ==
    ASSUME NEW nx, NEW ny, NEW M \in SUBSET Calls, InOrder(nx, M),
           \A a \in M \cup {0} : ny[a] = nx[a]
    PROVE  InOrder(ny, M)
BY DEF InOrder

\* A call whose id is above all the others comes behind the last.
LEMMA OrderAdd ==
    ASSUME NEW nx \in [Nodes -> Nodes], NEW M \in SUBSET Calls, InOrder(nx, M),
           NEW k \in Calls, \A b \in M : b < k, nx[k] = 0,
           NEW l \in M \cup {0}, nx[l] = 0
    PROVE  InOrder([nx EXCEPT ![l] = k], M \cup {k})
<1> DEFINE ny == [nx EXCEPT ![l] = k]
<1>0. /\ k \in Nat /\ k > 0 /\ k \in Nodes /\ 0 \in Nodes /\ M \subseteq Nodes
      /\ \A b \in M : b \in Nat /\ b > 0
  BY ClntAssumption DEF Calls, Nodes, Outstanding
<1>1. l \in Nat /\ l < k /\ l \in Nodes  BY <1>0
<1>2. ASSUME NEW b \in M PROVE b <= l
  <2>1. b > l => nx[l] # 0  BY DEF InOrder
  <2>2. b \in Nat /\ ~(b > l)  BY <1>0, <2>1
  <2> QED  BY <1>1, <2>2
<1>3. /\ ny[l] = k /\ ny[k] = 0 /\ \A a \in M \cup {0} : a # l => ny[a] = nx[a]
  BY <1>0, <1>1
<1> HIDE DEF ny
<1>5. ASSUME NEW a \in (M \cup {k}) \cup {0}
      PROVE  /\ ny[a] \in (M \cup {k}) \cup {0}
             /\ ny[a] # 0 => ny[a] > a
             /\ \A b \in M \cup {k} : b > a => ny[a] # 0 /\ ny[a] <= b
  <2>1. CASE a = l  BY <1>0, <1>1, <1>2, <1>3, <2>1
  <2>2. CASE a = k  BY <1>0, <1>3, <2>2
  <2>3. CASE a # l /\ a # k
    <3>1. a \in M \cup {0} /\ ny[a] = nx[a]  BY <1>3, <2>3
    <3>2. l \in M /\ l > a  BY <1>0, <1>1, <1>2, <2>3, <3>1
    <3>3. nx[a] # 0 /\ nx[a] <= l /\ nx[a] \in M /\ nx[a] > a  BY <3>1, <3>2 DEF InOrder
    <3>4. \A b \in M : b > a => nx[a] <= b  BY <3>1 DEF InOrder
    <3>5. nx[a] <= k
      <4>1. nx[a] \in Nat  BY <1>0, <3>3
      <4> QED  BY <1>0, <1>1, <3>3, <4>1
    <3> QED  BY <3>1, <3>3, <3>4, <3>5
  <2> QED  BY <2>1, <2>2, <2>3
<1> QED  BY <1>5 DEF InOrder, ny

\* The node before a call takes over its successor.
LEMMA OrderTake ==
    ASSUME NEW nx \in [Nodes -> Nodes], NEW M \in SUBSET Calls, InOrder(nx, M),
           NEW k \in M, NEW p \in M \cup {0}, nx[p] = k
    PROVE  /\ p # k /\ nx[k] # k
           /\ InOrder([nx EXCEPT ![p] = nx[k]], M \ {k})
<1> DEFINE n  == nx[k]
           ny == [nx EXCEPT ![p] = n]
           D  == M \ {k}
<1>0. /\ k \in Nat /\ k > 0 /\ k \in Nodes /\ 0 \in Nodes /\ M \subseteq Nodes
      /\ \A b \in M : b \in Nat /\ b > 0
  BY ClntAssumption DEF Calls, Nodes, Outstanding
<1>1. /\ n \in M \cup {0} /\ (n # 0 => n > k)
      /\ \A b \in M : b > k => n # 0 /\ n <= b
  BY DEF InOrder
<1>2. k > p /\ p \in Nat
  <2>1. nx[p] # 0 => nx[p] > p  BY DEF InOrder
  <2> QED  BY <1>0, <2>1
<1>3. p # k /\ n # k /\ p \in D \cup {0} /\ n \in D \cup {0}  BY <1>0, <1>1, <1>2
<1>4. ny[p] = n /\ \A a \in D \cup {0} : a # p => ny[a] = nx[a]  BY <1>0, <1>3
<1> HIDE DEF ny, n
<1>6. ASSUME NEW a \in D \cup {0}
      PROVE  /\ ny[a] \in D \cup {0}
             /\ ny[a] # 0 => ny[a] > a
             /\ \A b \in D : b > a => ny[a] # 0 /\ ny[a] <= b
  <2>1. CASE a = p
    <3>1. \A b \in D : b > a => b >= k /\ b # k
      BY <1>0, <2>1 DEF InOrder
    <3>2. \A b \in D : b > a => b > k  BY <1>0, <3>1
    <3> QED  BY <1>0, <1>1, <1>2, <1>3, <1>4, <2>1, <3>2
  <2>2. CASE a # p
    <3>1. ny[a] = nx[a]  BY <1>4, <2>2
    <3>2. nx[a] # k
      <4>1. SUFFICES ASSUME nx[a] = k PROVE FALSE  OBVIOUS
      <4>2. a < k  BY <1>0, <4>1 DEF InOrder
      <4>3. ~ (p > a)
        <5>1. ASSUME p > a PROVE FALSE
          <6>1. p \in M  BY <1>0, <5>1
          <6>2. nx[a] <= p  BY <5>1, <6>1 DEF InOrder
          <6> QED  BY <1>0, <1>2, <4>1, <6>2
        <5> QED  BY <5>1
      <4>4. ~ (a > p)
        <5>1. ASSUME a > p PROVE FALSE
          <6>1. a \in M  BY <1>0, <1>2, <5>1
          <6>2. nx[p] <= a  BY <5>1, <6>1 DEF InOrder
          <6> QED  BY <1>0, <4>2, <6>2
        <5> QED  BY <5>1
      <4> QED  BY <1>0, <1>2, <2>2, <4>3, <4>4
    <3>3. nx[a] \in M \cup {0} /\ (nx[a] # 0 => nx[a] > a)  BY DEF InOrder
    <3>4. \A b \in D : b > a => nx[a] # 0 /\ nx[a] <= b  BY DEF InOrder
    <3> QED  BY <3>1, <3>2, <3>3, <3>4
  <2> QED  BY <2>1, <2>2
<1> QED  BY <1>3, <1>6 DEF InOrder, ny, n

-----------------------------------------------------------------------------
(* The ids on their way                                                     *)

Ids(s)      == {s[i] : i \in DOMAIN s}
Distinct(s) == \A i, j \in DOMAIN s : s[i] = s[j] => i = j

\* What taking the first id leaves.
LEMMA FirstTaken ==
    ASSUME NEW s \in Seq(Calls), s # <<>>, Distinct(s)
    PROVE  /\ s[1] \in Ids(s) /\ s[1] \in Calls
           /\ Tail(s) \in Seq(Calls) /\ Distinct(Tail(s))
           /\ Ids(Tail(s)) = Ids(s) \ {s[1]}
<1> DEFINE t == Tail(s)
<1>1. /\ Len(s) \in Nat /\ DOMAIN s = 1 .. Len(s) /\ 1 \in 1 .. Len(s) /\ s[1] \in Calls
      /\ t \in Seq(Calls) /\ Len(t) = Len(s) - 1 /\ DOMAIN t = 1 .. Len(t)
      /\ \A i \in 1 .. Len(t) : i + 1 \in 1 .. Len(s) /\ t[i] = s[i + 1]
  OBVIOUS
<1> HIDE DEF t
<1>2. Distinct(t)
  <2> SUFFICES ASSUME NEW i \in 1 .. Len(t), NEW j \in 1 .. Len(t), t[i] = t[j] PROVE i = j
    BY <1>1 DEF Distinct
  <2>1. i + 1 \in DOMAIN s /\ j + 1 \in DOMAIN s /\ s[i + 1] = s[j + 1]  BY <1>1
  <2>2. i + 1 = j + 1  BY <2>1 DEF Distinct
  <2> QED  BY <2>2
<1>3. ASSUME NEW x \in Ids(t) PROVE x \in Ids(s) \ {s[1]}
  <2>1. PICK i \in 1 .. Len(t) : x = t[i]  BY <1>1 DEF Ids
  <2>2. i + 1 \in DOMAIN s /\ x = s[i + 1] /\ i + 1 # 1  BY <1>1, <2>1
  <2>3. x # s[1]  BY <1>1, <2>2 DEF Distinct
  <2> QED  BY <2>2, <2>3 DEF Ids
<1>4. ASSUME NEW x \in Ids(s) \ {s[1]} PROVE x \in Ids(t)
  <2>1. PICK i \in 1 .. Len(s) : x = s[i] /\ i # 1  BY <1>1 DEF Ids
  <2>2. i - 1 \in 1 .. Len(t) /\ (i - 1) + 1 = i  BY <1>1, <2>1
  <2>3. t[i - 1] = x  BY <1>1, <2>1, <2>2
  <2> QED  BY <1>1, <2>2, <2>3 DEF Ids
<1> QED  BY <1>1, <1>2, <1>3, <1>4 DEF Ids, t

\* What adding an id behind the others gives.
LEMMA LastAdded ==
    ASSUME NEW s \in Seq(Calls), NEW k \in Calls, k \notin Ids(s), Distinct(s)
    PROVE  /\ Append(s, k) \in Seq(Calls) /\ Distinct(Append(s, k))
           /\ Ids(Append(s, k)) = Ids(s) \cup {k}
<1> DEFINE t == Append(s, k)
<1>1. /\ Len(s) \in Nat /\ DOMAIN s = 1 .. Len(s)
      /\ t \in Seq(Calls) /\ Len(t) = Len(s) + 1 /\ DOMAIN t = 1 .. Len(t)
      /\ t[Len(s) + 1] = k /\ \A i \in 1 .. Len(s) : t[i] = s[i]
  OBVIOUS
<1> HIDE DEF t
<1>2. \A i \in DOMAIN t : i \in DOMAIN s \/ i = Len(s) + 1  BY <1>1
<1>3. DOMAIN s \subseteq DOMAIN t /\ Len(s) + 1 \in DOMAIN t  BY <1>1
<1>4. Ids(t) = Ids(s) \cup {k}  BY <1>1, <1>2, <1>3 DEF Ids
<1>5. ASSUME NEW i \in DOMAIN t, NEW j \in DOMAIN t, t[i] = t[j] PROVE i = j
  <2>1. CASE i \in DOMAIN s /\ j \in DOMAIN s  BY <1>1, <1>5, <2>1 DEF Distinct
  <2>2. CASE i \in DOMAIN s /\ j = Len(s) + 1  BY <1>1, <1>5, <2>2 DEF Ids
  <2>3. CASE i = Len(s) + 1 /\ j \in DOMAIN s  BY <1>1, <1>5, <2>3 DEF Ids
  <2> QED  BY <1>2, <2>1, <2>2, <2>3
<1>6. Distinct(t)  BY <1>5 DEF Distinct
<1> QED  BY <1>1, <1>4, <1>6 DEF t

-----------------------------------------------------------------------------
(* The inductive invariant                                                  *)

\* The calls that next reaches in clnt->outstanding: added, and not answered.
Linked ==
    {k \in Calls : /\ called[k] = 0
                   /\ ret[k] = 0 \/ (k = idgen /\ cpc \in {"head", "fill", "send"})
                   /\ ~(k = call /\ lpc \in {"relink", "reply"})}

\* A call that is being made has the id the generator stands at, higher ids
\* were not given out, and a node that was filled in holds its id as an
\* int32_t.  This holds whatever becomes of the list.
CallInv ==
    /\ cpc # "idle" => idgen > 0 /\ ret[idgen] = 1
    /\ \A k \in Calls : k > idgen => ret[k] = 1
    /\ \A k \in Calls : nid[k] \in {0, ToInt32(k)}
    /\ \A k \in Calls : ret[k] = 0 => nid[k] = ToInt32(k)
    /\ cpc = "send" => nid[idgen] = ToInt32(idgen)
    /\ \A k \in Calls : k \in sent => ret[k] = 0

\* Every id is in one place at most: with the server, on its way back or in
\* hand; and its call was sent and not answered.
FlowInv ==
    /\ \A k \in Calls : called[k] # 0 => called[k] = 1 /\ k \in sent
    /\ Distinct(reqs) /\ Distinct(rsps) /\ Ids(reqs) \cap Ids(rsps) = {}
    /\ \A k \in Ids(reqs) \cup Ids(rsps) : k \in sent /\ called[k] = 0
    /\ lpc # "idle" => /\ rsp \in sent /\ called[rsp] = 0
                       /\ rsp \notin Ids(reqs) \cup Ids(rsps)

\* The nodes whose prev a store that is still to come will set.
Pending(a) == (a = 0 /\ cpc = "head") \/ (lpc = "relink" /\ a = next[call])

\* The list between any two stores.  The chain of next is always whole; prev
\* runs behind it; a call that is taken out is the last one only when no call
\* is about to be put behind it.
ListInv ==
    /\ InOrder(next, Linked)
    /\ \A a \in Linked \cup {0} :
         Pending(a) \/ (prev[a] \in Linked \cup {0} /\ next[prev[a]] = a)
    /\ cpc = "tail" => next[idgen] = 0 /\ prev[idgen] = prev[0]
    /\ lpc = "relink" => /\ next[call] \in Linked \cup {0}
                         /\ prev[call] \in Linked \cup {0}
                         /\ next[prev[call]] = next[call]
                         /\ next[call] = 0 => cpc # "tail"

\* The search stands at a call of the list, and not beyond the call of a
\* response whose id fits an int32_t; neither does the cursor ahead of it, which
\* was read before and may miss a call that was added since.
ScanInv ==
    /\ lpc = "scan" => /\ call \in Linked \cup {0} /\ tmp \in Linked \cup {0}
                       /\ rsp < IdHalf => /\ call # 0 /\ call <= rsp
                                          /\ call < rsp => tmp # 0 /\ tmp <= rsp
    /\ lpc \in {"unlink", "relink", "reply"} => call = rsp

Sorted == FlowInv /\ ListInv /\ ScanInv

Inv == TypeOK /\ CallInv /\ (clashed \/ Sorted)

-----------------------------------------------------------------------------
(* Facts the steps share                                                    *)

\* An id as an int32_t; an id below 2^31 stays what it is.
LEMMA IdAsInt32 ==
    ASSUME NEW k \in Nat
    PROVE  ToInt32(k) \in -IdHalf .. IdHalf - 1 /\ (k < IdHalf => ToInt32(k) = k)
<1> DEFINE m == 2 * IdHalf
<1>1. IdHalf \in Nat /\ m \in Nat /\ m > 0  BY ClntAssumption
<1>2. k + IdHalf \in Nat  BY <1>1
<1> HIDE DEF m
<1>3. (k + IdHalf) % m \in 0 .. m - 1  BY <1>1, <1>2
<1>4. k + IdHalf < m => (k + IdHalf) % m = k + IdHalf  BY <1>1, <1>2
<1>5. m = IdHalf + IdHalf  BY <1>1 DEF m
<1>6. ToInt32(k) = ((k + IdHalf) % m) - IdHalf  BY DEF ToInt32, m
<1> QED  BY <1>1, <1>3, <1>4, <1>5, <1>6

\* Calls are positive numbers, the head is node 0.
LEMMA NodeNumbers ==
    /\ \A k \in Calls : k \in Nat /\ k > 0 /\ k \in Nodes
    /\ 0 \in Nodes /\ 0 \notin Calls /\ Outstanding = 0
    /\ \A n \in Nodes : n \in Nat /\ (n # 0 => n \in Calls)
BY ClntAssumption DEF Calls, Nodes, Outstanding

\* A step that changes neither the calls nor what is under way.
LEMMA FlowKept ==
    ASSUME FlowInv, UNCHANGED <<called, sent, reqs, rsps, rsp>>,
           lpc' # "idle" => lpc # "idle"
    PROVE  FlowInv'
BY DEF FlowInv, Ids, Distinct

\* A step that changes no link and no cursor, and leaves the threads where the
\* list is concerned.
LEMMA ListKept ==
    ASSUME ListInv, UNCHANGED <<next, prev, call>>, Linked' = Linked,
           cpc' = "head" <=> cpc = "head", lpc' = "relink" <=> lpc = "relink",
           cpc' = "tail" => cpc = "tail" /\ idgen' = idgen
    PROVE  ListInv'
BY DEF ListInv, InOrder, Pending

\* Who is where: the call being made is not one a response is searched for, and
\* its id is above those in the list.
LEMMA Where ==
    ASSUME TypeOK, CallInv, Sorted
    PROVE  /\ Linked \in SUBSET Calls
           /\ cpc # "idle" => idgen \in Calls /\ idgen \notin sent
           /\ lpc # "idle" => rsp \in Calls /\ rsp \in sent /\ ret[rsp] = 0
                              /\ called[rsp] = 0 /\ (cpc # "idle" => rsp # idgen)
           /\ lpc \in {"scan", "unlink"} => rsp \in Linked
           /\ lpc \in {"relink", "reply"} => call \notin Linked
           /\ \A b \in Linked : b <= idgen /\ b # 0
           /\ cpc \in {"new", "tail"} =>
                idgen \notin Linked /\ \A b \in Linked : b < idgen
<1>1. Linked \in SUBSET Calls  BY DEF Linked
<1>2. idgen \in Nat /\ (cpc # "idle" => idgen \in Calls /\ ret[idgen] = 1)
  BY ClntAssumption DEF TypeOK, CallInv, Calls
<1>3. cpc # "idle" => idgen \notin sent  BY <1>2 DEF CallInv
<1>4. lpc # "idle" => rsp \in Calls /\ rsp \in sent /\ ret[rsp] = 0
                      /\ called[rsp] = 0 /\ (cpc # "idle" => rsp # idgen)
  BY <1>3 DEF Sorted, FlowInv, TypeOK, CallInv
<1>5. lpc \in {"scan", "unlink"} => rsp \in Linked  BY <1>4 DEF Linked
<1>6. lpc \in {"relink", "reply"} => call \notin Linked  BY DEF Linked
<1>7. ASSUME NEW b \in Linked PROVE b <= idgen /\ b # 0
  <2>1. b \in Calls /\ b \in Nat /\ b # 0  BY <1>7, NodeNumbers DEF Linked
  <2>2. ret[b] = 0 \/ b = idgen  BY DEF Linked
  <2>3. ~(b > idgen) \/ b = idgen  BY <2>1, <2>2 DEF CallInv
  <2> QED  BY <1>2, <2>1, <2>3
<1>8. cpc \in {"new", "tail"} => idgen \notin Linked  BY <1>2 DEF Linked
<1>9. \A b \in Linked : b \in Nat  BY <1>1, NodeNumbers
<1> QED  BY <1>1, <1>2, <1>3, <1>4, <1>5, <1>6, <1>7, <1>8, <1>9

\* Types and ids do not depend on the list.
LEMMA TypeStep ==
    ASSUME TypeOK, CallInv, [Next]_vars
    PROVE  TypeOK' /\ CallInv'
<1>0. /\ idgen \in Nat /\ (cpc # "idle" => idgen \in Calls /\ ret[idgen] = 1)
      /\ \A a \in Nodes : next[a] \in Nodes /\ prev[a] \in Nodes
      /\ 0 \in Nodes /\ Calls \subseteq Nodes /\ idgen \in Nodes
  BY NodeNumbers, ClntAssumption DEF TypeOK, CallInv, Calls, Nodes
<1>1. CASE CallBegin
  <2> DEFINE k == idgen + 1
  <2>1. /\ idgen' = k /\ cpc' \in {"idle", "new"}
        /\ UNCHANGED <<listVars, loopVars, netVars, sent>>
    BY <1>1 DEF CallBegin
  <2>2. k \in Calls /\ k > idgen /\ k > 0 /\ k \in 0 .. MaxCalls
    BY <1>0, <1>1, ClntAssumption DEF CallBegin, Calls
  <2>3. \/ ret' = ret
        \/ cpc' = "idle" /\ ret' = [ret EXCEPT ![k] = -1]
    BY <1>1 DEF CallBegin
  <2> HIDE DEF k
  <2>4. ret[k] = 1 /\ ret \in [Calls -> {1, 0, -1}]  BY <2>2 DEF CallInv, TypeOK
  <2>5. /\ ret' \in [Calls -> {1, 0, -1}] /\ \A j \in Calls : j # k => ret'[j] = ret[j]
        /\ \A j \in Calls : ret'[j] = 0 <=> ret[j] = 0
        /\ cpc' # "idle" => ret'[k] = 1
    BY <2>2, <2>3, <2>4
  <2>6. ASSUME NEW j \in Calls, j > idgen' PROVE ret'[j] = 1
    <3>1. j > idgen /\ j # k  BY <1>0, <2>1, <2>2, <2>6, NodeNumbers
    <3> QED  BY <2>5, <3>1 DEF CallInv
  <2>7. TypeOK'  BY <2>1, <2>2, <2>5 DEF TypeOK, listVars, loopVars, netVars
  <2>8. CallInv'
    BY <2>1, <2>2, <2>5, <2>6 DEF CallInv, ToInt32, listVars
  <2> QED  BY <2>7, <2>8
<1>2. CASE LinkNew
  <2>1. /\ next' \in [Nodes -> Nodes] /\ prev' \in [Nodes -> Nodes]
        /\ clashed' \in BOOLEAN /\ cpc = "new" /\ cpc' = "tail"
        /\ UNCHANGED <<nid, idgen, ret, sent, loopVars, netVars>>
    BY <1>0, <1>2, NodeNumbers DEF LinkNew, TypeOK
  <2>2. TypeOK'  BY <2>1 DEF TypeOK, loopVars, netVars
  <2>3. CallInv'  BY <2>1 DEF CallInv, ToInt32
  <2> QED  BY <2>2, <2>3
<1>3. CASE LinkTail
  <2>1. /\ next' \in [Nodes -> Nodes] /\ cpc = "tail" /\ cpc' = "head"
        /\ UNCHANGED <<prev, nid, clashed, idgen, ret, sent, loopVars, netVars>>
    BY <1>0, <1>3 DEF LinkTail, TypeOK
  <2>2. TypeOK'  BY <2>1 DEF TypeOK, loopVars, netVars
  <2>3. CallInv'  BY <2>1 DEF CallInv, ToInt32
  <2> QED  BY <2>2, <2>3
<1>4. CASE LinkHead
  <2>1. /\ prev' \in [Nodes -> Nodes] /\ cpc = "head" /\ cpc' = "fill"
        /\ UNCHANGED <<next, nid, clashed, idgen, ret, sent, loopVars, netVars>>
    BY <1>0, <1>4 DEF LinkHead, TypeOK
  <2>2. TypeOK'  BY <2>1 DEF TypeOK, loopVars, netVars
  <2>3. CallInv'  BY <2>1 DEF CallInv, ToInt32
  <2> QED  BY <2>2, <2>3
<1>5. CASE FillEntry
  <2>1. /\ nid' = [nid EXCEPT ![idgen] = ToInt32(idgen)] /\ cpc = "fill" /\ cpc' = "send"
        /\ UNCHANGED <<next, prev, clashed, idgen, ret, sent, loopVars, netVars>>
    BY <1>5 DEF FillEntry
  <2>2. ToInt32(idgen) \in -IdHalf .. IdHalf - 1  BY <1>0, IdAsInt32
  <2>3. /\ nid' \in [Calls -> -IdHalf .. IdHalf - 1] /\ nid'[idgen] = ToInt32(idgen)
        /\ \A j \in Calls : j # idgen => nid'[j] = nid[j]
    BY <1>0, <2>1, <2>2 DEF TypeOK
  <2>4. TypeOK'  BY <2>1, <2>3 DEF TypeOK, loopVars, netVars
  <2>5. \A j \in Calls : /\ nid'[j] \in {0, ToInt32(j)}
                         /\ ret[j] = 0 => nid'[j] = ToInt32(j)
    BY <2>3 DEF CallInv
  <2>6. CallInv'  BY <1>0, <2>1, <2>3, <2>5 DEF CallInv, ToInt32
  <2> QED  BY <2>4, <2>6
<1>6. CASE WriteRequest
  <2>1. /\ cpc = "send" /\ cpc' = "idle" /\ ret' = [ret EXCEPT ![idgen] = 0]
        /\ reqs' \in {reqs, Append(reqs, idgen)} /\ sent' \in {sent, sent \cup {idgen}}
        /\ UNCHANGED <<listVars, idgen, loopVars, conn, rsps>>
    BY <1>6 DEF WriteRequest
  <2>2. idgen \in Calls  BY <1>0, <2>1
  <2>3. /\ ret' \in [Calls -> {1, 0, -1}] /\ ret'[idgen] = 0
        /\ \A j \in Calls : j # idgen => ret'[j] = ret[j]
    BY <2>1, <2>2 DEF TypeOK
  <2>4. reqs' \in Seq(Calls) /\ sent' \subseteq Calls
    <3>1. reqs \in Seq(Calls) /\ sent \subseteq Calls  BY DEF TypeOK
    <3>2. Append(reqs, idgen) \in Seq(Calls)  BY <2>2, <3>1
    <3> QED  BY <2>1, <2>2, <3>1, <3>2
  <2>5. TypeOK'  BY <2>1, <2>3, <2>4 DEF TypeOK, listVars, loopVars
  <2>6. CallInv'
    <3>1. \A j \in Calls : j > idgen => j # idgen  BY <1>0, NodeNumbers
    <3>2. \A j \in Calls : j > idgen' => ret'[j] = 1  BY <2>1, <2>3, <3>1 DEF CallInv
    <3>3. \A j \in Calls : ret'[j] = 0 => nid'[j] = ToInt32(j)
      BY <2>1, <2>3 DEF CallInv, listVars
    <3>4. \A j \in Calls : j \in sent' => ret'[j] = 0  BY <2>1, <2>3 DEF CallInv
    <3>5. \A j \in Calls : nid'[j] \in {0, ToInt32(j)}  BY <2>1 DEF CallInv, listVars
    <3> QED  BY <2>1, <3>2, <3>3, <3>4, <3>5 DEF CallInv, ToInt32
  <2> QED  BY <2>5, <2>6
<1>7. CASE ReadRsp
  <2>1. /\ rsps # <<>> /\ rsps' = Tail(rsps)
        /\ UNCHANGED <<listVars, callVars, conn, reqs, called>>
        /\ rsp' \in {rsp, rsps[1]} /\ lpc' \in {"idle", "scan"}
        /\ call' \in Nodes /\ tmp' \in Nodes
    BY <1>0, <1>7 DEF ReadRsp, TypeOK, Outstanding
  <2>2. rsps' \in Seq(Calls) /\ rsps[1] \in Calls
    <3>1. rsps \in Seq(Calls)  BY DEF TypeOK
    <3> QED  BY <2>1, <3>1
  <2>3. TypeOK'  BY <1>0, <2>1, <2>2 DEF TypeOK, listVars, callVars
  <2>4. CallInv'  BY <2>1 DEF CallInv, ToInt32, callVars, listVars
  <2> QED  BY <2>3, <2>4
<1>8. CASE ScanNext \/ ScanFound \/ ScanFailed
  <2>1. /\ UNCHANGED <<listVars, callVars, netVars, rsp, called>>
        /\ call' \in Nodes /\ tmp' \in Nodes /\ lpc' \in {"idle", "scan", "unlink"}
    BY <1>0, <1>8 DEF ScanNext, ScanFound, ScanFailed, TypeOK
  <2>2. TypeOK'  BY <2>1 DEF TypeOK, listVars, callVars, netVars
  <2>3. CallInv'  BY <2>1 DEF CallInv, ToInt32, callVars, listVars
  <2> QED  BY <2>2, <2>3
<1>9. CASE UnlinkNext \/ UnlinkPrev
  <2>1. /\ UNCHANGED <<nid, callVars, netVars, rsp, call, tmp, called>>
        /\ lpc' \in {"relink", "reply"} /\ clashed' \in BOOLEAN
    BY <1>9 DEF UnlinkNext, UnlinkPrev, TypeOK
  <2>2. call \in Nodes  BY DEF TypeOK
  <2>3. next' \in [Nodes -> Nodes] /\ prev' \in [Nodes -> Nodes]
    <3>1. CASE UnlinkNext  BY <1>0, <2>2, <3>1 DEF UnlinkNext, TypeOK
    <3>2. CASE UnlinkPrev  BY <1>0, <2>2, <3>2 DEF UnlinkPrev, TypeOK
    <3> QED  BY <1>9, <3>1, <3>2
  <2>4. TypeOK'  BY <2>1, <2>3 DEF TypeOK, callVars, netVars
  <2>5. CallInv'  BY <2>1 DEF CallInv, ToInt32, callVars
  <2> QED  BY <2>4, <2>5
<1>10. CASE ReplyMsg
  <2>1. /\ lpc' = "idle" /\ called' = [called EXCEPT ![call] = @ + 1]
        /\ UNCHANGED <<listVars, callVars, netVars, rsp, call, tmp>>
    BY <1>10 DEF ReplyMsg
  <2>2. called' \in [Calls -> Nat]
    <3>1. called \in [Calls -> Nat]  BY DEF TypeOK
    <3>2. CASE call \in Calls  BY <2>1, <3>1, <3>2
    <3>3. CASE call \notin Calls  BY <2>1, <3>1, <3>3
    <3> QED  BY <3>2, <3>3
  <2>3. TypeOK'  BY <2>1, <2>2 DEF TypeOK, listVars, callVars, netVars
  <2>4. CallInv'  BY <2>1 DEF CallInv, ToInt32, callVars, listVars
  <2> QED  BY <2>3, <2>4
<1>11. CASE ServerReply \/ EventCb
  <2>1. UNCHANGED <<listVars, callVars, loopVars>> /\ conn' \in {conn, "freed"}
    BY <1>11 DEF ServerReply, EventCb
  <2>2. reqs' \in Seq(Calls) /\ rsps' \in Seq(Calls)
    <3>1. reqs \in Seq(Calls) /\ rsps \in Seq(Calls)  BY DEF TypeOK
    <3>2. CASE ServerReply
      <4>1. reqs # <<>> /\ rsps' = Append(rsps, reqs[1]) /\ reqs' = Tail(reqs)
        BY <3>2 DEF ServerReply
      <4> QED  BY <3>1, <4>1
    <3>3. CASE EventCb  BY <3>3 DEF EventCb
    <3> QED  BY <1>11, <3>2, <3>3
  <2>3. TypeOK'  BY <2>1, <2>2 DEF TypeOK, listVars, callVars, loopVars
  <2>4. CallInv'  BY <2>1 DEF CallInv, ToInt32, callVars, listVars
  <2> QED  BY <2>3, <2>4
<1>12. CASE UNCHANGED vars
  <2>1. UNCHANGED <<next, prev, nid, clashed, idgen, cpc, ret, sent, lpc, rsp, call, tmp,
                    called, conn, reqs, rsps>>
    BY <1>12 DEF vars, listVars, callVars, loopVars, netVars
  <2>2. TypeOK'  BY <2>1 DEF TypeOK
  <2>3. CallInv'  BY <2>1 DEF CallInv, ToInt32
  <2> QED  BY <2>2, <2>3
<1> QED
  BY <1>1, <1>2, <1>3, <1>4, <1>5, <1>6, <1>7, <1>8, <1>9, <1>10, <1>11, <1>12
     DEF Next, CallStep, LoopStep

-----------------------------------------------------------------------------
(* Steps of pbrpc_clnt_call                                                 *)

\* The next id, a new node that is not in the list yet, and a node that is
\* filled in or whose request is written: the links stay as they are.
LEMMA CallStays ==
    ASSUME TypeOK, CallInv, Sorted, CallBegin \/ FillEntry
    PROVE  Sorted'
<1>1. /\ UNCHANGED <<next, prev, loopVars, netVars, sent>>
      /\ cpc' \notin {"head", "tail"} /\ cpc \notin {"head", "tail"}
  BY DEF CallBegin, FillEntry, listVars
<1>2. Linked' = Linked
  <2>1. CASE CallBegin
    <3>1. /\ cpc = "idle" /\ cpc' \in {"idle", "new"} /\ UNCHANGED loopVars
          /\ idgen' = idgen + 1 /\ ret' \in {ret, [ret EXCEPT ![idgen + 1] = -1]}
      BY <2>1 DEF CallBegin
    <3>2. idgen + 1 \in Calls /\ idgen + 1 > idgen
      BY <2>1, ClntAssumption DEF CallBegin, TypeOK, Calls
    <3>3. ret[idgen + 1] = 1 /\ ret \in [Calls -> {1, 0, -1}]
      BY <3>2 DEF CallInv, TypeOK
    <3>4. \A j \in Calls : ret'[j] = 0 <=> ret[j] = 0
      BY <3>1, <3>2, <3>3
    <3> QED  BY <3>1, <3>4 DEF Linked, loopVars
  <2>2. CASE FillEntry  BY <2>2 DEF FillEntry, Linked, loopVars
  <2> QED  BY <2>1, <2>2
<1>3. FlowInv'  BY <1>1, FlowKept DEF Sorted, loopVars, netVars
<1>4. ListInv'  BY <1>1, <1>2, ListKept DEF Sorted, loopVars
<1>5. ScanInv'  BY <1>1, <1>2 DEF Sorted, ScanInv, loopVars
<1> QED  BY <1>3, <1>4, <1>5 DEF Sorted

\* The request goes out: the call stays in the list, its id is on its way.
LEMMA WriteStep ==
    ASSUME TypeOK, CallInv, Sorted, WriteRequest
    PROVE  Sorted'
<1>1. /\ cpc = "send" /\ cpc' = "idle" /\ ret' = [ret EXCEPT ![idgen] = 0]
      /\ UNCHANGED <<listVars, idgen, loopVars, conn, rsps>>
      /\ \/ reqs' = Append(reqs, idgen) /\ sent' = sent \cup {idgen}
         \/ reqs' = reqs /\ sent' = sent
  BY DEF WriteRequest
<1>2. idgen \in Calls /\ idgen \notin sent  BY <1>1, Where
<1>3. ret'[idgen] = 0 /\ \A j \in Calls : j # idgen => ret'[j] = ret[j]
  BY <1>1, <1>2 DEF TypeOK
<1>4. Linked' = Linked  BY <1>1, <1>3 DEF Linked, loopVars
<1>5. FlowInv'
  <2>1. CASE reqs' = reqs /\ sent' = sent
    BY <1>1, <2>1, FlowKept DEF Sorted, loopVars
  <2>2. CASE reqs' = Append(reqs, idgen) /\ sent' = sent \cup {idgen}
    <3>1. idgen \notin Ids(reqs) \cup Ids(rsps) /\ called[idgen] = 0
      BY <1>2 DEF Sorted, FlowInv
    <3>2. Distinct(reqs') /\ Ids(reqs') = Ids(reqs) \cup {idgen}
      BY <1>2, <2>2, <3>1, LastAdded DEF Sorted, FlowInv, TypeOK
    <3>3. lpc # "idle" => rsp # idgen  BY <1>1, Where
    <3>4. /\ Ids(reqs)' = Ids(reqs') /\ Ids(rsps)' = Ids(rsps)
          /\ Distinct(reqs)' /\ (Distinct(rsps) => Distinct(rsps)')
      BY <1>1, <3>2 DEF Ids, Distinct
    <3> QED  BY <1>1, <2>2, <3>1, <3>2, <3>3, <3>4 DEF Sorted, FlowInv, loopVars
  <2> QED  BY <1>1, <2>1, <2>2
<1>6. ListInv'  BY <1>1, <1>4, ListKept DEF Sorted, loopVars, listVars
<1>7. ScanInv'  BY <1>1, <1>4 DEF Sorted, ScanInv, loopVars
<1> QED  BY <1>5, <1>6, <1>7 DEF Sorted

\* The new node takes the last call for its prev; that call stays the last.
LEMMA LinkNewStep ==
    ASSUME TypeOK, CallInv, Sorted, ~clashed', LinkNew
    PROVE  Sorted'
<1> DEFINE k == idgen
<1>1. /\ cpc = "new" /\ cpc' = "tail"
      /\ next' = [next EXCEPT ![k] = 0] /\ prev' = [prev EXCEPT ![k] = prev[0]]
      /\ lpc = "relink" => next[call] # 0
      /\ UNCHANGED <<nid, idgen, ret, sent, loopVars, netVars>>
  BY DEF LinkNew, Outstanding
<1>2. /\ Linked \in SUBSET Calls /\ k \in Calls /\ k \notin Linked /\ k # 0
      /\ k \in Nodes /\ 0 \in Nodes
      /\ lpc = "relink" => call # k /\ call = rsp
  BY <1>1, Where, NodeNumbers DEF Sorted, ScanInv
<1>3. Linked' = Linked  BY <1>1 DEF Linked, loopVars
<1>4. /\ next'[k] = 0 /\ prev'[k] = prev[0]
      /\ \A a : a # k => (a \in Nodes => next'[a] = next[a] /\ prev'[a] = prev[a])
  BY <1>1, <1>2 DEF TypeOK
<1>5. \A a \in Linked \cup {0} : a # k /\ a \in Nodes  BY <1>2, NodeNumbers
<1>6. call \in Nodes  BY DEF TypeOK
<1>7. FlowInv'  BY <1>1, FlowKept DEF Sorted, loopVars, netVars
<1>8. InOrder(next', Linked)  BY <1>2, <1>4, <1>5, OrderInside DEF Sorted, ListInv
<1>9. ListInv'
  <2>1. lpc = "relink" => /\ next'[call] = next[call] /\ prev'[call] = prev[call]
                          /\ next'[prev[call]] = next[prev[call]]
    BY <1>2, <1>4, <1>5, <1>6 DEF Sorted, ListInv
  <2>2. ASSUME NEW a \in Linked \cup {0}
        PROVE  Pending(a)' \/ (prev'[a] \in Linked \cup {0} /\ next'[prev'[a]] = a)
    <3>1. CASE Pending(a)  BY <1>1, <2>1, <3>1 DEF Pending, loopVars
    <3>2. CASE prev[a] \in Linked \cup {0} /\ next[prev[a]] = a
      BY <1>4, <1>5, <3>2
    <3> QED  BY <3>1, <3>2 DEF Sorted, ListInv
  <2>3. prev'[0] = prev[0]  BY <1>4, <1>5
  <2> HIDE DEF Pending
  <2> QED  BY <1>1, <1>3, <1>4, <1>8, <2>1, <2>2, <2>3
              DEF Sorted, ListInv, InOrder, loopVars
<1>10. ScanInv'  BY <1>1, <1>3 DEF Sorted, ScanInv, loopVars
<1> QED  BY <1>7, <1>9, <1>10 DEF Sorted

\* The last call gets the new one for its next.
LEMMA LinkTailStep ==
    ASSUME TypeOK, CallInv, Sorted, LinkTail
    PROVE  Sorted'
<1> DEFINE k == idgen
           l == prev[k]
<1>1. /\ cpc = "tail" /\ cpc' = "head" /\ next' = [next EXCEPT ![l] = k]
      /\ UNCHANGED <<prev, nid, clashed, idgen, ret, sent, loopVars, netVars>>
  BY DEF LinkTail
<1>2. /\ Linked \in SUBSET Calls /\ k \in Calls /\ k \notin Linked /\ k # 0
      /\ k \in Nodes /\ 0 \in Nodes /\ k \notin sent
      /\ lpc = "relink" => call # k /\ call = rsp /\ call # 0 /\ call \notin Linked
      /\ \A b \in Linked : b < k
  BY <1>1, Where, NodeNumbers DEF Sorted, ScanInv
<1>3. /\ next[k] = 0 /\ l = prev[0] /\ l \in Linked \cup {0} /\ next[l] = 0
  BY <1>1 DEF Sorted, ListInv, Pending
<1>4. next'[l] = k /\ \A a \in Nodes : a # l => next'[a] = next[a]
  BY <1>1, <1>2, <1>3, NodeNumbers DEF TypeOK
<1>5. called[k] = 0 /\ ~(k = call /\ lpc \in {"relink", "reply"})
  BY <1>2, Where DEF Sorted, FlowInv, ScanInv
<1>6. Linked' = Linked \cup {k}
  BY <1>1, <1>2, <1>5 DEF Linked, loopVars
<1> HIDE DEF k, l
<1>7. InOrder(next', Linked')
  BY <1>1, <1>2, <1>3, <1>6, OrderAdd DEF Sorted, ListInv, TypeOK
<1>8. FlowInv'  BY <1>1, FlowKept DEF Sorted, loopVars, netVars
<1>9. call \in Nodes /\ (\A a \in Linked \cup {0} : a \in Nodes)
  BY <1>2, NodeNumbers DEF TypeOK
<1>10. lpc = "relink" => /\ next'[call] = next[call] /\ next[call] # 0
                         /\ next'[prev[call]] = next[call]
  <2>1. SUFFICES ASSUME lpc = "relink"
                 PROVE  /\ next'[call] = next[call] /\ next[call] # 0
                        /\ next'[prev[call]] = next[call]
    OBVIOUS
  <2>2. /\ next[call] # 0 /\ prev[call] \in Linked \cup {0}
        /\ next[prev[call]] = next[call]
    BY <1>1, <2>1 DEF Sorted, ListInv
  <2>3. prev[call] # l /\ call # l  BY <1>2, <1>3, <2>1, <2>2
  <2> QED  BY <1>4, <1>9, <2>2, <2>3
<1>11. ListInv'
  <2>1. ASSUME NEW a \in Linked \cup {k} \cup {0}
        PROVE  Pending(a)' \/ (prev[a] \in Linked \cup {k} \cup {0} /\ next'[prev[a]] = a)
    <3>1. CASE a = 0  BY <1>1, <3>1 DEF Pending
    <3>2. CASE a = k  BY <1>3, <1>4, <3>2 DEF l
    <3>3. CASE a \in Linked
      <4>1. a # 0  BY <1>2, <3>3, NodeNumbers
      <4>2. CASE Pending(a)  BY <1>1, <1>10, <4>1, <4>2 DEF Pending, loopVars
      <4>3. CASE prev[a] \in Linked \cup {0} /\ next[prev[a]] = a
        <5>1. prev[a] # l  BY <1>3, <4>1, <4>3
        <5> QED  BY <1>4, <1>9, <4>3, <5>1
      <4> QED  BY <3>3, <4>2, <4>3 DEF Sorted, ListInv
    <3> QED  BY <3>1, <3>2, <3>3
  <2>2. lpc = "relink" => /\ next'[call] \in Linked' \cup {0}
                          /\ prev[call] \in Linked' \cup {0}
                          /\ next'[prev[call]] = next'[call]
    BY <1>6, <1>10 DEF Sorted, ListInv
  <2> HIDE DEF Pending
  <2> QED  BY <1>1, <1>6, <1>7, <2>1, <2>2 DEF ListInv, InOrder, loopVars
<1>12. ScanInv'  BY <1>1, <1>6 DEF Sorted, ScanInv, loopVars
<1> QED  BY <1>8, <1>11, <1>12 DEF Sorted

\* The head gets the new call for its prev.
LEMMA LinkHeadStep ==
    ASSUME TypeOK, CallInv, Sorted, LinkHead
    PROVE  Sorted'
<1> DEFINE k == idgen
<1>1. /\ cpc = "head" /\ cpc' = "fill" /\ prev' = [prev EXCEPT ![next[k]] = k]
      /\ UNCHANGED <<next, nid, clashed, idgen, ret, sent, loopVars, netVars>>
  BY DEF LinkHead
<1>2. /\ Linked \in SUBSET Calls /\ k \in Calls /\ k \notin sent
      /\ lpc = "relink" => call # k /\ call = rsp /\ call # 0 /\ call \notin Linked
      /\ \A b \in Linked : b <= k
  BY <1>1, Where, NodeNumbers DEF Sorted, ScanInv
<1>3. k \in Linked  BY <1>1, <1>2, Where DEF Sorted, FlowInv, ScanInv, Linked
<1>4. next[k] = 0
  <2>1. next[k] \in Linked \cup {0} /\ (next[k] # 0 => next[k] > k)
    BY <1>3 DEF Sorted, ListInv, InOrder
  <2>2. \A b \in Linked : ~(b > k)  BY <1>2, NodeNumbers
  <2> QED  BY <2>1, <2>2
<1>5. Linked' = Linked  BY <1>1 DEF Linked, loopVars
<1>6. prev'[0] = k /\ \A a \in Nodes : a # 0 => prev'[a] = prev[a]
  BY <1>1, <1>4, NodeNumbers DEF TypeOK
<1> HIDE DEF k
<1>7. FlowInv'  BY <1>1, FlowKept DEF Sorted, loopVars, netVars
<1>8. ListInv'
  <2>1. ASSUME NEW a \in Linked \cup {0}
        PROVE  Pending(a)' \/ (prev'[a] \in Linked \cup {0} /\ next[prev'[a]] = a)
    <3>1. CASE a = 0  BY <1>3, <1>4, <1>6, <3>1
    <3>2. CASE a # 0
      <4>1. prev'[a] = prev[a]  BY <1>2, <1>6, <3>2, NodeNumbers
      <4>2. Pending(a) => Pending(a)'  BY <1>1, <3>2 DEF Pending, loopVars
      <4> HIDE DEF Pending
      <4> QED  BY <4>1, <4>2 DEF Sorted, ListInv
    <3> QED  BY <3>1, <3>2
  <2>2. lpc = "relink" => prev'[call] = prev[call]  BY <1>2, <1>6 DEF TypeOK
  <2> HIDE DEF Pending
  <2> QED  BY <1>1, <1>5, <2>1, <2>2 DEF Sorted, ListInv, InOrder, loopVars
<1>9. ScanInv'  BY <1>1, <1>5 DEF Sorted, ScanInv, loopVars
<1> QED  BY <1>7, <1>8, <1>9 DEF Sorted

-----------------------------------------------------------------------------
(* Steps of process_response                                                *)

\* The head's next is the least call of the list, at most the one that is
\* searched for; a response that could not be unpacked is gone.
LEMMA ReadStep ==
    ASSUME TypeOK, CallInv, Sorted, ReadRsp
    PROVE  Sorted'
<1>1. /\ lpc = "idle" /\ rsps # <<>> /\ rsps' = Tail(rsps)
      /\ UNCHANGED <<listVars, callVars, conn, reqs, called>>
      /\ \/ /\ lpc' = "scan" /\ rsp' = rsps[1]
            /\ call' = next[0] /\ tmp' = next[next[0]]
         \/ lpc' = "idle"
  BY DEF ReadRsp, Outstanding
<1> DEFINE k == rsps[1]
<1>2. /\ k \in Ids(rsps) /\ k \in Calls /\ Distinct(Tail(rsps))
      /\ Ids(Tail(rsps)) = Ids(rsps) \ {k}
  BY <1>1, FirstTaken DEF TypeOK, Sorted, FlowInv
<1>3. k \in sent /\ called[k] = 0 /\ k \notin Ids(reqs)  BY <1>2 DEF Sorted, FlowInv
<1>4. k \in Linked  BY <1>1, <1>2, <1>3 DEF CallInv, Linked
<1>5. Linked' = Linked  BY <1>1 DEF Linked, callVars
<1>6. FlowInv'
  <2>1. /\ Ids(rsps)' = Ids(rsps) \ {k} /\ Ids(reqs)' = Ids(reqs)
        /\ Distinct(rsps)' /\ (Distinct(reqs) => Distinct(reqs)')
    BY <1>1, <1>2 DEF Ids, Distinct
  <2> HIDE DEF k
  <2>2. lpc' # "idle" => rsp' = k  BY <1>1 DEF k
  <2> QED  BY <1>1, <1>2, <1>3, <2>1, <2>2 DEF Sorted, FlowInv, callVars
<1>7. ListInv'
  <2>1. /\ UNCHANGED <<next, prev, cpc, idgen>> /\ lpc # "relink" /\ lpc' # "relink"
    BY <1>1 DEF listVars, callVars
  <2> QED  BY <1>5, <2>1 DEF Sorted, ListInv, InOrder, Pending
<1>8. ScanInv'
  <2>1. CASE lpc' = "idle"  BY <2>1 DEF ScanInv
  <2>2. CASE lpc' = "scan"
    <3>1. rsp' = k /\ call' = next[0] /\ tmp' = next[next[0]]  BY <1>1, <2>2
    <3>2. k \in Nat /\ k > 0 /\ \A b \in Linked : b \in Nat  BY <1>2, NodeNumbers DEF Linked
    <3> HIDE DEF k
    <3>3. next[0] \in Linked /\ next[0] <= k
      BY <1>4, <3>2 DEF Sorted, ListInv, InOrder
    <3>4. /\ next[next[0]] \in Linked \cup {0}
          /\ next[0] < k => next[next[0]] # 0 /\ next[next[0]] <= k
      BY <1>4, <3>2, <3>3 DEF Sorted, ListInv, InOrder
    <3>5. next[0] # 0  BY <3>3, NodeNumbers DEF Linked
    <3> QED  BY <1>5, <2>2, <3>1, <3>3, <3>4, <3>5 DEF ScanInv
  <2> QED  BY <1>1, <2>1, <2>2
<1> QED  BY <1>6, <1>7, <1>8 DEF Sorted

\* The search goes on: the cursors do not pass the call of the response.
LEMMA ScanNextStep ==
    ASSUME TypeOK, CallInv, Sorted, ScanNext
    PROVE  Sorted'
<1>1. /\ lpc = "scan" /\ call # 0 /\ ~Matches(call) /\ call' = tmp /\ tmp' = next[tmp]
      /\ UNCHANGED <<listVars, callVars, netVars, lpc, rsp, called>>
  BY DEF ScanNext, Outstanding
<1>2. /\ rsp \in Linked /\ ret[rsp] = 0 /\ rsp \in Calls /\ rsp \in Nat
      /\ \A b \in Linked : b \in Nat /\ b # 0 /\ b \in Calls
  BY <1>1, Where, NodeNumbers
<1>3. Linked' = Linked  BY <1>1 DEF Linked, callVars
<1>4. call \in Linked /\ tmp \in Linked \cup {0}  BY <1>1 DEF Sorted, ScanInv
<1>5. next[tmp] \in Linked \cup {0}  BY <1>4 DEF Sorted, ListInv, InOrder
<1>6. FlowInv'  BY <1>1, FlowKept DEF Sorted, callVars, netVars
<1>7. ListInv'
  <2>1. UNCHANGED <<next, prev, cpc, idgen>> /\ lpc # "relink" /\ lpc' # "relink"
    BY <1>1 DEF listVars, callVars
  <2> QED  BY <1>3, <2>1 DEF Sorted, ListInv, InOrder, Pending
<1>8. ASSUME rsp < IdHalf
      PROVE  tmp # 0 /\ tmp <= rsp /\ (tmp < rsp => next[tmp] # 0 /\ next[tmp] <= rsp)
  <2>1. nid[rsp] = rsp  BY <1>2, <1>8, IdAsInt32 DEF CallInv
  <2>2. call # rsp  BY <1>1, <1>2, <2>1 DEF Matches
  <2>3. call <= rsp /\ (call < rsp => tmp # 0 /\ tmp <= rsp)
    BY <1>1, <1>8 DEF Sorted, ScanInv
  <2>4. tmp # 0 /\ tmp <= rsp  BY <1>2, <1>4, <2>2, <2>3
  <2>5. tmp < rsp => next[tmp] # 0 /\ next[tmp] <= rsp
    BY <1>2, <1>4, <2>4 DEF Sorted, ListInv, InOrder
  <2> QED  BY <2>4, <2>5
<1>9. ScanInv'  BY <1>1, <1>3, <1>4, <1>5, <1>8 DEF ScanInv
<1> QED  BY <1>6, <1>7, <1>9 DEF Sorted

\* The id matches: it is the response's call, whatever became of the ids that
\* do not fit an int32_t and of the call whose node is not filled in yet.
LEMMA ScanFoundStep ==
    ASSUME TypeOK, CallInv, Sorted, ScanFound
    PROVE  Sorted'
<1>1. /\ lpc = "scan" /\ lpc' = "unlink" /\ call # 0 /\ Matches(call)
      /\ UNCHANGED <<listVars, callVars, netVars, rsp, call, tmp, called>>
  BY DEF ScanFound, Outstanding
<1>2. call \in Linked /\ rsp \in Calls  BY <1>1, Where DEF Sorted, ScanInv
<1>3. Linked' = Linked  BY <1>1 DEF Linked, callVars
<1>4. call = rsp
  <2>1. call \in Calls /\ call \in Nat /\ rsp \in Nat /\ rsp > 0
    BY <1>2, NodeNumbers DEF Linked
  <2>2. nid[call] = rsp /\ nid[call] = ToInt32(call) /\ IdHalf \in Nat
    BY <1>1, <2>1, ClntAssumption DEF Matches, CallInv
  <2>3. rsp < IdHalf  BY <2>1, <2>2, IdAsInt32
  <2>4. call <= rsp  BY <1>1, <2>3 DEF Sorted, ScanInv
  <2>5. call < IdHalf  BY <2>1, <2>2, <2>3, <2>4
  <2> QED  BY <2>1, <2>2, <2>5, IdAsInt32
<1>5. FlowInv'  BY <1>1, FlowKept DEF Sorted, callVars, netVars
<1>6. ListInv'  BY <1>1, <1>3, ListKept DEF Sorted, listVars, callVars
<1>7. ScanInv'  BY <1>1, <1>4 DEF ScanInv
<1> QED  BY <1>5, <1>6, <1>7 DEF Sorted

\* The end of the list: nothing is called.
LEMMA ScanFailedStep ==
    ASSUME TypeOK, CallInv, Sorted, ScanFailed
    PROVE  Sorted'
<1>1. /\ lpc = "scan" /\ lpc' = "idle"
      /\ UNCHANGED <<listVars, callVars, netVars, rsp, call, tmp, called>>
  BY DEF ScanFailed
<1>2. Linked' = Linked  BY <1>1 DEF Linked, callVars
<1>3. FlowInv'  BY <1>1, FlowKept DEF Sorted, callVars, netVars
<1>4. ListInv'  BY <1>1, <1>2, ListKept DEF Sorted, listVars, callVars
<1>5. ScanInv'  BY <1>1 DEF ScanInv
<1> QED  BY <1>3, <1>4, <1>5 DEF Sorted

\* The list passes over the call; its own links still stand.
LEMMA UnlinkNextStep ==
    ASSUME TypeOK, CallInv, Sorted, ~clashed', UnlinkNext
    PROVE  Sorted'
<1> DEFINE p == prev[call]
<1>1. /\ lpc = "unlink" /\ lpc' = "relink" /\ next' = [next EXCEPT ![p] = next[call]]
      /\ cpc = "tail" => next[call] # 0
      /\ UNCHANGED <<prev, nid, callVars, netVars, rsp, call, tmp, called>>
  BY DEF UnlinkNext, Outstanding
<1>2. /\ call = rsp /\ call \in Linked /\ call # 0 /\ Linked \in SUBSET Calls
      /\ cpc = "tail" => idgen \notin Linked /\ idgen # 0 /\ idgen \in Nodes
  BY <1>1, Where, NodeNumbers DEF Sorted, ScanInv
<1>3. p \in Linked \cup {0} /\ next[p] = call
  BY <1>1, <1>2 DEF Sorted, ListInv, Pending
<1>4. \A a \in Linked \cup {0} : a \in Nodes  BY <1>2, NodeNumbers
<1>5. next'[p] = next[call] /\ \A a \in Nodes : a # p => next'[a] = next[a]
  BY <1>1, <1>3, <1>4 DEF TypeOK
<1>6. Linked' = Linked \ {call}  BY <1>1, <1>2 DEF Linked, callVars
<1> HIDE DEF p
<1>7. p # call /\ next[call] # call /\ InOrder(next', Linked')
  <2>1. next \in [Nodes -> Nodes] /\ InOrder(next, Linked)
    BY DEF TypeOK, Sorted, ListInv
  <2>2. /\ p # call /\ next[call] # call
        /\ InOrder([next EXCEPT ![p] = next[call]], Linked \ {call})
    BY <1>2, <1>3, <2>1, OrderTake
  <2> QED  BY <1>1, <1>6, <2>2
<1>8. next'[call] = next[call] /\ next[call] \in Linked \cup {0}
  BY <1>2, <1>4, <1>5, <1>7 DEF Sorted, ListInv, InOrder
<1>9. FlowInv'  BY <1>1, FlowKept DEF Sorted, callVars, netVars
<1>10. ListInv'
  <2>1. ASSUME NEW a \in Linked' \cup {0}
        PROVE  Pending(a)' \/ (prev[a] \in Linked' \cup {0} /\ next'[prev[a]] = a)
    <3>1. CASE a = 0 /\ cpc = "head"  BY <1>1, <3>1 DEF Pending, callVars
    <3>2. CASE prev[a] \in Linked \cup {0} /\ next[prev[a]] = a
      <4>1. CASE prev[a] = call  BY <1>1, <1>8, <3>2, <4>1 DEF Pending
      <4>2. CASE prev[a] # call
        <5>1. prev[a] # p  BY <1>2, <1>3, <1>6, <3>2
        <5> QED  BY <1>4, <1>5, <1>6, <3>2, <4>2, <5>1
      <4> QED  BY <4>1, <4>2
    <3> QED  BY <1>1, <1>6, <3>1, <3>2 DEF Sorted, ListInv, Pending
  <2>2. cpc = "tail" => next'[idgen] = next[idgen]
    BY <1>2, <1>3, <1>5
  <2>3. /\ next'[call] \in Linked' \cup {0} /\ prev[call] \in Linked' \cup {0}
        /\ next'[prev[call]] = next'[call]
    BY <1>3, <1>5, <1>6, <1>7, <1>8 DEF p
  <2> HIDE DEF Pending
  <2> QED  BY <1>1, <1>7, <1>8, <2>1, <2>2, <2>3
              DEF Sorted, ListInv, InOrder, callVars
<1>11. ScanInv'  BY <1>1, <1>2 DEF ScanInv
<1> QED  BY <1>9, <1>10, <1>11 DEF Sorted

\* The list is whole again, without the call.
LEMMA UnlinkPrevStep ==
    ASSUME TypeOK, CallInv, Sorted, UnlinkPrev
    PROVE  Sorted'
<1> DEFINE n == next[call]
           p == prev[call]
<1>1. /\ lpc = "relink" /\ lpc' = "reply"
      /\ prev' = [prev EXCEPT ![n] = p, ![call] = call]
      /\ next' = [next EXCEPT ![call] = call]
      /\ UNCHANGED <<nid, clashed, callVars, netVars, rsp, call, tmp, called>>
  BY DEF UnlinkPrev
<1>2. /\ call = rsp /\ call \notin Linked /\ call # 0 /\ Linked \in SUBSET Calls
      /\ cpc = "tail" => idgen \notin Linked /\ idgen # 0 /\ idgen \in Nodes /\ idgen # call
  BY <1>1, Where, NodeNumbers DEF Sorted, ScanInv
<1>3. /\ n \in Linked \cup {0} /\ p \in Linked \cup {0} /\ next[p] = n
      /\ n = 0 => cpc # "tail"
  BY <1>1 DEF Sorted, ListInv
<1>4. (\A a \in Linked \cup {0} : a \in Nodes /\ a # call) /\ call \in Nodes
  BY <1>2, NodeNumbers DEF TypeOK
<1>5. \A a \in Nodes : a # call => next'[a] = next[a]  BY <1>1 DEF TypeOK
<1>6. prev'[n] = p /\ \A a \in Nodes : a # call /\ a # n => prev'[a] = prev[a]
  BY <1>1, <1>3, <1>4 DEF TypeOK
<1>7. Linked' = Linked  BY <1>1 DEF Linked, callVars
<1> HIDE DEF n, p
<1>8. InOrder(next', Linked)  BY <1>2, <1>4, <1>5, OrderInside DEF Sorted, ListInv
<1>9. FlowInv'  BY <1>1, FlowKept DEF Sorted, callVars, netVars
<1>10. ListInv'
  <2>1. ASSUME NEW a \in Linked \cup {0}
        PROVE  Pending(a)' \/ (prev'[a] \in Linked \cup {0} /\ next'[prev'[a]] = a)
    <3>1. CASE a = n  BY <1>3, <1>4, <1>5, <1>6, <3>1
    <3>2. CASE a # n
      <4>1. prev'[a] = prev[a]  BY <1>4, <1>6, <3>2
      <4>2. CASE Pending(a)  BY <1>1, <3>2, <4>2 DEF Pending, callVars, n
      <4>3. CASE prev[a] \in Linked \cup {0} /\ next[prev[a]] = a
        BY <1>4, <1>5, <4>1, <4>3
      <4> QED  BY <4>2, <4>3 DEF Sorted, ListInv
    <3> QED  BY <3>1, <3>2
  <2>2. cpc = "tail" => /\ next'[idgen] = next[idgen] /\ prev'[idgen] = prev[idgen]
                        /\ prev'[0] = prev[0]
    BY <1>2, <1>3, <1>4, <1>5, <1>6
  <2> HIDE DEF Pending
  <2> QED  BY <1>1, <1>7, <1>8, <2>1, <2>2 DEF Sorted, ListInv, InOrder, callVars
<1>11. ScanInv'  BY <1>1, <1>2 DEF ScanInv
<1> QED  BY <1>9, <1>10, <1>11 DEF Sorted

\* The callback runs, and no response to this call is left anywhere.
LEMMA ReplyStep ==
    ASSUME TypeOK, CallInv, Sorted, ReplyMsg
    PROVE  Sorted'
<1>1. /\ lpc = "reply" /\ lpc' = "idle"
      /\ called' = [called EXCEPT ![call] = @ + 1]
      /\ UNCHANGED <<listVars, callVars, netVars, rsp, call, tmp>>
  BY DEF ReplyMsg
<1>2. call = rsp  BY <1>1 DEF Sorted, ScanInv
<1>3. /\ call \in sent /\ call \in Calls /\ called[call] = 0
      /\ call \notin Ids(reqs) \cup Ids(rsps)
  BY <1>1, <1>2 DEF Sorted, FlowInv, TypeOK
<1>4. called'[call] = 1 /\ \A k \in Calls : k # call => called'[k] = called[k]
  BY <1>1, <1>3 DEF TypeOK
<1>5. Linked' = Linked  BY <1>1, <1>3, <1>4 DEF Linked, callVars
<1>6. FlowInv'
  <2>1. \A k \in Calls : called'[k] # 0 => called'[k] = 1 /\ k \in sent
    BY <1>3, <1>4 DEF Sorted, FlowInv
  <2>2. \A k \in Ids(reqs) \cup Ids(rsps) : k \in sent /\ called'[k] = 0
    BY <1>3, <1>4 DEF Sorted, FlowInv, TypeOK
  <2>3. /\ Ids(reqs)' = Ids(reqs) /\ Ids(rsps)' = Ids(rsps)
        /\ (Distinct(reqs) => Distinct(reqs)') /\ (Distinct(rsps) => Distinct(rsps)')
    BY <1>1 DEF Ids, Distinct, netVars
  <2> QED  BY <1>1, <2>1, <2>2, <2>3 DEF Sorted, FlowInv, callVars
<1>7. ListInv'  BY <1>1, <1>5, ListKept DEF Sorted, listVars, callVars
<1>8. ScanInv'  BY <1>1 DEF ScanInv
<1> QED  BY <1>6, <1>7, <1>8 DEF Sorted

-----------------------------------------------------------------------------
(* The server and the connection                                            *)

\* The server answers the first request under its id.
LEMMA ServerStep ==
    ASSUME TypeOK, CallInv, Sorted, ServerReply
    PROVE  Sorted'
<1> DEFINE k == reqs[1]
<1>1. /\ reqs # <<>> /\ rsps' = Append(rsps, k) /\ reqs' = Tail(reqs)
      /\ UNCHANGED <<listVars, callVars, loopVars, conn>>
  BY DEF ServerReply
<1>2. /\ k \in Ids(reqs) /\ k \in Calls
      /\ Distinct(reqs') /\ Ids(reqs') = Ids(reqs) \ {k}
  BY <1>1, FirstTaken DEF TypeOK, Sorted, FlowInv
<1> HIDE DEF k
<1>3. k \notin Ids(rsps)  BY <1>2 DEF Sorted, FlowInv
<1>4. Distinct(rsps') /\ Ids(rsps') = Ids(rsps) \cup {k}
  BY <1>1, <1>2, <1>3, LastAdded DEF TypeOK, Sorted, FlowInv
<1>5. Linked' = Linked  BY <1>1 DEF Linked, callVars, loopVars
<1>6. FlowInv'
  <2>1. Ids(reqs') \cap Ids(rsps') = {}  BY <1>2, <1>4 DEF Sorted, FlowInv
  <2>2. Ids(reqs') \cup Ids(rsps') = Ids(reqs) \cup Ids(rsps)  BY <1>2, <1>4
  <2>3. /\ Ids(reqs)' = Ids(reqs') /\ Ids(rsps)' = Ids(rsps')
        /\ Distinct(reqs)' /\ Distinct(rsps)'
    BY <1>2, <1>4 DEF Ids, Distinct
  <2> QED  BY <1>1, <2>1, <2>2, <2>3 DEF Sorted, FlowInv, callVars, loopVars
<1>7. ListInv'  BY <1>1, <1>5, ListKept DEF Sorted, listVars, callVars, loopVars
<1>8. ScanInv'  BY <1>1, <1>5 DEF Sorted, ScanInv, loopVars
<1> QED  BY <1>6, <1>7, <1>8 DEF Sorted

\* The connection is lost, with everything that was on its way.
LEMMA EventStep ==
    ASSUME TypeOK, CallInv, Sorted, EventCb
    PROVE  Sorted'
<1>1. /\ lpc = "idle" /\ conn' = "freed" /\ reqs' = <<>> /\ rsps' = <<>>
      /\ UNCHANGED <<listVars, callVars, loopVars>>
  BY DEF EventCb
<1>2. DOMAIN reqs' = {} /\ DOMAIN rsps' = {}  BY <1>1
<1>3. Linked' = Linked  BY <1>1 DEF Linked, callVars, loopVars
<1>4. FlowInv'  BY <1>1, <1>2 DEF Sorted, FlowInv, Ids, Distinct, callVars, loopVars
<1>5. ListInv'  BY <1>1, <1>3, ListKept DEF Sorted, listVars, callVars, loopVars
<1>6. ScanInv'  BY <1>1 DEF ScanInv, loopVars
<1> QED  BY <1>4, <1>5, <1>6 DEF Sorted

-----------------------------------------------------------------------------
(* Theorems                                                                 *)

\* pbrpc_clnt_new makes an empty list.
LEMMA InitInv == Init => Inv
<1> SUFFICES ASSUME Init PROVE Inv
  OBVIOUS
<1>1. TypeOK
  <2>1. /\ next \in [Nodes -> Nodes] /\ prev \in [Nodes -> Nodes]
        /\ ret \in [Calls -> {1, 0, -1}] /\ called \in [Calls -> Nat]
    BY DEF Init
  <2>2. nid \in [Calls -> -IdHalf .. IdHalf - 1] /\ idgen \in 0 .. MaxCalls
    BY ClntAssumption DEF Init
  <2>3. reqs \in Seq(Calls) /\ rsps \in Seq(Calls) /\ sent \subseteq Calls
    BY DEF Init
  <2>4. rsp \in Nodes /\ call \in Nodes /\ tmp \in Nodes  BY NodeNumbers DEF Init
  <2>5. /\ cpc \in {"idle", "new", "tail", "head", "fill", "send"}
        /\ conn \in {"up", "freed"} /\ clashed \in BOOLEAN
        /\ lpc \in {"idle", "scan", "unlink", "relink", "reply"}
    BY DEF Init
  <2> QED  BY <2>1, <2>2, <2>3, <2>4, <2>5 DEF TypeOK
<1>2. CallInv  BY DEF Init, CallInv
<1>3. DOMAIN reqs = {} /\ DOMAIN rsps = {}  BY DEF Init
<1>4. FlowInv  BY <1>3 DEF Init, FlowInv, Ids, Distinct
<1>5. ListInv
  <2>1. Linked = {}  BY DEF Init, Linked
  <2>2. next[0] = 0 /\ prev[0] = 0  BY NodeNumbers DEF Init
  <2> QED  BY <2>1, <2>2 DEF Init, ListInv, InOrder, Pending
<1>6. ScanInv  BY DEF Init, ScanInv
<1> QED  BY <1>1, <1>2, <1>4, <1>5, <1>6 DEF Inv, Sorted

\* Every step keeps the invariant, however the two threads interleave.
LEMMA NextInv == Inv /\ [Next]_vars => Inv'
<1> SUFFICES ASSUME Inv, [Next]_vars PROVE Inv'
  OBVIOUS
<1>0. TypeOK' /\ CallInv'  BY TypeStep DEF Inv
<1>1. SUFFICES ASSUME ~clashed' PROVE Sorted'
  BY <1>0 DEF Inv
<1>2. ~clashed
  <2>1. CASE LinkNew  BY <1>1, <2>1 DEF LinkNew
  <2>2. CASE UnlinkNext  BY <1>1, <2>2 DEF UnlinkNext
  <2>3. CASE ~LinkNew /\ ~UnlinkNext
    <3>1. clashed' = clashed
      BY <2>3 DEF Next, CallStep, LoopStep, CallBegin, LinkTail, LinkHead, FillEntry,
                  WriteRequest, ReadRsp, ScanNext, ScanFound, ScanFailed, UnlinkPrev,
                  ReplyMsg, ServerReply, EventCb, vars, listVars
    <3> QED  BY <1>1, <3>1
  <2> QED  BY <2>1, <2>2, <2>3
<1>3. TypeOK /\ CallInv /\ Sorted  BY <1>2 DEF Inv
<1>4. CASE CallStep
  BY <1>1, <1>3, <1>4, CallStays, WriteStep, LinkNewStep, LinkTailStep, LinkHeadStep
     DEF CallStep
<1>5. CASE LoopStep
  BY <1>1, <1>3, <1>5, ReadStep, ScanNextStep, ScanFoundStep, ScanFailedStep,
     UnlinkNextStep, UnlinkPrevStep, ReplyStep DEF LoopStep
<1>6. CASE ServerReply  BY <1>3, <1>6, ServerStep
<1>7. CASE EventCb  BY <1>3, <1>7, EventStep
<1>8. CASE UNCHANGED vars
  <2>1. UNCHANGED <<next, prev, nid, clashed, idgen, cpc, ret, sent, lpc, rsp, call, tmp,
                    called, conn, reqs, rsps>>
    BY <1>8 DEF vars, listVars, callVars, loopVars, netVars
  <2>2. Linked' = Linked  BY <2>1 DEF Linked
  <2>3. FlowInv'  BY <1>3, <2>1, FlowKept DEF Sorted
  <2>4. ListInv'  BY <1>3, <2>1, <2>2, ListKept DEF Sorted
  <2>5. ScanInv'  BY <1>3, <2>1, <2>2 DEF Sorted, ScanInv
  <2> QED  BY <2>3, <2>4, <2>5 DEF Sorted
<1> QED  BY <1>4, <1>5, <1>6, <1>7, <1>8 DEF Next

\* Until a list_del_init of the last call overlaps a list_add_tail behind it,
\* the outstanding list holds exactly the calls that were added and not answered,
\* in the order of their ids, between any two stores of the two threads.
THEOREM OutstandingIsSorted == Spec => [](clashed \/ Sorted)
<1>1. Inv => (clashed \/ Sorted)  BY DEF Inv
<1> QED  BY <1>1, InitInv, NextInv, PTL DEF Spec

\* process_response: however it interleaves with pbrpc_clnt_call, up to that
\* overlap a response whose id fits an int32_t finds its call, and no callback
\* runs twice, before its request was written or for the response to another
\* call, for any number of calls and any width of the id.
THEOREM ResponsesMeetTheirCalls == Spec => []ResponseMeetsCall
<1>1. Inv => ResponseMeetsCall
  <2> SUFFICES ASSUME Inv PROVE ResponseMeetsCall
    OBVIOUS
  <2>0. TypeOK  BY DEF Inv
  <2>1. SUFFICES ASSUME ~clashed
                 PROVE  /\ ~(lpc = "scan" /\ call = Outstanding /\ rsp < IdHalf)
                        /\ lpc \in {"unlink", "relink", "reply"} => call = rsp
                        /\ \A k \in Calls :
                             /\ called[k] <= 1
                             /\ called[k] = 1 =>
                                  k \in sent /\ k \notin {rsps[i] : i \in DOMAIN rsps}
    BY <2>0 DEF ResponseMeetsCall
  <2>2. FlowInv /\ ScanInv  BY <2>1 DEF Inv, Sorted
  <2>3. ~(lpc = "scan" /\ call = Outstanding /\ rsp < IdHalf)
    BY <2>2 DEF ScanInv, Outstanding
  <2>4. lpc \in {"unlink", "relink", "reply"} => call = rsp  BY <2>2 DEF ScanInv
  <2>5. ASSUME NEW k \in Calls
        PROVE  /\ called[k] <= 1
               /\ called[k] = 1 => k \in sent /\ k \notin {rsps[i] : i \in DOMAIN rsps}
    <3>1. called[k] = 0 \/ (called[k] = 1 /\ k \in sent)  BY <2>2 DEF FlowInv
    <3>2. called[k] = 1 => k \notin Ids(rsps)  BY <2>2 DEF FlowInv
    <3> QED  BY <3>1, <3>2 DEF Ids
  <2> QED  BY <2>3, <2>4, <2>5
<1> QED  BY <1>1, InitInv, NextInv, PTL DEF Spec
=============================================================================
