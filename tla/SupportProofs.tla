---------------------------- MODULE SupportProofs ---------------------------
(* Proofs about Reaper, for any number of children, and about ListHead, for *)
(* any number of heads and elements.                                        *)
EXTENDS Support, Sequences, FiniteSetTheorems, TLAPS

-----------------------------------------------------------------------------
(* Children: the invariants.                                                *)

\* A signal was merged only for a child that has ended: so a child that ends
\* while the bit is set is counted once.
MergedEnded == \A c \in merged : child[c] \in {"zombie", "gone"}

\* When vmp-sa is to be started, whatever is alive was missed by killall.
Alive == In("forked") \cup In("app")
KilledOrMissed == pc \in {"start", "killed"} => Alive \subseteq missed

Inv ==
    /\ ZombiesAreMergedSignals /\ MergedEnded
    /\ OneChildUnlessExecLate /\ KilledOrMissed

-----------------------------------------------------------------------------
(* Zombies                                                                  *)

\* Every set of children is finite.
LEMMA FinitelyMany ==
    ASSUME TypeOK
    PROVE  /\ \A s : IsFiniteSet(In(s)) /\ Cardinality(In(s)) \in Nat
           /\ IsFiniteSet(merged) /\ Cardinality(merged) \in Nat
<1>1. ASSUME NEW s PROVE IsFiniteSet(In(s))
  BY PidAssumption, FS_Subset DEF In
<1>2. IsFiniteSet(merged)  BY PidAssumption, FS_Subset DEF TypeOK
<1> QED  BY <1>1, <1>2, FS_CardinalityType

\* A step that makes and reaps no zombie and handles no signal.
LEMMA NoneEnds ==
    ASSUME ZombiesAreMergedSignals, MergedEnded, TypeOK',
           UNCHANGED <<pending, merged>>,
           \A c \in Pid : /\ child[c] = "zombie" <=> child'[c] = "zombie"
                          /\ child[c] = "gone" => child'[c] = "gone"
    PROVE  ZombiesAreMergedSignals' /\ MergedEnded'
<1>1. In("zombie")' = In("zombie")  BY DEF In
<1>2. MergedEnded'  BY DEF ZombiesAreMergedSignals, TypeOK, MergedEnded
<1> QED  BY <1>1, <1>2 DEF ZombiesAreMergedSignals

\* A child that ends makes one zombie, and sets the bit or is merged.
LEMMA EndsStep ==
    ASSUME ZombiesAreMergedSignals, MergedEnded, TypeOK', NEW c \in Pid, Ends(c),
           child[c] \notin {"zombie", "gone"}
    PROVE  ZombiesAreMergedSignals' /\ MergedEnded'
<1>1. TypeOK /\ child' = [child EXCEPT ![c] = "zombie"] /\ pending' = TRUE
  BY DEF ZombiesAreMergedSignals, Ends
<1>2. /\ IsFiniteSet(In("zombie")) /\ IsFiniteSet(merged)
      /\ Cardinality(In("zombie")) \in Nat /\ Cardinality(merged) \in Nat
  BY <1>1, FinitelyMany
<1>3. In("zombie")' = In("zombie") \cup {c} /\ c \notin In("zombie")
  BY <1>1 DEF TypeOK, In
<1>4. Cardinality(In("zombie")') = Cardinality(In("zombie")) + 1
  BY <1>2, <1>3, FS_AddElement
<1>5. c \notin merged  BY DEF MergedEnded
<1>6. pending => Cardinality(merged') = Cardinality(merged) + 1
  BY <1>2, <1>5, FS_AddElement DEF Ends
<1>7. ~ pending => merged' = merged  BY DEF Ends
<1>8. Cardinality(In("zombie")') <= Cardinality(merged') + 1
  BY <1>2, <1>4, <1>6, <1>7 DEF ZombiesAreMergedSignals
<1>9. MergedEnded'
  <2>1. merged' \subseteq merged \cup {c}  BY DEF Ends
  <2> QED  BY <1>1, <2>1 DEF TypeOK, MergedEnded
<1> QED  BY <1>1, <1>8, <1>9 DEF ZombiesAreMergedSignals

\* handler clears the bit and takes one zombie, if there is one.
LEMMA HandlerStep ==
    ASSUME ZombiesAreMergedSignals, MergedEnded, TypeOK', Handler
    PROVE  ZombiesAreMergedSignals' /\ MergedEnded'
<1>1. TypeOK /\ pending /\ ~ pending' /\ merged' = merged
  BY DEF ZombiesAreMergedSignals, Handler
<1>2. /\ IsFiniteSet(In("zombie")) /\ Cardinality(merged) \in Nat
      /\ Cardinality(In("zombie")) \in Nat
  BY <1>1, FinitelyMany
<1>3. Cardinality(In("zombie")) <= Cardinality(merged) + 1
  BY <1>1 DEF ZombiesAreMergedSignals
<1>4. CASE In("zombie") = {}
  <2>1. child' = child  BY <1>4 DEF Handler
  <2>2. In("zombie")' = {}  BY <1>4, <2>1 DEF In
  <2>3. Cardinality(In("zombie")') = 0  BY <2>2, FS_EmptySet
  <2>4. Cardinality(In("zombie")') <= Cardinality(merged') + (IF pending' THEN 1 ELSE 0)
    BY <1>1, <1>2, <2>3
  <2>5. MergedEnded'  BY <1>1, <2>1 DEF MergedEnded
  <2> QED  BY <2>4, <2>5 DEF ZombiesAreMergedSignals
<1>5. CASE In("zombie") # {}
  <2>1. PICK c \in In("zombie") : child' = [child EXCEPT ![c] = "gone"]
    BY <1>5 DEF Handler
  <2>2. In("zombie")' = In("zombie") \ {c}  BY <1>1, <2>1 DEF TypeOK, In
  <2>3. Cardinality(In("zombie")') = Cardinality(In("zombie")) - 1
    BY <1>2, <2>1, <2>2, FS_RemoveElement
  <2>4. MergedEnded'  BY <1>1, <2>1 DEF TypeOK, In, MergedEnded
  <2>5. Cardinality(In("zombie")') <= Cardinality(merged)
    BY <1>2, <1>3, <2>3
  <2>6. Cardinality(In("zombie")') <= Cardinality(merged') + (IF pending' THEN 1 ELSE 0)
    BY <1>1, <1>2, <2>5
  <2> QED  BY <2>4, <2>6 DEF ZombiesAreMergedSignals
<1> QED  BY <1>4, <1>5

-----------------------------------------------------------------------------
(* Applications                                                             *)

\* A step that brings nobody to life, and comes to no pc from which vmp-sa is
\* started, keeps the others apart.
LEMMA NoneStarts ==
    ASSUME OneChildUnlessExecLate, KilledOrMissed,
           Alive' \subseteq Alive, missed \subseteq missed',
           pc' \in {"start", "killed"} => pc' = pc \/ Alive' \subseteq missed'
    PROVE  OneChildUnlessExecLate' /\ KilledOrMissed'
BY DEF OneChildUnlessExecLate, KilledOrMissed, Alive

\* run_process brings one child to life, when all others had been missed.
LEMMA RunStep ==
    ASSUME TypeOK, OneChildUnlessExecLate, KilledOrMissed,
           NEW from \in {"start", "killed"}, RunProcess(from, "watch")
    PROVE  OneChildUnlessExecLate' /\ KilledOrMissed'
<1>1. missed' = missed /\ pc = from  BY DEF RunProcess
<1>2. Alive \subseteq missed  BY <1>1 DEF KilledOrMissed
<1>3. ASSUME NEW c \in In("free"), child' = [child EXCEPT ![c] = "forked"], pc' = "watch"
      PROVE  OneChildUnlessExecLate' /\ KilledOrMissed'
  <2>1. Alive' \subseteq Alive \cup {c}  BY <1>3 DEF TypeOK, Alive, In
  <2> QED  BY <1>1, <1>2, <1>3, <2>1 DEF OneChildUnlessExecLate, KilledOrMissed, Alive
<1>4. CASE child' = Killed /\ pc' = "exited"
  <2>1. Alive' \subseteq Alive  BY <1>4 DEF TypeOK, Alive, In, Killed
  <2> QED  BY <1>1, <1>4, <2>1, NoneStarts
<1> QED  BY <1>3, <1>4 DEF RunProcess

-----------------------------------------------------------------------------
(* The theorems about children                                              *)

\* The invariant of the processes holds in every state of the daemon.
THEOREM ReaperInvariant == Spec => []Inv
<1>1. Init => Inv
  <2> SUFFICES ASSUME Init PROVE Inv
    OBVIOUS
  <2>1. TypeOK  BY DEF Init, TypeOK, Status
  <2>2. \A s \in {"zombie", "forked", "app"} : In(s) = {}  BY DEF Init, In
  <2>3. Cardinality(In("zombie")) = 0 /\ Cardinality(merged) = 0 /\ ~ pending
    BY <2>2, FS_EmptySet DEF Init
  <2>4. Alive = {}  BY <2>2 DEF Alive
  <2> QED
    BY <2>1, <2>3, <2>4
    DEF Init, Inv, ZombiesAreMergedSignals, MergedEnded, OneChildUnlessExecLate,
        KilledOrMissed, Alive
<1>2. Inv /\ [Next]_vars => Inv'
  <2> SUFFICES ASSUME Inv, [Next]_vars PROVE Inv'
    OBVIOUS
  <2>0. TypeOK /\ ZombiesAreMergedSignals /\ MergedEnded
          /\ OneChildUnlessExecLate /\ KilledOrMissed
    BY DEF Inv, ZombiesAreMergedSignals
  <2>1. ASSUME NEW from \in {"start", "killed"}, RunProcess(from, "watch") PROVE Inv'
    <3>1. /\ UNCHANGED <<pending, merged, missed>> /\ pc' \in {"watch", "exited"}
          /\ child' = Killed \/ \E c \in In("free") : child' = [child EXCEPT ![c] = "forked"]
      BY <2>1 DEF RunProcess
    <3>2. TypeOK'  BY <2>0, <3>1 DEF TypeOK, Killed, Status, In
    <3>3. \A c \in Pid : /\ child[c] = "zombie" <=> child'[c] = "zombie"
                         /\ child[c] = "gone" => child'[c] = "gone"
      BY <2>0, <3>1 DEF TypeOK, Killed, In
    <3> QED  BY <2>0, <2>1, <3>1, <3>2, <3>3, NoneEnds, RunStep DEF Inv
  <2>2. CASE WatchAndKill
    <3>1. TypeOK'  BY <2>0, <2>2 DEF WatchAndKill, TypeOK, Killed, Status, In
    <3>2. \A c \in Pid : /\ child[c] = "zombie" <=> child'[c] = "zombie"
                         /\ child[c] = "gone" => child'[c] = "gone"
      BY <2>0, <2>2 DEF WatchAndKill, TypeOK, Killed
    <3>3. /\ Alive' \subseteq In("forked") /\ missed' = missed \cup In("forked")
          /\ UNCHANGED <<pending, merged>>
      BY <2>2 DEF WatchAndKill, Alive, In, Killed
    <3>4. Alive' \subseteq Alive /\ Alive' \subseteq missed' /\ missed \subseteq missed'
      BY <3>3 DEF Alive
    <3> QED  BY <2>0, <3>1, <3>2, <3>3, <3>4, NoneEnds, NoneStarts DEF Inv
  <2>3. CASE Stop
    <3>1. UNCHANGED <<child, pending, merged, missed>> /\ pc' = "stopped"
      BY <2>3 DEF Stop
    <3>2. TypeOK' /\ Alive' = Alive  BY <2>0, <3>1 DEF TypeOK, Alive, In
    <3> QED  BY <2>0, <3>1, <3>2, NoneEnds, NoneStarts DEF Inv
  <2>4. ASSUME NEW c \in Pid, Exec(c) PROVE Inv'
    <3>1. child[c] = "forked" /\ UNCHANGED <<missed, pc>>  BY <2>4 DEF Exec
    <3>2. CASE child' = [child EXCEPT ![c] = "app"] /\ UNCHANGED <<pending, merged>>
      <4>1. TypeOK'  BY <2>0, <3>1, <3>2 DEF TypeOK, Status
      <4>2. \A d \in Pid : /\ child[d] = "zombie" <=> child'[d] = "zombie"
                           /\ child[d] = "gone" => child'[d] = "gone"
        BY <2>0, <3>1, <3>2 DEF TypeOK
      <4>3. Alive' \subseteq Alive  BY <2>0, <3>1, <3>2 DEF TypeOK, Alive, In
      <4> QED  BY <2>0, <3>1, <3>2, <4>1, <4>2, <4>3, NoneEnds, NoneStarts DEF Inv
    <3>3. CASE Ends(c)
      <4>1. TypeOK'  BY <2>0, <3>1, <3>3 DEF TypeOK, Status, Ends
      <4>2. Alive' \subseteq Alive  BY <2>0, <3>3 DEF TypeOK, Alive, In, Ends
      <4> QED  BY <2>0, <3>1, <3>3, <4>1, <4>2, EndsStep, NoneStarts DEF Inv
    <3> QED  BY <2>4, <3>2, <3>3 DEF Exec
  <2>5. ASSUME NEW c \in Pid, Die(c) PROVE Inv'
    <3>1. child[c] \in {"app", "dying"} /\ Ends(c) /\ UNCHANGED <<missed, pc>>
      BY <2>5 DEF Die
    <3>2. TypeOK'  BY <2>0, <3>1 DEF TypeOK, Status, Ends
    <3>3. Alive' \subseteq Alive  BY <2>0, <3>1 DEF TypeOK, Alive, In, Ends
    <3> QED  BY <2>0, <3>1, <3>2, <3>3, EndsStep, NoneStarts DEF Inv
  <2>6. CASE Handler
    <3>1. /\ UNCHANGED <<merged, missed, pc>> /\ pending' = FALSE
          /\ child' = child \/ \E c \in In("zombie") : child' = [child EXCEPT ![c] = "gone"]
      BY <2>6 DEF Handler
    <3>2. TypeOK'  BY <2>0, <3>1 DEF TypeOK, Status, In
    <3>3. Alive' \subseteq Alive  BY <2>0, <3>1 DEF TypeOK, Alive, In
    <3> QED  BY <2>0, <2>6, <3>1, <3>2, <3>3, HandlerStep, NoneStarts DEF Inv
  <2>7. CASE UNCHANGED vars
    <3>1. UNCHANGED <<child, pending, merged, missed, pc>>  BY <2>7 DEF vars
    <3>2. TypeOK' /\ Alive' = Alive  BY <2>0, <3>1 DEF TypeOK, Alive, In
    <3> QED  BY <2>0, <3>1, <3>2, NoneEnds, NoneStarts DEF Inv
  <2> QED
    BY <2>1, <2>2, <2>3, <2>4, <2>5, <2>6, <2>7 DEF Next, First, Again
<1> QED  BY <1>1, <1>2, PTL DEF Spec

\* The handler of vmp-daemon leaves no more zombies than signals were merged or
\* are pending, however many children end and whichever of them it reaps.
THEOREM ZombiesBounded == Spec => []ZombiesAreMergedSignals
<1>1. Inv => ZombiesAreMergedSignals  BY DEF Inv
<1> QED  BY <1>1, ReaperInvariant, PTL

\* However often the daemon restarts vmp-sa, of two that live at once killall
\* missed one before its exec.
THEOREM OneApplication == Spec => []OneChildUnlessExecLate
<1>1. Inv => OneChildUnlessExecLate  BY DEF Inv
<1> QED  BY <1>1, ReaperInvariant, PTL

-----------------------------------------------------------------------------
(* Lists: the inductive invariant, as a predicate of the links, the lists   *)
(* and the stale heads.                                                     *)

Links == [Lists!Cells -> [next : Lists!Cells \cup {Lists!Poison},
                          prev : Lists!Cells \cup {Lists!Poison}]]

\* The cells of a list from its head round to its head.
Cell(h, s, k) == IF k = 0 \/ k = Len(s) + 1 THEN h ELSE s[k]

\* Two neighbours point at each other.
Tied(l, a, b) == l[a].next = b /\ l[b].prev = a

Round(l, h, s) == \A k \in 0 .. Len(s) : Tied(l, Cell(h, s, k), Cell(h, s, k + 1))

Once(s) == \A j, k \in 1 .. Len(s) : s[j] = s[k] => j = k
Apart(s, t) == \A j \in 1 .. Len(s), k \in 1 .. Len(t) : s[j] # t[k]

\* Every element is in one list at most, once.
Placed(lst, sl) ==
    /\ lst \in [Heads -> Seq(Elems)]
    /\ sl \subseteq Heads
    /\ \A h \in Heads : Once(lst[h])
    /\ \A g, h \in Heads : g # h => Apart(lst[g], lst[h])
    /\ \A h \in sl : lst[h] = <<>>

Whole(l, lst, sl) ==
    /\ l \in Links
    /\ Placed(lst, sl)
    /\ \A h \in Heads \ sl : Round(l, h, lst[h])

-----------------------------------------------------------------------------
(* What the functions of list.h do to single cells.                         *)

\* After a .. b was put between x and y: who points where.
Joined(l, m, x, a, b, y) ==
    /\ m \in Links
    /\ \A c \in Lists!Cells :
         /\ m[c].next = IF c = b THEN y ELSE IF c = x THEN a ELSE l[c].next
         /\ m[c].prev = IF c = y THEN b ELSE IF c = a THEN x ELSE l[c].prev

LEMMA JoinLinks ==
    ASSUME NEW l \in Links, NEW x \in Lists!Cells, NEW a \in Lists!Cells,
           NEW b \in Lists!Cells, NEW y \in Lists!Cells
    PROVE  Joined(l, Lists!Join(l, x, a, b, y), x, a, b, y)
<1> DEFINE l1 == [l EXCEPT ![x].next = a]
           l2 == [l1 EXCEPT ![a].prev = x]
           l3 == [l2 EXCEPT ![b].next = y]
           l4 == [l3 EXCEPT ![y].prev = b]
<1>1. l1 \in Links /\ \A c \in Lists!Cells : /\ l1[c].next = IF c = x THEN a ELSE l[c].next
                                             /\ l1[c].prev = l[c].prev
  BY DEF Links
<1>2. l2 \in Links /\ \A c \in Lists!Cells : /\ l2[c].prev = IF c = a THEN x ELSE l1[c].prev
                                             /\ l2[c].next = l1[c].next
  <2> HIDE DEF l1
  <2> QED  BY <1>1 DEF Links
<1>3. l3 \in Links /\ \A c \in Lists!Cells : /\ l3[c].next = IF c = b THEN y ELSE l2[c].next
                                             /\ l3[c].prev = l2[c].prev
  <2> HIDE DEF l2
  <2> QED  BY <1>2 DEF Links
<1>4. l4 \in Links /\ \A c \in Lists!Cells : /\ l4[c].prev = IF c = y THEN b ELSE l3[c].prev
                                             /\ l4[c].next = l3[c].next
  <2> HIDE DEF l3
  <2> QED  BY <1>3 DEF Links
<1>5. Lists!Join(l, x, a, b, y) = l4  BY DEF Lists!Join
<1> HIDE DEF l1, l2, l3, l4
<1> QED  BY <1>1, <1>2, <1>3, <1>4, <1>5 DEF Joined

\* INIT_LIST_HEAD changes its own cell.
LEMMA InitHeadLinks ==
    ASSUME NEW l \in Links, NEW h \in Lists!Cells
    PROVE  /\ Lists!InitHead(l, h) \in Links
           /\ Lists!InitHead(l, h)[h] = [next |-> h, prev |-> h]
           /\ \A c \in Lists!Cells : c # h => Lists!InitHead(l, h)[c] = l[c]
BY DEF Links, Lists!InitHead

\* After old was taken out, whatever old itself then points at.
Unlinked(l, m, old) ==
    /\ m \in Links
    /\ \A c \in Lists!Cells : c # old =>
         /\ m[c].next = IF c = l[old].prev THEN l[old].next ELSE l[c].next
         /\ m[c].prev = IF c = l[old].next THEN l[old].prev ELSE l[c].prev

LEMMA DelLinks ==
    ASSUME NEW l \in Links, NEW old \in Lists!Cells,
           l[old].next \in Lists!Cells, l[old].prev \in Lists!Cells
    PROVE  Unlinked(l, Lists!ListDel(l, old), old) /\ Unlinked(l, Lists!ListDelInit(l, old), old)
<1> DEFINE n == l[old].next
           p == l[old].prev
           l1 == [l EXCEPT ![p].next = n]
           l2 == [l1 EXCEPT ![n].prev = p]
<1>1. l1 \in Links /\ \A c \in Lists!Cells : /\ l1[c].next = IF c = p THEN n ELSE l[c].next
                                             /\ l1[c].prev = l[c].prev
  BY DEF Links
<1>2. l2 \in Links /\ \A c \in Lists!Cells : /\ l2[c].prev = IF c = n THEN p ELSE l1[c].prev
                                             /\ l2[c].next = l1[c].next
  <2> HIDE DEF l1
  <2> QED  BY <1>1 DEF Links
<1>3. Lists!Unlink(l, old) = l2  BY DEF Lists!Unlink
<1> HIDE DEF l1, l2
<1>4. Unlinked(l, Lists!ListDel(l, old), old)
  <2>1. Lists!ListDel(l, old) = [l2 EXCEPT ![old] = [next |-> Lists!Poison, prev |-> Lists!Poison]]
    BY <1>3 DEF Lists!ListDel
  <2>2. Lists!ListDel(l, old) \in Links  BY <1>2, <2>1 DEF Links
  <2>3. \A c \in Lists!Cells : c # old => Lists!ListDel(l, old)[c] = l2[c]
    BY <1>2, <2>1 DEF Links
  <2> QED  BY <1>1, <1>2, <2>2, <2>3 DEF Unlinked
<1>5. Unlinked(l, Lists!ListDelInit(l, old), old)
  <2>1. Lists!ListDelInit(l, old) = Lists!InitHead(l2, old)  BY <1>3 DEF Lists!ListDelInit
  <2>2. l2 \in Links  BY <1>2
  <2>3. /\ Lists!InitHead(l2, old) \in Links
        /\ \A c \in Lists!Cells : c # old => Lists!InitHead(l2, old)[c] = l2[c]
    BY <2>2, InitHeadLinks
  <2> QED  BY <1>1, <1>2, <2>1, <2>3 DEF Unlinked
<1> QED  BY <1>4, <1>5

-----------------------------------------------------------------------------
(* Rings                                                                    *)

\* Neighbours in t, and in the ring of s but for the k-th pair, are tied.
Chain(l, t) == \A j \in 1 .. (Len(t) - 1) : Tied(l, t[j], t[j + 1])
Open(l, h, s, k) ==
    \A j \in 0 .. Len(s) : j # k => Tied(l, Cell(h, s, j), Cell(h, s, j + 1))

\* u is s with t put in after the k-th element.
Inserted(s, k, t, u) ==
    /\ Len(u) = Len(s) + Len(t)
    /\ \A j \in 1 .. k : u[j] = s[j]
    /\ \A j \in 1 .. Len(t) : u[k + j] = t[j]
    /\ \A j \in (k + 1) .. Len(s) : u[Len(t) + j] = s[j]

\* u is s without its k-th element.
Removed(s, k, u) ==
    /\ Len(u) = Len(s) - 1
    /\ \A j \in 1 .. (k - 1) : u[j] = s[j]
    /\ \A j \in k .. Len(u) : u[j] = s[j + 1]

\* Every element of u is one of s.
Within(u, s) == \A i \in 1 .. Len(u) : \E j \in 1 .. Len(s) : u[i] = s[j]

LEMMA WithinApart ==
    ASSUME NEW r, NEW s, NEW u, Apart(r, s), Within(u, s)
    PROVE  Apart(r, u)
<1> SUFFICES ASSUME NEW j \in 1 .. Len(r), NEW i \in 1 .. Len(u) PROVE r[j] # u[i]
  BY DEF Apart
<1>1. PICK k \in 1 .. Len(s) : u[i] = s[k]  BY DEF Within
<1> QED  BY <1>1 DEF Apart

LEMMA WithinOut ==
    ASSUME NEW s, NEW u, NEW c, Within(u, s), \A j \in 1 .. Len(s) : c # s[j]
    PROVE  \A i \in 1 .. Len(u) : c # u[i]
BY DEF Within

\* The cells of a ring are different.
LEMMA CellOnce ==
    ASSUME NEW h \in Heads, NEW s \in Seq(Elems), Once(s)
    PROVE  /\ \A k \in 0 .. (Len(s) + 1) : Cell(h, s, k) \in Lists!Cells
           /\ \A j, k \in 0 .. Len(s) : Cell(h, s, j) = Cell(h, s, k) => j = k
           /\ \A j, k \in 1 .. (Len(s) + 1) : Cell(h, s, j) = Cell(h, s, k) => j = k
<1>1. Len(s) \in Nat /\ \A k \in 1 .. Len(s) : s[k] \in Elems /\ s[k] # h
  BY CellsAssumption
<1> QED  BY <1>1 DEF Cell, Once, Lists!Cells

\* An element that is not in the list is none of its cells.
LEMMA NoCell ==
    ASSUME NEW h \in Heads, NEW s \in Seq(Elems), NEW e \in Elems,
           \A k \in 1 .. Len(s) : s[k] # e
    PROVE  \A k \in 0 .. (Len(s) + 1) : Cell(h, s, k) # e
BY CellsAssumption DEF Cell

\* A chain put between two neighbours makes a ring.
LEMMA InsertRound ==
    ASSUME NEW l, NEW m, NEW h \in Heads, NEW s \in Seq(Elems), NEW t \in Seq(Elems),
           NEW u \in Seq(Elems), NEW k \in 0 .. Len(s), Len(t) > 0,
           Inserted(s, k, t, u), Once(s), Once(t), Apart(s, t),
           Chain(l, t), Open(l, h, s, k),
           Joined(l, m, Cell(h, s, k), t[1], t[Len(t)], Cell(h, s, k + 1))
    PROVE  Round(m, h, u)
<1> DEFINE n == Len(s)
           q == Len(t)
           x == Cell(h, s, k)
           y == Cell(h, s, k + 1)
<1>1. n \in Nat /\ q \in Nat /\ q > 0 /\ Len(u) = n + q /\ k \in 0 .. n
  BY DEF Inserted
<1>2. \A j \in 1 .. q : t[j] \in Elems /\ t[j] \in Lists!Cells
  BY DEF Lists!Cells
<1>3. \A j \in 1 .. q : \A i \in 0 .. (n + 1) : Cell(h, s, i) # t[j]
  <2> SUFFICES ASSUME NEW j \in 1 .. q PROVE \A i \in 0 .. (n + 1) : Cell(h, s, i) # t[j]
    OBVIOUS
  <2>1. \A i \in 1 .. Len(s) : s[i] # t[j]  BY DEF Apart
  <2> QED  BY <1>2, <2>1, NoCell
<1>4. /\ \A i \in 0 .. (n + 1) : Cell(h, s, i) \in Lists!Cells
      /\ \A i, j \in 0 .. n : Cell(h, s, i) = Cell(h, s, j) => i = j
      /\ \A i, j \in 1 .. (n + 1) : Cell(h, s, i) = Cell(h, s, j) => i = j
  BY CellOnce
<1>5. \A c \in Lists!Cells :
         /\ m[c].next = IF c = t[q] THEN y ELSE IF c = x THEN t[1] ELSE l[c].next
         /\ m[c].prev = IF c = y THEN t[q] ELSE IF c = t[1] THEN x ELSE l[c].prev
  BY DEF Joined
<1>6. /\ \A i \in 0 .. k : Cell(h, u, i) = Cell(h, s, i)
      /\ \A i \in 1 .. q : Cell(h, u, k + i) = t[i]
      /\ \A i \in (k + 1) .. (n + 1) : Cell(h, u, q + i) = Cell(h, s, i)
  <2>1. ASSUME NEW i \in 0 .. k PROVE Cell(h, u, i) = Cell(h, s, i)
    BY <1>1 DEF Inserted, Cell
  <2>2. ASSUME NEW i \in 1 .. q PROVE Cell(h, u, k + i) = t[i]
    <3>1. u[k + i] = t[i] /\ k + i # 0 /\ k + i # Len(u) + 1  BY <1>1 DEF Inserted
    <3> QED  BY <3>1 DEF Cell
  <2>3. ASSUME NEW i \in (k + 1) .. (n + 1) PROVE Cell(h, u, q + i) = Cell(h, s, i)
    <3>1. CASE i = n + 1
      <4>1. q + i = Len(u) + 1  BY <1>1, <3>1
      <4> QED  BY <3>1, <4>1 DEF Cell
    <3>2. CASE i # n + 1
      <4>0. i \in Int /\ k \in Int /\ n \in Int /\ q \in Int /\ k >= 0 /\ q > 0
              /\ i >= k + 1 /\ i <= n + 1
        BY <1>1
      <4>1. i \in (k + 1) .. Len(s) /\ i # 0 /\ q + i # 0 /\ q + i # Len(u) + 1
        BY <1>1, <3>2, <4>0
      <4>2. u[q + i] = s[i]  BY <4>1 DEF Inserted
      <4> QED  BY <3>2, <4>1, <4>2 DEF Cell
    <3> QED  BY <3>1, <3>2
  <2> QED  BY <2>1, <2>2, <2>3
<1>7. \A i \in 0 .. n : i # k => Tied(m, Cell(h, s, i), Cell(h, s, i + 1))
  <2> SUFFICES ASSUME NEW i \in 0 .. n, i # k
               PROVE  Tied(m, Cell(h, s, i), Cell(h, s, i + 1))
    OBVIOUS
  <2>0. /\ i \in 0 .. (n + 1) /\ i + 1 \in 1 .. (n + 1) /\ i + 1 \in 0 .. (n + 1)
        /\ k + 1 \in 1 .. (n + 1) /\ i + 1 # k + 1 /\ 1 \in 1 .. q /\ q \in 1 .. q
    BY <1>1
  <2>1. Cell(h, s, i) # x /\ Cell(h, s, i + 1) # y  BY <1>1, <1>4, <2>0
  <2>2. Cell(h, s, i) # t[q] /\ Cell(h, s, i + 1) # t[1]  BY <1>3, <2>0
  <2>3. Cell(h, s, i) \in Lists!Cells /\ Cell(h, s, i + 1) \in Lists!Cells  BY <1>1, <1>4
  <2>4. Tied(l, Cell(h, s, i), Cell(h, s, i + 1))  BY DEF Open
  <2> HIDE DEF x, y
  <2> QED  BY <1>5, <2>1, <2>2, <2>3, <2>4 DEF Tied
<1>8. \A i \in 1 .. (q - 1) : Tied(m, t[i], t[i + 1])
  <2> SUFFICES ASSUME NEW i \in 1 .. (q - 1) PROVE Tied(m, t[i], t[i + 1])
    OBVIOUS
  <2>1. t[i] # t[q] /\ t[i + 1] # t[1]  BY <1>1 DEF Once
  <2>0. i \in 1 .. q /\ i + 1 \in 1 .. q /\ k \in 0 .. (n + 1) /\ k + 1 \in 0 .. (n + 1)
    BY <1>1
  <2>2. t[i] # x /\ t[i + 1] # y  BY <1>3, <2>0
  <2>3. t[i] \in Lists!Cells /\ t[i + 1] \in Lists!Cells  BY <1>1, <1>2
  <2>4. Tied(l, t[i], t[i + 1])  BY DEF Chain
  <2> HIDE DEF x, y
  <2> QED  BY <1>5, <2>1, <2>2, <2>3, <2>4 DEF Tied
<1>9. Tied(m, x, t[1]) /\ Tied(m, t[q], y)
  <2>1. x # t[q] /\ y # t[1] /\ x \in Lists!Cells /\ y \in Lists!Cells
    BY <1>1, <1>3, <1>4
  <2>2. t[1] \in Lists!Cells /\ t[q] \in Lists!Cells  BY <1>1, <1>2
  <2> HIDE DEF x, y
  <2> QED  BY <1>5, <2>1, <2>2 DEF Tied
<1>10. ASSUME NEW i \in 0 .. Len(u) PROVE Tied(m, Cell(h, u, i), Cell(h, u, i + 1))
  <2>1. CASE i < k
    <3>1. Cell(h, u, i) = Cell(h, s, i) /\ Cell(h, u, i + 1) = Cell(h, s, i + 1)
      BY <1>1, <1>6, <2>1
    <3> QED  BY <1>1, <1>7, <2>1, <3>1
  <2>2. CASE i = k
    <3>1. Cell(h, u, i) = x /\ Cell(h, u, i + 1) = t[1]  BY <1>1, <1>6, <2>2
    <3> QED  BY <1>9, <3>1
  <2>3. CASE i > k /\ i < k + q
    <3>1. PICK j \in 1 .. (q - 1) : i = k + j
      <4>1. i - k \in 1 .. (q - 1) /\ i = k + (i - k)  BY <1>1, <2>3
      <4> QED  BY <4>1
    <3>2. Cell(h, u, i) = t[j]  BY <1>1, <1>6, <3>1
    <3>3. Cell(h, u, i + 1) = t[j + 1]
      <4>1. j + 1 \in 1 .. q /\ i + 1 = k + (j + 1)  BY <1>1, <3>1
      <4> QED  BY <1>6, <4>1
    <3> QED  BY <1>8, <3>2, <3>3
  <2>4. CASE i = k + q
    <3>1. Cell(h, u, i) = t[q]  BY <1>1, <1>6, <2>4
    <3>2. Cell(h, u, i + 1) = y
      <4>1. k + 1 \in (k + 1) .. (n + 1) /\ i + 1 = q + (k + 1)  BY <1>1, <2>4
      <4> QED  BY <1>6, <4>1
    <3> QED  BY <1>9, <3>1, <3>2
  <2>5. CASE i > k + q
    <3>1. PICK j \in (k + 1) .. n : i = q + j
      <4>1. i - q \in (k + 1) .. n /\ i = q + (i - q)  BY <1>1, <2>5
      <4> QED  BY <4>1
    <3>2. Cell(h, u, i) = Cell(h, s, j)  BY <1>1, <1>6, <3>1
    <3>3. Cell(h, u, i + 1) = Cell(h, s, j + 1)
      <4>1. j + 1 \in (k + 1) .. (n + 1) /\ i + 1 = q + (j + 1)  BY <1>1, <3>1
      <4> QED  BY <1>6, <4>1
    <3>4. j \in 0 .. n /\ j # k  BY <1>1
    <3> QED  BY <1>7, <3>2, <3>3, <3>4
  <2>6. i < k \/ i = k \/ (i > k /\ i < k + q) \/ i = k + q \/ i > k + q  BY <1>1
  <2> QED  BY <2>1, <2>2, <2>3, <2>4, <2>5, <2>6
<1> QED  BY <1>10 DEF Round

\* What is left of a ring when an element is taken out is open at its place.
LEMMA RemoveOpen ==
    ASSUME NEW l, NEW h \in Heads, NEW s \in Seq(Elems), NEW u \in Seq(Elems),
           NEW k \in 1 .. Len(s), Once(s), Round(l, h, s), Removed(s, k, u)
    PROVE  /\ Open(l, h, u, k - 1) /\ Once(u) /\ k - 1 \in 0 .. Len(u)
           /\ Within(u, s) /\ \A i \in 1 .. Len(u) : u[i] # s[k]
           /\ Cell(h, u, k - 1) = l[s[k]].prev /\ Cell(h, u, k) = l[s[k]].next
<1> DEFINE n == Len(s)
<1>1. n \in Nat /\ Len(u) = n - 1 /\ Len(u) \in Nat /\ k \in 1 .. n /\ k \in Int
  BY DEF Removed
<1>2. /\ \A i \in 0 .. (k - 1) : Cell(h, u, i) = Cell(h, s, i)
      /\ \A i \in k .. n : Cell(h, u, i) = Cell(h, s, i + 1)
  <2>1. ASSUME NEW i \in 0 .. (k - 1) PROVE Cell(h, u, i) = Cell(h, s, i)
    BY <1>1 DEF Removed, Cell
  <2>2. ASSUME NEW i \in k .. n PROVE Cell(h, u, i) = Cell(h, s, i + 1)
    <3>1. CASE i = n
      <4>1. i = Len(u) + 1 /\ i + 1 = Len(s) + 1  BY <1>1, <3>1
      <4> QED  BY <4>1 DEF Cell
    <3>2. CASE i # n
      <4>1. /\ i \in k .. Len(u) /\ i # 0 /\ i + 1 # 0
            /\ i # Len(u) + 1 /\ i + 1 # Len(s) + 1
        BY <1>1, <3>2
      <4>2. u[i] = s[i + 1]  BY <4>1 DEF Removed
      <4> QED  BY <4>1, <4>2 DEF Cell
    <3> QED  BY <3>1, <3>2
  <2> QED  BY <2>1, <2>2
<1>3. Open(l, h, u, k - 1)
  <2> SUFFICES ASSUME NEW i \in 0 .. Len(u), i # k - 1
               PROVE  Tied(l, Cell(h, u, i), Cell(h, u, i + 1))
    BY DEF Open
  <2>1. CASE i < k - 1
    <3>1. Cell(h, u, i) = Cell(h, s, i) /\ Cell(h, u, i + 1) = Cell(h, s, i + 1)
      BY <1>1, <1>2, <2>1
    <3>2. i \in 0 .. Len(s)  BY <1>1
    <3> QED  BY <3>1, <3>2 DEF Round
  <2>2. CASE i > k - 1
    <3>1. i \in k .. n /\ i + 1 \in k .. n /\ i + 1 \in 0 .. Len(s)
      BY <1>1, <2>2
    <3>2. Cell(h, u, i) = Cell(h, s, i + 1) /\ Cell(h, u, i + 1) = Cell(h, s, (i + 1) + 1)
      BY <1>2, <3>1
    <3> QED  BY <3>1, <3>2 DEF Round
  <2> QED  BY <1>1, <2>1, <2>2
<1>4. Once(u)
  <2> SUFFICES ASSUME NEW i \in 1 .. Len(u), NEW j \in 1 .. Len(u), u[i] = u[j]
               PROVE  i = j
    BY DEF Once
  <2> DEFINE at(x) == IF x < k THEN x ELSE x + 1
  <2>1. ASSUME NEW x \in 1 .. Len(u)
        PROVE  at(x) \in 1 .. Len(s) /\ u[x] = s[at(x)]
    <3>1. CASE x < k
      <4>1. x \in 1 .. (k - 1) /\ x \in 1 .. Len(s)  BY <1>1, <3>1
      <4> QED  BY <3>1, <4>1 DEF Removed
    <3>2. CASE ~ (x < k)
      <4>1. x \in k .. Len(u) /\ x + 1 \in 1 .. Len(s)  BY <1>1, <3>2
      <4> QED  BY <3>2, <4>1 DEF Removed
    <3> QED  BY <3>1, <3>2
  <2>2. at(i) = at(j)  BY <2>1 DEF Once
  <2> QED  BY <1>1, <2>2
<1>5. \A i \in 1 .. Len(u) : u[i] # s[k] /\ \E j \in 1 .. Len(s) : u[i] = s[j]
  <2> SUFFICES ASSUME NEW i \in 1 .. Len(u)
               PROVE  u[i] # s[k] /\ \E j \in 1 .. Len(s) : u[i] = s[j]
    OBVIOUS
  <2> DEFINE at == IF i < k THEN i ELSE i + 1
  <2>1. at \in 1 .. Len(s) /\ at # k /\ u[i] = s[at]
    BY <1>1 DEF Removed
  <2> HIDE DEF at
  <2> QED  BY <2>1 DEF Once
<1>6. Cell(h, u, k - 1) = l[s[k]].prev /\ Cell(h, u, k) = l[s[k]].next
  <2>1. /\ k - 1 \in 0 .. Len(s) /\ k \in 0 .. Len(s) /\ (k - 1) + 1 = k
        /\ k - 1 \in 0 .. (k - 1) /\ k \in k .. n
    BY <1>1
  <2>2. Cell(h, s, k) = s[k]  BY <1>1 DEF Cell
  <2>3. Tied(l, Cell(h, s, k - 1), s[k]) /\ Tied(l, s[k], Cell(h, s, k + 1))
    BY <2>1, <2>2 DEF Round
  <2> QED  BY <1>2, <2>1, <2>3 DEF Tied
<1>7. Within(u, s)  BY <1>5 DEF Within
<1> QED  BY <1>1, <1>3, <1>4, <1>5, <1>6, <1>7

\* list_del and list_del_init close the ring.
LEMMA RemoveRound ==
    ASSUME NEW l, NEW m, NEW h \in Heads, NEW s \in Seq(Elems), NEW u \in Seq(Elems),
           NEW k \in 1 .. Len(s), Once(s), Round(l, h, s), Removed(s, k, u),
           Unlinked(l, m, s[k])
    PROVE  Round(m, h, u)
<1> DEFINE old == s[k]
           x == Cell(h, u, k - 1)
           y == Cell(h, u, k)
<1>1. /\ Open(l, h, u, k - 1) /\ Once(u) /\ k - 1 \in 0 .. Len(u)
      /\ \A i \in 1 .. Len(u) : u[i] # old
      /\ x = l[old].prev /\ y = l[old].next
  BY RemoveOpen
<1>2. Len(u) \in Nat /\ k \in Int /\ old \in Elems  OBVIOUS
<1>3. /\ \A i \in 0 .. (Len(u) + 1) : Cell(h, u, i) \in Lists!Cells
      /\ \A i, j \in 0 .. Len(u) : Cell(h, u, i) = Cell(h, u, j) => i = j
      /\ \A i, j \in 1 .. (Len(u) + 1) : Cell(h, u, i) = Cell(h, u, j) => i = j
  BY <1>1, CellOnce
<1>4. \A i \in 0 .. (Len(u) + 1) : Cell(h, u, i) # old  BY <1>1, <1>2, NoCell
<1>5. \A c \in Lists!Cells : c # old =>
         /\ m[c].next = IF c = x THEN y ELSE l[c].next
         /\ m[c].prev = IF c = y THEN x ELSE l[c].prev
  BY <1>1 DEF Unlinked
<1>6. ASSUME NEW i \in 0 .. Len(u) PROVE Tied(m, Cell(h, u, i), Cell(h, u, i + 1))
  <2> DEFINE a == Cell(h, u, i)
             b == Cell(h, u, i + 1)
  <2>1. /\ i \in 0 .. (Len(u) + 1) /\ i + 1 \in 0 .. (Len(u) + 1)
        /\ i + 1 \in 1 .. (Len(u) + 1) /\ k \in 1 .. (Len(u) + 1)
    BY <1>1, <1>2
  <2>2. a \in Lists!Cells /\ b \in Lists!Cells /\ a # old /\ b # old
    BY <1>3, <1>4, <2>1
  <2>3. CASE i = k - 1
    <3>1. a = x /\ b = y  BY <1>2, <2>3
    <3> HIDE DEF a, b, x, y
    <3>2. Tied(m, a, b)  BY <1>5, <2>2, <3>1 DEF Tied
    <3> QED  BY <3>2 DEF a, b
  <2>4. CASE i # k - 1
    <3>1. a # x  BY <1>1, <1>3, <2>4
    <3>2. i + 1 # k  BY <1>2, <2>4
    <3>3. b # y  BY <1>3, <2>1, <3>2
    <3>4. Tied(l, a, b)  BY <1>1, <2>4 DEF Open
    <3> HIDE DEF a, b, x, y
    <3>5. Tied(m, a, b)  BY <1>5, <2>2, <3>1, <3>3, <3>4 DEF Tied
    <3> QED  BY <3>5 DEF a, b
  <2> QED  BY <2>3, <2>4
<1> QED  BY <1>6 DEF Round

\* A ring none of whose cells changes stays one.
LEMMA FrameRound ==
    ASSUME NEW l, NEW m, NEW h \in Heads, NEW s \in Seq(Elems), Round(l, h, s),
           m[h] = l[h], \A k \in 1 .. Len(s) : m[s[k]] = l[s[k]]
    PROVE  Round(m, h, s)
<1>1. Len(s) \in Nat  OBVIOUS
<1>2. \A k \in 0 .. (Len(s) + 1) : m[Cell(h, s, k)] = l[Cell(h, s, k)]
  BY <1>1 DEF Cell
<1>3. ASSUME NEW k \in 0 .. Len(s) PROVE Tied(m, Cell(h, s, k), Cell(h, s, k + 1))
  <2>1. k \in 0 .. (Len(s) + 1) /\ k + 1 \in 0 .. (Len(s) + 1)  BY <1>1
  <2>2. Tied(l, Cell(h, s, k), Cell(h, s, k + 1))  BY DEF Round
  <2> QED  BY <1>2, <2>1, <2>2 DEF Tied
<1> QED  BY <1>3 DEF Round

-----------------------------------------------------------------------------
(* Whole lists                                                              *)

\* e is in no list.
Outside(lst, e) == \A g \in Heads : \A k \in 1 .. Len(lst[g]) : lst[g][k] # e

\* The cells of every other list than h's are the same in l and m.
Untouched(l, m, lst, h) ==
    \A g \in Heads : g # h =>
        /\ m[g] = l[g]
        /\ \A k \in 1 .. Len(lst[g]) : m[lst[g][k]] = l[lst[g][k]]

\* A call on one list: it makes a ring of it and leaves the others alone.
LEMMA OneList ==
    ASSUME NEW l, NEW m \in Links, NEW lst, NEW sl, Whole(l, lst, sl),
           NEW h \in Heads, h \notin sl, NEW u \in Seq(Elems), Once(u),
           \A g \in Heads : g # h => Apart(lst[g], u),
           Round(m, h, u), Untouched(l, m, lst, h)
    PROVE  Whole(m, [lst EXCEPT ![h] = u], sl)
<1> DEFINE new == [lst EXCEPT ![h] = u]
<1>1. /\ lst \in [Heads -> Seq(Elems)] /\ sl \subseteq Heads
      /\ \A g \in Heads : Once(lst[g])
      /\ \A f, g \in Heads : f # g => Apart(lst[f], lst[g])
      /\ \A g \in sl : lst[g] = <<>>
      /\ \A g \in Heads \ sl : Round(l, g, lst[g])
  BY DEF Whole, Placed
<1>2. new \in [Heads -> Seq(Elems)] /\ new[h] = u /\ \A g \in Heads : g # h => new[g] = lst[g]
  BY <1>1
<1> HIDE DEF new
<1>3. \A g \in Heads : g # h => Apart(u, lst[g])  BY DEF Apart
<1>4. \A f, g \in Heads : f # g => Apart(new[f], new[g])  BY <1>1, <1>2, <1>3
<1>5. \A g \in Heads : Once(new[g])  BY <1>1, <1>2
<1>6. \A g \in sl : new[g] = <<>>  BY <1>1, <1>2
<1>7. ASSUME NEW g \in Heads \ sl, g # h PROVE Round(m, g, lst[g])
  <2>1. lst[g] \in Seq(Elems) /\ Round(l, g, lst[g])  BY <1>1
  <2>2. m[g] = l[g] /\ \A k \in 1 .. Len(lst[g]) : m[lst[g][k]] = l[lst[g][k]]
    BY <1>7 DEF Untouched
  <2> QED  BY <2>1, <2>2, FrameRound
<1>8. \A g \in Heads \ sl : Round(m, g, new[g])  BY <1>2, <1>7
<1> QED  BY <1>1, <1>2, <1>4, <1>5, <1>6, <1>8 DEF Whole, Placed, new

\* The elements of a list that another was put into.
LEMMA InsertedFacts ==
    ASSUME NEW s \in Seq(Elems), NEW t \in Seq(Elems), NEW u \in Seq(Elems),
           NEW k \in 0 .. Len(s), Inserted(s, k, t, u), Once(s), Once(t), Apart(s, t)
    PROVE  /\ Once(u)
           /\ \A j \in 1 .. Len(u) : \/ \E i \in 1 .. Len(s) : u[j] = s[i]
                                     \/ \E i \in 1 .. Len(t) : u[j] = t[i]
<1> DEFINE n == Len(s)
           q == Len(t)
<1>1. n \in Nat /\ q \in Nat /\ Len(u) = n + q /\ k \in Int /\ k >= 0 /\ k <= n
  BY DEF Inserted
<1>2. ASSUME NEW j \in 1 .. Len(u)
      PROVE  /\ j <= k => j \in 1 .. n /\ u[j] = s[j]
             /\ j > k /\ j <= k + q => j - k \in 1 .. q /\ u[j] = t[j - k]
             /\ j > k + q => j - q \in (k + 1) .. n /\ j - q \in 1 .. n /\ u[j] = s[j - q]
  <2>1. CASE j <= k
    <3>1. j \in 1 .. k /\ j \in 1 .. n  BY <1>1, <2>1
    <3> QED  BY <1>1, <2>1, <3>1 DEF Inserted
  <2>2. CASE j > k /\ j <= k + q
    <3>1. j - k \in 1 .. q /\ k + (j - k) = j  BY <1>1, <2>2
    <3>2. u[j] = t[j - k]  BY <3>1 DEF Inserted
    <3> QED  BY <1>1, <2>2, <3>1, <3>2
  <2>3. CASE j > k + q
    <3>1. j - q \in (k + 1) .. n /\ q + (j - q) = j /\ j - q \in 1 .. n  BY <1>1, <2>3
    <3>2. u[j] = s[j - q]  BY <3>1 DEF Inserted
    <3> QED  BY <1>1, <2>3, <3>1, <3>2
  <2> QED  BY <1>1, <2>1, <2>2, <2>3
<1>3. ASSUME NEW i \in 1 .. Len(u), NEW j \in 1 .. Len(u), u[i] = u[j]
      PROVE  i = j
  <2>1. /\ i <= k => i \in 1 .. n /\ u[i] = s[i]
        /\ i > k /\ i <= k + q => i - k \in 1 .. q /\ u[i] = t[i - k]
        /\ i > k + q => i - q \in (k + 1) .. n /\ i - q \in 1 .. n /\ u[i] = s[i - q]
    BY <1>2
  <2>2. /\ j <= k => j \in 1 .. n /\ u[j] = s[j]
        /\ j > k /\ j <= k + q => j - k \in 1 .. q /\ u[j] = t[j - k]
        /\ j > k + q => j - q \in (k + 1) .. n /\ j - q \in 1 .. n /\ u[j] = s[j - q]
    BY <1>2
  <2>3. \A a, b \in 1 .. n : s[a] = s[b] => a = b  BY DEF Once
  <2>4. \A a, b \in 1 .. q : t[a] = t[b] => a = b  BY DEF Once
  <2>5. \A a \in 1 .. n, b \in 1 .. q : s[a] # t[b]  BY DEF Apart
  <2>6. CASE i <= k  BY <1>1, <1>3, <2>1, <2>2, <2>3, <2>5, <2>6
  <2>0. i \in Int /\ j \in Int /\ k \in Int /\ q \in Int  BY <1>1
  <2>7. CASE i > k /\ i <= k + q
    <3>1. i - k \in 1 .. q /\ u[i] = t[i - k]  BY <2>1, <2>7
    <3>2. CASE j <= k  BY <1>3, <2>2, <2>5, <3>1, <3>2
    <3>3. CASE j > k /\ j <= k + q
      <4>1. j - k \in 1 .. q /\ u[j] = t[j - k]  BY <2>2, <3>3
      <4>2. i - k = j - k
        <5> HIDE DEF q
        <5> QED  BY <1>3, <2>4, <3>1, <4>1
      <4> QED  BY <2>0, <4>2
    <3>4. CASE j > k + q
      <4>1. j - q \in 1 .. n /\ u[j] = s[j - q]  BY <2>2, <3>4
      <4> HIDE DEF n, q
      <4> QED  BY <1>3, <2>5, <3>1, <4>1
    <3> QED  BY <2>0, <3>2, <3>3, <3>4
  <2>8. CASE i > k + q
    <3>1. i - q \in (k + 1) .. n /\ i - q \in 1 .. n /\ u[i] = s[i - q]  BY <2>1, <2>8
    <3>2. CASE j <= k
      <4>1. j \in 1 .. n /\ u[j] = s[j]  BY <2>2, <3>2
      <4>2. i - q = j
        <5> HIDE DEF n, q
        <5> QED  BY <1>3, <2>3, <3>1, <4>1
      <4> QED  BY <2>0, <3>1, <3>2, <4>2
    <3>3. CASE j > k /\ j <= k + q
      <4>1. j - k \in 1 .. q /\ u[j] = t[j - k]  BY <2>2, <3>3
      <4> HIDE DEF n, q
      <4> QED  BY <1>3, <2>5, <3>1, <4>1
    <3>4. CASE j > k + q
      <4>1. j - q \in 1 .. n /\ u[j] = s[j - q]  BY <2>2, <3>4
      <4>2. i - q = j - q
        <5> HIDE DEF n, q
        <5> QED  BY <1>3, <2>3, <3>1, <4>1
      <4> QED  BY <2>0, <4>2
    <3> QED  BY <2>0, <3>2, <3>3, <3>4
  <2> QED  BY <2>0, <2>6, <2>7, <2>8
<1>4. Once(u)  BY <1>3 DEF Once
<1>5. ASSUME NEW j \in 1 .. Len(u)
      PROVE  \/ \E i \in 1 .. Len(s) : u[j] = s[i]
             \/ \E i \in 1 .. Len(t) : u[j] = t[i]
  <2>1. CASE j <= k  BY <1>2, <2>1
  <2>2. CASE j > k /\ j <= k + q
    <3>1. j - k \in 1 .. q /\ u[j] = t[j - k]  BY <1>2, <2>2
    <3> HIDE DEF q
    <3>2. \E i \in 1 .. q : u[j] = t[i]  BY <3>1
    <3> QED  BY <3>2 DEF q
  <2>3. CASE j > k + q
    <3>1. j - q \in 1 .. n /\ u[j] = s[j - q]  BY <1>2, <2>3
    <3> HIDE DEF n, q
    <3>2. \E i \in 1 .. n : u[j] = s[i]  BY <3>1
    <3> QED  BY <3>2 DEF n
  <2> QED  BY <1>1, <2>1, <2>2, <2>3
<1> QED  BY <1>4, <1>5

\* A cell whose two pointers are the same is the same.
LEMMA SameCell ==
    ASSUME NEW l \in Links, NEW m \in Links, NEW c \in Lists!Cells,
           m[c].next = l[c].next, m[c].prev = l[c].prev
    PROVE  m[c] = l[c]
BY DEF Links

LEMMA JoinedElsewhere ==
    ASSUME NEW l \in Links, NEW m, NEW x, NEW a, NEW b, NEW y, Joined(l, m, x, a, b, y),
           NEW c \in Lists!Cells, c \notin {x, a, b, y}
    PROVE  m[c] = l[c]
<1>1. m \in Links /\ m[c].next = l[c].next /\ m[c].prev = l[c].prev  BY DEF Joined
<1> QED  BY <1>1, SameCell

\* An element put into a list.
LEMMA InsertWhole ==
    ASSUME NEW l, NEW lst, NEW sl, Whole(l, lst, sl), NEW h \in Heads, h \notin sl,
           NEW e \in Elems, Outside(lst, e), NEW k \in 0 .. Len(lst[h]),
           NEW u \in Seq(Elems), Inserted(lst[h], k, <<e>>, u), NEW x, NEW y,
           x = Cell(h, lst[h], k), y = Cell(h, lst[h], k + 1)
    PROVE  Whole(Lists!Join(l, x, e, e, y), [lst EXCEPT ![h] = u], sl)
<1> DEFINE s == lst[h]
           m == Lists!Join(l, x, e, e, y)
<1>1. /\ l \in Links /\ lst \in [Heads -> Seq(Elems)] /\ s \in Seq(Elems)
      /\ Once(s) /\ Round(l, h, s) /\ \A g \in Heads : g # h => Apart(lst[g], s)
  BY DEF Whole, Placed
<1>2. Len(s) \in Nat /\ k + 1 \in 0 .. (Len(s) + 1) /\ k \in 0 .. (Len(s) + 1)
  BY <1>1
<1>3. x \in Lists!Cells /\ y \in Lists!Cells /\ e \in Lists!Cells
  BY <1>1, <1>2, CellOnce DEF Lists!Cells
<1>4. Joined(l, m, x, e, e, y)  BY <1>1, <1>3, JoinLinks
<1>5. m \in Links  BY <1>4 DEF Joined
<1>6. /\ <<e>> \in Seq(Elems) /\ Len(<<e>>) = 1 /\ <<e>>[1] = e
      /\ Once(<<e>>) /\ Chain(l, <<e>>)
  BY DEF Once, Chain
<1>7. Apart(s, <<e>>)  BY <1>6 DEF Outside, Apart
<1>8. Open(l, h, s, k)  BY <1>1 DEF Round, Open
<1>9. Round(m, h, u)
  <2>1. Joined(l, m, Cell(h, s, k), <<e>>[1], <<e>>[Len(<<e>>)], Cell(h, s, k + 1))
    BY <1>4, <1>6
  <2>2. Len(<<e>>) > 0  BY <1>6
  <2> HIDE DEF m, s
  <2> QED  BY <1>1, <1>6, <1>7, <1>8, <2>1, <2>2, InsertRound DEF s
<1>10. Once(u) /\ \A g \in Heads : g # h => Apart(lst[g], u)
  <2>1. /\ Once(u)
        /\ \A j \in 1 .. Len(u) : \/ \E i \in 1 .. Len(s) : u[j] = s[i]
                                  \/ \E i \in 1 .. Len(<<e>>) : u[j] = <<e>>[i]
    BY <1>1, <1>6, <1>7, InsertedFacts
  <2>2. \A j \in 1 .. Len(u) : u[j] = e \/ \E i \in 1 .. Len(s) : u[j] = s[i]
    BY <1>6, <2>1
  <2> QED  BY <1>1, <2>1, <2>2 DEF Apart, Outside
<1>11. Untouched(l, m, lst, h)
  <2>1. ASSUME NEW c \in Lists!Cells, c # e, c # h, \A j \in 1 .. Len(s) : c # s[j]
        PROVE  m[c] = l[c]
    <3>1. c # x /\ c # y  BY <1>2, <2>1 DEF Cell
    <3> QED  BY <1>1, <1>4, <2>1, <3>1, JoinedElsewhere
  <2>2. ASSUME NEW g \in Heads, g # h PROVE m[g] = l[g]
    <3>1. g \in Lists!Cells /\ g # e /\ \A j \in 1 .. Len(s) : g # s[j]
      BY <1>1, CellsAssumption DEF Lists!Cells
    <3> QED  BY <2>1, <2>2, <3>1
  <2>3. ASSUME NEW g \in Heads, g # h, NEW j \in 1 .. Len(lst[g])
        PROVE  m[lst[g][j]] = l[lst[g][j]]
    <3>1. lst[g][j] \in Elems  BY <1>1
    <3>2. lst[g][j] # e /\ \A i \in 1 .. Len(s) : lst[g][j] # s[i]
      BY <1>1, <2>3 DEF Outside, Apart
    <3> QED  BY <2>1, <3>1, <3>2, CellsAssumption DEF Lists!Cells
  <2> QED  BY <2>2, <2>3 DEF Untouched
<1> HIDE DEF m, s
<1> QED  BY <1>5, <1>9, <1>10, <1>11, OneList DEF m

\* An element taken out of a list.
LEMMA RemoveWhole ==
    ASSUME NEW l, NEW m, NEW lst, NEW sl, Whole(l, lst, sl), NEW h \in Heads, h \notin sl,
           NEW k \in 1 .. Len(lst[h]), NEW u \in Seq(Elems), Removed(lst[h], k, u),
           Unlinked(l, m, lst[h][k])
    PROVE  /\ Whole(m, [lst EXCEPT ![h] = u], sl)
           /\ Outside([lst EXCEPT ![h] = u], lst[h][k])
<1> DEFINE s == lst[h]
           old == s[k]
           new == [lst EXCEPT ![h] = u]
<1>1. /\ l \in Links /\ lst \in [Heads -> Seq(Elems)] /\ s \in Seq(Elems)
      /\ Once(s) /\ Round(l, h, s) /\ \A g \in Heads : g # h => Apart(lst[g], s)
  BY DEF Whole, Placed
<1>2. m \in Links /\ old \in Elems  BY <1>1 DEF Unlinked
<1>3. /\ k - 1 \in 0 .. Len(u) /\ Once(u)
      /\ Within(u, s) /\ \A i \in 1 .. Len(u) : u[i] # old
      /\ Cell(h, u, k - 1) = l[old].prev /\ Cell(h, u, k) = l[old].next
  <2>1. k \in 1 .. Len(s) /\ Removed(s, k, u)  OBVIOUS
  <2> HIDE DEF s
  <2>2. /\ k - 1 \in 0 .. Len(u) /\ Once(u)
        /\ Within(u, s) /\ \A i \in 1 .. Len(u) : u[i] # s[k]
        /\ Cell(h, u, k - 1) = l[s[k]].prev /\ Cell(h, u, k) = l[s[k]].next
    BY <1>1, <2>1, RemoveOpen
  <2> QED  BY <2>2
<1>4. Round(m, h, u)  BY <1>1, RemoveRound
<1>5. \A g \in Heads : g # h => Apart(lst[g], u)  BY <1>1, <1>3, WithinApart
<1>6. ASSUME NEW c \in Lists!Cells, c # h, \A j \in 1 .. Len(s) : c # s[j]
      PROVE  m[c] = l[c]
  <2>0. Len(u) \in Nat  OBVIOUS
  <2>6. \A j \in 1 .. Len(u) : c # u[j]  BY <1>3, <1>6, WithinOut
  <2>1. \A j \in 0 .. (Len(u) + 1) : c # Cell(h, u, j)  BY <1>6, <2>0, <2>6 DEF Cell
  <2>2. k - 1 \in 0 .. (Len(u) + 1) /\ k \in 0 .. (Len(u) + 1)  BY <1>3, <2>0
  <2>3. c # l[old].prev /\ c # l[old].next  BY <1>3, <2>1, <2>2
  <2>4. c # old  BY <1>6
  <2>5. m[c].next = l[c].next /\ m[c].prev = l[c].prev  BY <2>3, <2>4 DEF Unlinked
  <2> QED  BY <1>1, <1>2, <2>5, SameCell
<1>7. Untouched(l, m, lst, h)
  <2>1. ASSUME NEW g \in Heads, g # h PROVE m[g] = l[g]
    <3>1. g \in Lists!Cells /\ \A j \in 1 .. Len(s) : g # s[j]
      BY <1>1, CellsAssumption DEF Lists!Cells
    <3> QED  BY <1>6, <2>1, <3>1
  <2>2. ASSUME NEW g \in Heads, g # h, NEW j \in 1 .. Len(lst[g])
        PROVE  m[lst[g][j]] = l[lst[g][j]]
    <3>1. lst[g][j] \in Elems  BY <1>1
    <3>2. \A i \in 1 .. Len(s) : lst[g][j] # s[i]  BY <1>1, <2>2 DEF Apart
    <3> QED  BY <1>6, <3>1, <3>2, CellsAssumption DEF Lists!Cells
  <2> QED  BY <2>1, <2>2 DEF Untouched
<1>8. Whole(m, new, sl)
  <2> HIDE DEF s, old
  <2> QED  BY <1>2, <1>3, <1>4, <1>5, <1>7, OneList
<1>9. Outside(new, old)
  <2>1. new[h] = u /\ \A g \in Heads : g # h => new[g] = lst[g]  BY <1>1
  <2>2. ASSUME NEW g \in Heads, NEW j \in 1 .. Len(new[g]) PROVE new[g][j] # old
    <3> HIDE DEF new
    <3>1. CASE g = h  BY <1>3, <2>1, <2>2, <3>1
    <3>2. CASE g # h  BY <1>1, <2>1, <2>2, <3>2 DEF Apart
    <3> QED  BY <3>1, <3>2
  <2> HIDE DEF new
  <2> QED  BY <2>2 DEF Outside
<1> QED  BY <1>8, <1>9

-----------------------------------------------------------------------------
(* The calls, on values                                                     *)

\* What the caller's view says in terms of positions.
LEMMA Positions ==
    ASSUME NEW s \in Seq(Elems), NEW t \in Seq(Elems)
    PROVE  /\ t \o s \in Seq(Elems) /\ Inserted(s, 0, t, t \o s)
           /\ s \o t \in Seq(Elems) /\ Inserted(s, Len(s), t, s \o t)
           /\ \A e \in Elems : /\ Append(s, e) \in Seq(Elems)
                               /\ Inserted(s, Len(s), <<e>>, Append(s, e))
           /\ \A k \in 1 .. Len(s) : /\ Lists!RemoveAt(s, k) \in Seq(Elems)
                                     /\ Removed(s, k, Lists!RemoveAt(s, k))
           /\ s # <<>> => Tail(s) \in Seq(Elems) /\ Removed(s, 1, Tail(s)) /\ Head(s) = s[1]
<1>1. Len(s) \in Nat /\ Len(t) \in Nat  OBVIOUS
<1>2. t \o s \in Seq(Elems) /\ Inserted(s, 0, t, t \o s)  BY <1>1 DEF Inserted
<1>3. s \o t \in Seq(Elems) /\ Inserted(s, Len(s), t, s \o t)  BY <1>1 DEF Inserted
<1>4. ASSUME NEW e \in Elems
      PROVE  Append(s, e) \in Seq(Elems) /\ Inserted(s, Len(s), <<e>>, Append(s, e))
  BY <1>1 DEF Inserted
<1>5. ASSUME NEW k \in 1 .. Len(s)
      PROVE  /\ Lists!RemoveAt(s, k) \in Seq(Elems)
             /\ Removed(s, k, Lists!RemoveAt(s, k))
  <2> DEFINE a == SubSeq(s, 1, k - 1)
             b == SubSeq(s, k + 1, Len(s))
  <2>1. a \in Seq(Elems) /\ Len(a) = k - 1 /\ \A j \in 1 .. (k - 1) : a[j] = s[j]
    BY <1>1
  <2>2. b \in Seq(Elems) /\ Len(b) = Len(s) - k /\ \A j \in 1 .. (Len(s) - k) : b[j] = s[k + j]
    BY <1>1
  <2>3. Lists!RemoveAt(s, k) = a \o b  BY DEF Lists!RemoveAt
  <2> HIDE DEF a, b
  <2>0. a \in Seq(Elems) /\ b \in Seq(Elems)  BY <2>1, <2>2
  <2>4. a \o b \in Seq(Elems) /\ Len(a \o b) = Len(a) + Len(b)  BY <2>0
  <2>5. \A j \in 1 .. (k - 1) : (a \o b)[j] = s[j]  BY <1>1, <2>1, <2>2
  <2>6. ASSUME NEW j \in k .. (Len(s) - 1) PROVE (a \o b)[j] = s[j + 1]
    <3>1. j \in (Len(a) + 1) .. (Len(a) + Len(b))  BY <1>1, <2>1, <2>2
    <3>2. (a \o b)[j] = b[j - Len(a)]  BY <2>1, <2>2, <3>1
    <3>3. j - Len(a) \in 1 .. (Len(s) - k) /\ k + (j - Len(a)) = j + 1  BY <1>1, <2>1
    <3> QED  BY <2>2, <3>2, <3>3
  <2>7. Len(a \o b) = Len(s) - 1  BY <1>1, <2>1, <2>2, <2>4
  <2> QED  BY <2>3, <2>4, <2>5, <2>6, <2>7 DEF Removed
<1>6. s # <<>> => Tail(s) \in Seq(Elems) /\ Removed(s, 1, Tail(s)) /\ Head(s) = s[1]
  BY <1>1 DEF Removed
<1> QED  BY <1>2, <1>3, <1>4, <1>5, <1>6

\* The parts of the invariant for one list that is in use.
LEMMA OfOne ==
    ASSUME NEW l, NEW lst, NEW sl, Whole(l, lst, sl), NEW h \in Heads, h \notin sl
    PROVE  /\ l \in Links /\ lst \in [Heads -> Seq(Elems)]
           /\ lst[h] \in Seq(Elems) /\ Len(lst[h]) \in Nat
           /\ Once(lst[h]) /\ Round(l, h, lst[h])
           /\ \A g \in Heads : g # h => Apart(lst[g], lst[h])
           /\ Cell(h, lst[h], 0) = h /\ Cell(h, lst[h], Len(lst[h]) + 1) = h
           /\ \A k \in 1 .. Len(lst[h]) : Cell(h, lst[h], k) = lst[h][k] /\ lst[h][k] \in Elems
           /\ \A k \in 0 .. Len(lst[h]) :
                 /\ l[Cell(h, lst[h], k)].next = Cell(h, lst[h], k + 1)
                 /\ l[Cell(h, lst[h], k + 1)].prev = Cell(h, lst[h], k)
                 /\ Cell(h, lst[h], k) \in Lists!Cells /\ Cell(h, lst[h], k + 1) \in Lists!Cells
<1>1. /\ l \in Links /\ lst \in [Heads -> Seq(Elems)]
      /\ lst[h] \in Seq(Elems) /\ Len(lst[h]) \in Nat
      /\ Once(lst[h]) /\ Round(l, h, lst[h])
      /\ \A g \in Heads : g # h => Apart(lst[g], lst[h])
  BY DEF Whole, Placed
<1>2. /\ Cell(h, lst[h], 0) = h /\ Cell(h, lst[h], Len(lst[h]) + 1) = h
      /\ \A k \in 1 .. Len(lst[h]) : Cell(h, lst[h], k) = lst[h][k] /\ lst[h][k] \in Elems
  BY <1>1 DEF Cell
<1>3. ASSUME NEW k \in 0 .. Len(lst[h])
      PROVE  /\ l[Cell(h, lst[h], k)].next = Cell(h, lst[h], k + 1)
             /\ l[Cell(h, lst[h], k + 1)].prev = Cell(h, lst[h], k)
             /\ Cell(h, lst[h], k) \in Lists!Cells /\ Cell(h, lst[h], k + 1) \in Lists!Cells
  <2>1. Tied(l, Cell(h, lst[h], k), Cell(h, lst[h], k + 1))  BY <1>1 DEF Round
  <2>2. k \in 0 .. (Len(lst[h]) + 1) /\ k + 1 \in 0 .. (Len(lst[h]) + 1)  BY <1>1
  <2> QED  BY <1>1, <2>1, <2>2, CellOnce DEF Tied
<1> QED  BY <1>1, <1>2, <1>3

\* list_add and list_add_tail
LEMMA AddCall ==
    ASSUME NEW l, NEW lst, NEW sl, Whole(l, lst, sl), NEW h \in Heads, h \notin sl,
           NEW e \in Elems, Outside(lst, e)
    PROVE  /\ Whole(Lists!ListAdd(l, e, h), [lst EXCEPT ![h] = <<e>> \o @], sl)
           /\ Whole(Lists!ListAddTail(l, e, h), [lst EXCEPT ![h] = Append(@, e)], sl)
<1> DEFINE s == lst[h]
<1>1. /\ s \in Seq(Elems) /\ Len(s) \in Nat /\ Cell(h, s, 0) = h /\ Cell(h, s, Len(s) + 1) = h
      /\ \A k \in 0 .. Len(s) : /\ l[Cell(h, s, k)].next = Cell(h, s, k + 1)
                                /\ l[Cell(h, s, k + 1)].prev = Cell(h, s, k)
  BY OfOne
<1>2. <<e>> \in Seq(Elems) /\ 0 \in 0 .. Len(s) /\ Len(s) \in 0 .. Len(s) /\ 0 + 1 = 1
  BY <1>1
<1>3. /\ <<e>> \o s \in Seq(Elems) /\ Inserted(s, 0, <<e>>, <<e>> \o s)
      /\ Append(s, e) \in Seq(Elems) /\ Inserted(s, Len(s), <<e>>, Append(s, e))
  BY <1>1, <1>2, Positions
<1>4. Cell(h, s, 1) = l[h].next /\ Cell(h, s, Len(s)) = l[h].prev  BY <1>1, <1>2
<1>5. Whole(Lists!Join(l, h, e, e, l[h].next), [lst EXCEPT ![h] = <<e>> \o s], sl)
  <2>1. h = Cell(h, s, 0) /\ l[h].next = Cell(h, s, 0 + 1)  BY <1>1, <1>2, <1>4
  <2> QED  BY <1>2, <1>3, <2>1, InsertWhole
<1>6. Whole(Lists!Join(l, l[h].prev, e, e, h), [lst EXCEPT ![h] = Append(s, e)], sl)
  <2>1. l[h].prev = Cell(h, s, Len(s)) /\ h = Cell(h, s, Len(s) + 1)  BY <1>1, <1>4
  <2> QED  BY <1>2, <1>3, <2>1, InsertWhole
<1> QED  BY <1>5, <1>6 DEF Lists!ListAdd, Lists!ListAddTail

\* list_del and list_del_init, whatever sequence says what is left
LEMMA DelCall ==
    ASSUME NEW l, NEW lst, NEW sl, Whole(l, lst, sl), NEW h \in Heads, h \notin sl,
           NEW k \in 1 .. Len(lst[h]), NEW u \in Seq(Elems), Removed(lst[h], k, u)
    PROVE  /\ Whole(Lists!ListDel(l, lst[h][k]), [lst EXCEPT ![h] = u], sl)
           /\ Whole(Lists!ListDelInit(l, lst[h][k]), [lst EXCEPT ![h] = u], sl)
           /\ Outside([lst EXCEPT ![h] = u], lst[h][k]) /\ lst[h][k] \in Elems
<1> DEFINE s == lst[h]
           old == s[k]
<1>1. /\ l \in Links /\ s \in Seq(Elems) /\ Len(s) \in Nat
      /\ \A j \in 1 .. Len(s) : Cell(h, s, j) = s[j] /\ s[j] \in Elems
      /\ \A j \in 0 .. Len(s) :
            /\ l[Cell(h, s, j)].next = Cell(h, s, j + 1)
            /\ l[Cell(h, s, j + 1)].prev = Cell(h, s, j)
            /\ Cell(h, s, j) \in Lists!Cells /\ Cell(h, s, j + 1) \in Lists!Cells
  BY OfOne
<1>2. k \in 0 .. Len(s) /\ k - 1 \in 0 .. Len(s) /\ (k - 1) + 1 = k  BY <1>1
<1>3. Cell(h, s, k) = old /\ old \in Elems  BY <1>1
<1>4. l[old].next \in Lists!Cells  BY <1>1, <1>2, <1>3
<1>5. l[old].prev \in Lists!Cells
  <2>1. l[Cell(h, s, (k - 1) + 1)].prev = Cell(h, s, k - 1) /\ Cell(h, s, k - 1) \in Lists!Cells
    BY <1>1, <1>2
  <2> QED  BY <1>2, <1>3, <2>1
<1>6. old \in Lists!Cells  BY <1>3 DEF Lists!Cells
<1>7. Unlinked(l, Lists!ListDel(l, old), old) /\ Unlinked(l, Lists!ListDelInit(l, old), old)
  BY <1>1, <1>4, <1>5, <1>6, DelLinks
<1> QED  BY <1>3, <1>7, RemoveWhole

\* list_move and list_move_tail
LEMMA MoveCall ==
    ASSUME NEW l, NEW lst, NEW sl, Whole(l, lst, sl), NEW g \in Heads, g \notin sl,
           NEW h \in Heads, h \notin sl, NEW k \in 1 .. Len(lst[g]),
           NEW u \in Seq(Elems), Removed(lst[g], k, u), NEW left, left = [lst EXCEPT ![g] = u],
           NEW e, e = lst[g][k]
    PROVE  /\ Whole(Lists!ListMove(l, e, h), [left EXCEPT ![h] = <<e>> \o @], sl)
           /\ Whole(Lists!ListMoveTail(l, e, h), [left EXCEPT ![h] = Append(@, e)], sl)
<1>1. Whole(Lists!ListDel(l, e), left, sl) /\ Outside(left, e) /\ e \in Elems
  BY DelCall
<1> QED  BY <1>1, AddCall DEF Lists!ListMove, Lists!ListMoveTail

\* list_rotate_left
LEMMA RotateCall ==
    ASSUME NEW l, NEW lst, NEW sl, Whole(l, lst, sl), NEW h \in Heads, h \notin sl
    PROVE  Whole(Lists!RotateLeft(l, h),
                 [lst EXCEPT ![h] = IF @ = <<>> THEN @ ELSE Append(Tail(@), Head(@))], sl)
<1> DEFINE s == lst[h]
<1>1. /\ lst \in [Heads -> Seq(Elems)] /\ s \in Seq(Elems) /\ Len(s) \in Nat
      /\ Cell(h, s, 0) = h /\ Cell(h, s, Len(s) + 1) = h
      /\ \A k \in 1 .. Len(s) : Cell(h, s, k) = s[k] /\ s[k] \in Elems
      /\ l[Cell(h, s, 0)].next = Cell(h, s, 0 + 1)
  <2>1. 0 \in 0 .. Len(lst[h])  BY OfOne
  <2> QED  BY <2>1, OfOne
<1>2. l[h].next = Cell(h, s, 1)  BY <1>1
<1>3. CASE s = <<>>
  <2>1. Cell(h, s, 1) = h  BY <1>3 DEF Cell
  <2>2. Lists!RotateLeft(l, h) = l  BY <1>2, <2>1 DEF Lists!RotateLeft, Lists!ListEmpty
  <2>3. [lst EXCEPT ![h] = IF @ = <<>> THEN @ ELSE Append(Tail(@), Head(@))] = lst
    BY <1>1, <1>3
  <2> QED  BY <2>2, <2>3
<1>4. CASE s # <<>>
  <2>1. 1 \in 1 .. Len(s)  BY <1>1, <1>4
  <2>2. l[h].next = s[1] /\ s[1] # h  BY <1>1, <1>2, <2>1, CellsAssumption
  <2>3. Lists!RotateLeft(l, h) = Lists!ListMoveTail(l, s[1], h)
    BY <2>2 DEF Lists!RotateLeft, Lists!ListEmpty
  <2>4. Tail(s) \in Seq(Elems) /\ Removed(s, 1, Tail(s)) /\ Head(s) = s[1]
    BY <1>1, <1>4, Positions
  <2> DEFINE left == [lst EXCEPT ![h] = Tail(s)]
  <2>5. Whole(Lists!ListMoveTail(l, s[1], h), [left EXCEPT ![h] = Append(@, s[1])], sl)
    BY <2>1, <2>4, MoveCall
  <2>6. [left EXCEPT ![h] = Append(@, s[1])]
          = [lst EXCEPT ![h] = IF @ = <<>> THEN @ ELSE Append(Tail(@), Head(@))]
    BY <1>1, <1>4, <2>4
  <2> QED  BY <2>3, <2>5, <2>6
<1> QED  BY <1>3, <1>4

-----------------------------------------------------------------------------
(* Calls that take elements from one head to another                        *)

\* from is stale now, or was initialised.
Left(m, sl, after, from) ==
    after = sl \cup {from} \/ (after = sl /\ m[from] = [next |-> from, prev |-> from])

LEMMA EmptyRound ==
    ASSUME NEW m, NEW h, m[h] = [next |-> h, prev |-> h]
    PROVE  Round(m, h, <<>>)
BY DEF Round, Tied, Cell

LEMMA RoundChain ==
    ASSUME NEW l, NEW h \in Heads, NEW s \in Seq(Elems), Round(l, h, s)
    PROVE  Chain(l, s)
<1> SUFFICES ASSUME NEW j \in 1 .. (Len(s) - 1) PROVE Tied(l, s[j], s[j + 1])
  BY DEF Chain
<1>1. Len(s) \in Nat /\ j \in 0 .. Len(s)  OBVIOUS
<1>2. Cell(h, s, j) = s[j] /\ Cell(h, s, j + 1) = s[j + 1]  BY <1>1 DEF Cell
<1> QED  BY <1>1, <1>2 DEF Round

\* The elements of from were put into h after the k-th, and from was
\* initialised or left.
LEMMA TransferWhole ==
    ASSUME NEW l, NEW lst, NEW sl, Whole(l, lst, sl), NEW from \in Heads, from \notin sl,
           NEW h \in Heads, h \notin sl, from # h, Len(lst[from]) > 0,
           NEW k \in 0 .. Len(lst[h]), NEW u \in Seq(Elems),
           Inserted(lst[h], k, lst[from], u),
           NEW m, Joined(l, m, Cell(h, lst[h], k), lst[from][1], lst[from][Len(lst[from])],
                         Cell(h, lst[h], k + 1)),
           NEW m2 \in Links, \A c \in Lists!Cells : c # from => m2[c] = m[c],
           NEW after, Left(m2, sl, after, from)
    PROVE  Whole(m2, [lst EXCEPT ![h] = u, ![from] = <<>>], after)
<1> DEFINE s == lst[h]
           t == lst[from]
           new == [lst EXCEPT ![h] = u, ![from] = <<>>]
<1>1. /\ l \in Links /\ lst \in [Heads -> Seq(Elems)] /\ sl \subseteq Heads
      /\ \A g \in Heads : Once(lst[g])
      /\ \A f, g \in Heads : f # g => Apart(lst[f], lst[g])
      /\ \A g \in sl : lst[g] = <<>>
      /\ \A g \in Heads \ sl : Round(l, g, lst[g])
  BY DEF Whole, Placed
<1>2. s \in Seq(Elems) /\ t \in Seq(Elems) /\ Once(s) /\ Once(t) /\ Apart(s, t)
      /\ Round(l, h, s) /\ Round(l, from, t)
  BY <1>1
<1>3. Chain(l, t)  BY <1>2, RoundChain
<1>4. Open(l, h, s, k)  BY <1>2 DEF Round, Open
<1>5. Round(m, h, u)
  <2>1. /\ Len(t) > 0 /\ k \in 0 .. Len(s) /\ Inserted(s, k, t, u)
        /\ Joined(l, m, Cell(h, s, k), t[1], t[Len(t)], Cell(h, s, k + 1))
    OBVIOUS
  <2> HIDE DEF s, t
  <2> QED  BY <1>2, <1>3, <1>4, <2>1, InsertRound
<1>6. /\ Once(u)
      /\ \A j \in 1 .. Len(u) : \/ \E i \in 1 .. Len(s) : u[j] = s[i]
                                \/ \E i \in 1 .. Len(t) : u[j] = t[i]
  BY <1>2, InsertedFacts
<1>7. /\ new \in [Heads -> Seq(Elems)] /\ new[h] = u /\ new[from] = <<>>
      /\ \A g \in Heads : g # h /\ g # from => new[g] = lst[g]
  BY <1>1
<1>8. \A g \in Heads : g # h /\ g # from => Apart(lst[g], u) /\ Apart(u, lst[g])
  <2> SUFFICES ASSUME NEW g \in Heads, g # h, g # from,
                      NEW i \in 1 .. Len(lst[g]), NEW j \in 1 .. Len(u)
               PROVE  lst[g][i] # u[j]
    BY DEF Apart
  <2>1. Apart(lst[g], s) /\ Apart(lst[g], t)  BY <1>1
  <2>2. CASE \E a \in 1 .. Len(s) : u[j] = s[a]  BY <2>1, <2>2 DEF Apart
  <2>3. CASE \E a \in 1 .. Len(t) : u[j] = t[a]  BY <2>1, <2>3 DEF Apart
  <2> QED  BY <1>6, <2>2, <2>3
<1>9. \A r : Apart(r, <<>>) /\ Apart(<<>>, r)  BY DEF Apart
<1>10. Once(<<>>)  BY DEF Once
<1> HIDE DEF new
<1>11. \A f, g \in Heads : f # g => Apart(new[f], new[g])
  <2> SUFFICES ASSUME NEW f \in Heads, NEW g \in Heads, f # g PROVE Apart(new[f], new[g])
    OBVIOUS
  <2>1. CASE f = from \/ g = from  BY <1>7, <1>9, <2>1
  <2>2. CASE f # from /\ g # from /\ f = h  BY <1>7, <1>8, <2>2
  <2>3. CASE f # from /\ g # from /\ g = h  BY <1>7, <1>8, <2>3
  <2>4. CASE f # from /\ g # from /\ f # h /\ g # h  BY <1>1, <1>7, <2>4
  <2> QED  BY <2>1, <2>2, <2>3, <2>4
<1>12. \A g \in Heads : Once(new[g])  BY <1>1, <1>6, <1>7, <1>10
<1>13. after \subseteq Heads /\ sl \subseteq after /\ \A g \in after : g = from \/ g \in sl
  BY <1>1 DEF Left
<1>14. \A g \in after : new[g] = <<>>  BY <1>1, <1>7, <1>13
<1>15. Placed(new, after)  BY <1>7, <1>11, <1>12, <1>13, <1>14 DEF Placed
<1>16. ASSUME NEW g \in Heads \ after PROVE Round(m2, g, new[g])
  <2>1. CASE g = h
    <3>1. m2[h] = m[h]  BY DEF Lists!Cells
    <3>2. \A j \in 1 .. Len(u) : m2[u[j]] = m[u[j]]
      <4>1. \A j \in 1 .. Len(u) : u[j] \in Elems  OBVIOUS
      <4> QED  BY <4>1, CellsAssumption DEF Lists!Cells
    <3>3. Round(m2, h, u)  BY <1>5, <3>1, <3>2, FrameRound
    <3> QED  BY <1>7, <2>1, <3>3
  <2>2. CASE g = from
    <3>1. m2[from] = [next |-> from, prev |-> from]  BY <1>16, <2>2 DEF Left
    <3>2. Round(m2, from, <<>>)  BY <3>1, EmptyRound
    <3> QED  BY <1>7, <2>2, <3>2
  <2>3. CASE g # h /\ g # from
    <3>1. lst[g] \in Seq(Elems) /\ Round(l, g, lst[g])  BY <1>1, <1>13
    <3>2. ASSUME NEW c \in Lists!Cells, c # h, c # from,
                 \A j \in 1 .. Len(s) : c # s[j], \A j \in 1 .. Len(t) : c # t[j]
          PROVE  m2[c] = l[c]
      <4>1. c # Cell(h, s, k) /\ c # Cell(h, s, k + 1)
        <5>1. Len(s) \in Nat  BY <1>2
        <5> QED  BY <3>2, <5>1 DEF Cell
      <4>2. c # t[1] /\ c # t[Len(t)]
        <5>1. Len(t) \in Nat /\ Len(t) > 0  BY <1>2
        <5>2. 1 \in 1 .. Len(t) /\ Len(t) \in 1 .. Len(t)  BY <5>1
        <5> QED  BY <3>2, <5>2
      <4>3. m[c] = l[c]  BY <1>1, <4>1, <4>2, JoinedElsewhere
      <4> QED  BY <3>2, <4>3
    <3>3. m2[g] = l[g]
      <4>0. (\A j \in 1 .. Len(s) : s[j] \in Elems) /\ \A j \in 1 .. Len(t) : t[j] \in Elems
        BY <1>2
      <4>1. g \in Lists!Cells /\ (\A j \in 1 .. Len(s) : g # s[j])
              /\ \A j \in 1 .. Len(t) : g # t[j]
        BY <4>0, CellsAssumption DEF Lists!Cells
      <4> QED  BY <2>3, <3>2, <4>1
    <3>4. ASSUME NEW j \in 1 .. Len(lst[g]) PROVE m2[lst[g][j]] = l[lst[g][j]]
      <4>1. lst[g][j] \in Elems  BY <3>1
      <4>2. lst[g][j] \in Lists!Cells /\ lst[g][j] # h /\ lst[g][j] # from
        BY <4>1, CellsAssumption DEF Lists!Cells
      <4>3. Apart(lst[g], s) /\ Apart(lst[g], t)  BY <1>1, <2>3
      <4>4. (\A i \in 1 .. Len(s) : lst[g][j] # s[i]) /\ \A i \in 1 .. Len(t) : lst[g][j] # t[i]
        BY <4>3 DEF Apart
      <4> QED  BY <3>2, <4>2, <4>4
    <3>5. Round(m2, g, lst[g])  BY <3>1, <3>3, <3>4, FrameRound
    <3> QED  BY <1>7, <2>3, <3>5
  <2> QED  BY <2>1, <2>2, <2>3
<1> QED  BY <1>15, <1>16 DEF Whole, new

\* list_replace, of an element or head that is in a ring with others
LEMMA ReplaceLinks ==
    ASSUME NEW l \in Links, NEW old \in Lists!Cells, NEW new \in Lists!Cells, old # new,
           NEW n \in Lists!Cells, NEW p \in Lists!Cells, n = l[old].next, p = l[old].prev,
           n # old, n # new, p # new
    PROVE  /\ Joined(l, Lists!ListReplace(l, old, new), p, new, new, n)
           /\ Joined(l, Lists!ListReplace(l, old, new), new, n, p, new)
<1> DEFINE a == [l EXCEPT ![new].next = n]
           b == [a EXCEPT ![n].prev = new]
           d == [b EXCEPT ![new].prev = p]
           m == [d EXCEPT ![p].next = new]
<1>1. a \in Links /\ \A c \in Lists!Cells : /\ a[c].next = IF c = new THEN n ELSE l[c].next
                                            /\ a[c].prev = l[c].prev
  BY DEF Links
<1>2. b \in Links /\ \A c \in Lists!Cells : /\ b[c].prev = IF c = n THEN new ELSE a[c].prev
                                            /\ b[c].next = a[c].next
  <2> HIDE DEF a
  <2> QED  BY <1>1 DEF Links
<1>3. d \in Links /\ \A c \in Lists!Cells : /\ d[c].prev = IF c = new THEN p ELSE b[c].prev
                                            /\ d[c].next = b[c].next
  <2> HIDE DEF b
  <2> QED  BY <1>2 DEF Links
<1>4. m \in Links /\ \A c \in Lists!Cells : /\ m[c].next = IF c = p THEN new ELSE d[c].next
                                            /\ m[c].prev = d[c].prev
  <2> HIDE DEF d
  <2> QED  BY <1>3 DEF Links
<1> HIDE DEF a, b, d, m
<1>5. a[new].next = n  BY <1>1
<1>6. b[old].prev = p  BY <1>1, <1>2
<1>7. d[new].prev = p  BY <1>3
<1>8. Lists!ListReplace(l, old, new) = m
  BY <1>5, <1>6, <1>7 DEF Lists!ListReplace, a, b, d, m
<1>9. Joined(l, m, p, new, new, n)  BY <1>1, <1>2, <1>3, <1>4 DEF Joined
<1>10. Joined(l, m, new, n, p, new)  BY <1>1, <1>2, <1>3, <1>4 DEF Joined
<1> QED  BY <1>8, <1>9, <1>10

\* list_replace of an empty head
LEMMA ReplaceEmpty ==
    ASSUME NEW l \in Links, NEW old \in Lists!Cells, NEW new \in Lists!Cells, old # new,
           l[old].next = old, l[old].prev = old, NEW m, m = Lists!ListReplace(l, old, new)
    PROVE  /\ m \in Links /\ m[new] = [next |-> new, prev |-> new]
           /\ \A c \in Lists!Cells : c # old /\ c # new => m[c] = l[c]
<1> DEFINE a == [l EXCEPT ![new].next = old]
           b == [a EXCEPT ![old].prev = new]
           d == [b EXCEPT ![new].prev = new]
           z == [d EXCEPT ![new].next = new]
<1>1. a \in Links /\ a[new].next = old /\ \A c \in Lists!Cells : c # new => a[c] = l[c]
  BY DEF Links
<1>2. b \in Links /\ b[old].prev = new /\ \A c \in Lists!Cells : c # old => b[c] = a[c]
  <2> HIDE DEF a
  <2> QED  BY <1>1 DEF Links
<1>3. d \in Links /\ d[new].prev = new /\ \A c \in Lists!Cells : c # new => d[c] = b[c]
  <2> HIDE DEF b
  <2> QED  BY <1>2 DEF Links
<1>4. z \in Links /\ z[new] = [next |-> new, prev |-> new]
        /\ \A c \in Lists!Cells : c # new => z[c] = d[c]
  <2> HIDE DEF d
  <2> QED  BY <1>3 DEF Links
<1> HIDE DEF a, b, d, z
<1>5. m = z
  <2>1. a[new].next = old  BY <1>1
  <2>2. b[old].prev = new  BY <1>2
  <2>3. d[new].prev = new  BY <1>3
  <2> QED  BY <2>1, <2>2, <2>3 DEF Lists!ListReplace, a, b, d, z
<1> QED  BY <1>1, <1>2, <1>3, <1>4, <1>5

\* The neighbours of a cell of a ring, and what list_replace makes of it.
LEMMA ReplacedElem ==
    ASSUME NEW l, NEW lst, NEW sl, Whole(l, lst, sl), NEW h \in Heads, h \notin sl,
           NEW k \in 1 .. Len(lst[h]), NEW new \in Elems, Outside(lst, new)
    PROVE  Lists!ListReplace(l, lst[h][k], new) \in Links
<1> DEFINE s == lst[h]
           old == s[k]
           p == Cell(h, s, k - 1)
           n == Cell(h, s, k + 1)
<1>1. /\ l \in Links /\ s \in Seq(Elems) /\ Len(s) \in Nat /\ Once(s)
      /\ Cell(h, s, k) = old /\ old \in Elems
      /\ \A j \in 0 .. Len(s) :
            /\ l[Cell(h, s, j)].next = Cell(h, s, j + 1)
            /\ l[Cell(h, s, j + 1)].prev = Cell(h, s, j)
            /\ Cell(h, s, j) \in Lists!Cells /\ Cell(h, s, j + 1) \in Lists!Cells
  BY OfOne
<1>2. /\ k \in 0 .. Len(s) /\ k - 1 \in 0 .. Len(s) /\ (k - 1) + 1 = k
      /\ k \in 1 .. (Len(s) + 1) /\ k + 1 \in 1 .. (Len(s) + 1) /\ k # k + 1
      /\ k - 1 \in 0 .. (Len(s) + 1) /\ k + 1 \in 0 .. (Len(s) + 1)
  BY <1>1
<1>3. n = l[old].next /\ n \in Lists!Cells  BY <1>1, <1>2
<1>4. p = l[old].prev /\ p \in Lists!Cells
  <2>1. l[Cell(h, s, (k - 1) + 1)].prev = p /\ p \in Lists!Cells  BY <1>1, <1>2
  <2> QED  BY <1>1, <1>2, <2>1
<1>5. n # old  BY <1>1, <1>2, CellOnce
<1>6. \A j \in 1 .. Len(s) : s[j] # new  BY DEF Outside
<1>7. n # new /\ p # new  BY <1>1, <1>2, <1>6, NoCell
<1>8. old \in Lists!Cells /\ new \in Lists!Cells /\ old # new
  BY <1>1, <1>6 DEF Lists!Cells
<1>9. Joined(l, Lists!ListReplace(l, old, new), p, new, new, n)
  <2> HIDE DEF s, old, p, n
  <2> QED  BY <1>1, <1>3, <1>4, <1>5, <1>7, <1>8, ReplaceLinks
<1> QED  BY <1>9 DEF Joined

LEMMA ReplacedHead ==
    ASSUME NEW l, NEW lst, NEW sl, Whole(l, lst, sl), NEW old \in Heads, old \notin sl,
           NEW new \in Heads, old # new
    PROVE  Lists!ListReplace(l, old, new) \in Links
<1> DEFINE s == lst[old]
           n == Cell(old, s, 0 + 1)
           p == Cell(old, s, Len(s))
<1>1. l \in Links /\ s \in Seq(Elems) /\ Len(s) \in Nat  BY OfOne
<1>2. 0 \in 0 .. Len(s) /\ Len(s) \in 0 .. Len(s)  BY <1>1
<1>3. /\ l[Cell(old, s, 0)].next = n /\ Cell(old, s, 0) = old /\ n \in Lists!Cells
      /\ l[Cell(old, s, Len(s) + 1)].prev = p /\ Cell(old, s, Len(s) + 1) = old
      /\ p \in Lists!Cells
  BY <1>2, OfOne
<1>4. l[old].next = n /\ l[old].prev = p  BY <1>3
<1>5. old \in Lists!Cells /\ new \in Lists!Cells  BY DEF Lists!Cells
<1>6. CASE s = <<>>
  <2>1. n = old /\ p = old  BY <1>6 DEF Cell
  <2> HIDE DEF n, p
  <2> QED  BY <1>1, <1>4, <1>5, <2>1, ReplaceEmpty
<1>7. CASE s # <<>>
  <2>1. 1 \in 1 .. Len(s) /\ Len(s) \in 1 .. Len(s)  BY <1>1, <1>7
  <2>2. n = s[1] /\ p = s[Len(s)] /\ s[1] \in Elems /\ s[Len(s)] \in Elems
    BY <2>1, OfOne
  <2>3. n # old /\ n # new /\ p # new  BY <2>2, CellsAssumption
  <2>4. Joined(l, Lists!ListReplace(l, old, new), p, new, new, n)
    <3> HIDE DEF n, p
    <3> QED  BY <1>1, <1>3, <1>4, <1>5, <2>3, ReplaceLinks
  <2> QED  BY <2>4 DEF Joined
<1> QED  BY <1>6, <1>7

\* An element replaced by one that is in no list; the old one may be
\* initialised.
LEMMA ExchangeWhole ==
    ASSUME NEW l, NEW lst, NEW sl, Whole(l, lst, sl), NEW h \in Heads, h \notin sl,
           NEW k \in 1 .. Len(lst[h]), NEW new \in Elems, Outside(lst, new),
           NEW m, m = Lists!ListReplace(l, lst[h][k], new),
           NEW m2 \in Links, \A c \in Lists!Cells : c # lst[h][k] => m2[c] = m[c]
    PROVE  Whole(m2, [lst EXCEPT ![h][k] = new], sl)
<1> DEFINE s == lst[h]
           old == s[k]
           r == Lists!RemoveAt(s, k)
           u == [s EXCEPT ![k] = new]
           p == Cell(h, r, k - 1)
           n == Cell(h, r, k)
<1>1. /\ l \in Links /\ lst \in [Heads -> Seq(Elems)] /\ s \in Seq(Elems) /\ Len(s) \in Nat
      /\ Once(s) /\ Round(l, h, s) /\ old \in Elems
      /\ \A g \in Heads : g # h => Apart(lst[g], s)
  BY OfOne
<1>2. r \in Seq(Elems) /\ Removed(s, k, r)  BY <1>1, Positions
<1>3. /\ Open(l, h, r, k - 1) /\ Once(r) /\ k - 1 \in 0 .. Len(r)
      /\ Within(r, s) /\ \A i \in 1 .. Len(r) : r[i] # old
      /\ p = l[old].prev /\ n = l[old].next
  <2>1. k \in 1 .. Len(s)  OBVIOUS
  <2> HIDE DEF s, r
  <2> QED  BY <1>1, <1>2, <2>1, RemoveOpen
<1>4. Len(r) \in Nat /\ k - 1 \in 0 .. (Len(r) + 1) /\ k \in 0 .. (Len(r) + 1) /\ (k - 1) + 1 = k
  BY <1>2, <1>3
<1> HIDE DEF r
<1>5. \A i \in 1 .. Len(s) : s[i] # new  BY DEF Outside
<1>6. \A i \in 1 .. Len(r) : r[i] # new
  <2>1. Within(r, s)  BY <1>3
  <2> HIDE DEF s
  <2> QED  BY <1>5, <2>1 DEF Within
<1>7. p # new /\ n # new /\ p # old /\ n # old
  BY <1>1, <1>2, <1>3, <1>4, <1>6, NoCell
<1>8. p \in Lists!Cells /\ n \in Lists!Cells  BY <1>2, <1>3, <1>4, CellOnce
<1>9. old \in Lists!Cells /\ new \in Lists!Cells /\ old # new
  BY <1>1, <1>5 DEF Lists!Cells
<1>10. Joined(l, m, p, new, new, n)
  <2> HIDE DEF p, n
  <2> QED  BY <1>1, <1>3, <1>7, <1>8, <1>9, ReplaceLinks
<1>11. u \in Seq(Elems) /\ Len(u) = Len(s) /\ u[k] = new
         /\ \A i \in 1 .. Len(s) : i # k => u[i] = s[i]
  BY <1>1
<1> HIDE DEF u
<1>12. /\ <<new>> \in Seq(Elems) /\ Len(<<new>>) = 1 /\ <<new>>[1] = new
       /\ Once(<<new>>) /\ Chain(l, <<new>>)
  BY DEF Once, Chain
<1>13. Inserted(r, k - 1, <<new>>, u)
  <2>1. Len(r) = Len(s) - 1 /\ k \in Int  BY <1>2 DEF Removed
  <2>2. Len(u) = Len(r) + Len(<<new>>)  BY <1>1, <1>11, <1>12, <2>1
  <2>3. ASSUME NEW j \in 1 .. (k - 1) PROVE u[j] = r[j]
    <3>1. j \in 1 .. Len(s) /\ j # k  BY <1>1, <2>1
    <3> QED  BY <1>2, <1>11, <3>1 DEF Removed
  <2>4. ASSUME NEW j \in 1 .. Len(<<new>>) PROVE u[(k - 1) + j] = <<new>>[j]
    <3>1. j = 1 /\ (k - 1) + j = k  BY <1>12, <2>1
    <3> QED  BY <1>11, <1>12, <3>1
  <2>5. ASSUME NEW j \in ((k - 1) + 1) .. Len(r) PROVE u[Len(<<new>>) + j] = r[j]
    <3>1. j \in k .. Len(r) /\ Len(<<new>>) + j = j + 1 /\ j + 1 \in 1 .. Len(s) /\ j + 1 # k
      BY <1>1, <1>4, <1>12, <2>1
    <3>2. r[j] = s[j + 1]  BY <1>2, <3>1 DEF Removed
    <3> QED  BY <1>11, <3>1, <3>2
  <2> QED  BY <2>2, <2>3, <2>4, <2>5 DEF Inserted
<1>14. Apart(r, <<new>>)  BY <1>6, <1>12 DEF Apart
<1>15. Round(m, h, u)
  <2>1. Joined(l, m, Cell(h, r, k - 1), <<new>>[1], <<new>>[Len(<<new>>)],
               Cell(h, r, (k - 1) + 1))
    BY <1>4, <1>10, <1>12
  <2>2. Len(<<new>>) > 0  BY <1>12
  <2> HIDE DEF s, p, n
  <2> QED  BY <1>2, <1>3, <1>11, <1>12, <1>13, <1>14, <2>1, <2>2, InsertRound
<1>16. Once(u) /\ \A g \in Heads : g # h => Apart(lst[g], u)
  <2>1. Once(u)  BY <1>1, <1>5, <1>11 DEF Once
  <2>2. ASSUME NEW g \in Heads, g # h, NEW i \in 1 .. Len(lst[g]), NEW j \in 1 .. Len(u)
        PROVE  lst[g][i] # u[j]
    <3>1. Apart(lst[g], s)  BY <1>1, <2>2
    <3>2. CASE j = k  BY <1>11, <3>2 DEF Outside
    <3>3. CASE j # k  BY <1>11, <3>1, <3>3 DEF Apart
    <3> QED  BY <3>2, <3>3
  <2> QED  BY <2>1, <2>2 DEF Apart
<1>17. \A i \in 1 .. Len(u) : u[i] \in Elems /\ u[i] # old
  <2>1. \A i \in 1 .. Len(u) : u[i] \in Elems  BY <1>11
  <2>2. ASSUME NEW i \in 1 .. Len(u) PROVE u[i] # old
    <3>1. CASE i = k  BY <1>9, <1>11, <3>1
    <3>2. CASE i # k  BY <1>1, <1>11, <3>2 DEF Once
    <3> QED  BY <3>1, <3>2
  <2> QED  BY <2>1, <2>2
<1>18. Round(m2, h, u)
  <2>1. h \in Lists!Cells /\ h # old  BY <1>1, CellsAssumption DEF Lists!Cells
  <2>2. m2[h] = m[h]  BY <2>1
  <2>3. \A i \in 1 .. Len(u) : m2[u[i]] = m[u[i]]  BY <1>17 DEF Lists!Cells
  <2> QED  BY <1>11, <1>15, <2>2, <2>3, FrameRound
<1>19. ASSUME NEW c \in Lists!Cells, c # h, c # new, \A j \in 1 .. Len(s) : c # s[j]
       PROVE  m2[c] = l[c]
  <2>1. \A i \in 1 .. Len(r) : c # r[i]
    <3>1. Within(r, s)  BY <1>3
    <3> HIDE DEF s
    <3> QED  BY <1>19, <3>1 DEF Within
  <2>2. c # p /\ c # n  BY <1>4, <1>19, <2>1 DEF Cell
  <2>3. c # old  BY <1>19
  <2>4. m[c] = l[c]
    <3> HIDE DEF p, n
    <3> QED  BY <1>1, <1>10, <1>19, <2>2, JoinedElsewhere
  <2> QED  BY <2>3, <2>4
<1>20. Untouched(l, m2, lst, h)
  <2>1. ASSUME NEW g \in Heads, g # h PROVE m2[g] = l[g]
    <3>1. g \in Lists!Cells /\ g # new /\ \A j \in 1 .. Len(s) : g # s[j]
      BY <1>1, CellsAssumption DEF Lists!Cells
    <3> QED  BY <1>19, <2>1, <3>1
  <2>2. ASSUME NEW g \in Heads, g # h, NEW j \in 1 .. Len(lst[g])
        PROVE  m2[lst[g][j]] = l[lst[g][j]]
    <3>1. lst[g][j] \in Elems /\ lst[g][j] # new  BY <1>1 DEF Outside
    <3>2. \A i \in 1 .. Len(s) : lst[g][j] # s[i]  BY <1>1, <2>2 DEF Apart
    <3> QED  BY <1>19, <3>1, <3>2, CellsAssumption DEF Lists!Cells
  <2> QED  BY <2>1, <2>2 DEF Untouched
<1>21. Whole(m2, [lst EXCEPT ![h] = u], sl)
  <2> HIDE DEF s
  <2> QED  BY <1>11, <1>16, <1>18, <1>20, OneList
<1>22. [lst EXCEPT ![h][k] = new] = [lst EXCEPT ![h] = u]  BY <1>1 DEF u
<1> QED  BY <1>21, <1>22

\* Another head takes a list over; the old head is left or initialised.
LEMMA HeadWhole ==
    ASSUME NEW l, NEW lst, NEW sl, Whole(l, lst, sl), NEW old \in Heads, old \notin sl,
           NEW new \in Heads, old # new, lst[new] = <<>>,
           NEW m, m = Lists!ListReplace(l, old, new),
           NEW m2 \in Links, \A c \in Lists!Cells : c # old => m2[c] = m[c],
           NEW after, Left(m2, sl \ {new}, after, old)
    PROVE  Whole(m2, [lst EXCEPT ![new] = lst[old], ![old] = <<>>], after)
<1> DEFINE s == lst[old]
           lst2 == [lst EXCEPT ![new] = s, ![old] = <<>>]
<1>1. /\ l \in Links /\ lst \in [Heads -> Seq(Elems)] /\ sl \subseteq Heads
      /\ \A g \in Heads : Once(lst[g])
      /\ \A f, g \in Heads : f # g => Apart(lst[f], lst[g])
      /\ \A g \in sl : lst[g] = <<>>
      /\ \A g \in Heads \ sl : Round(l, g, lst[g])
  BY DEF Whole, Placed
<1>2. s \in Seq(Elems) /\ Len(s) \in Nat /\ Once(s) /\ Round(l, old, s)  BY <1>1
<1>3. old \in Lists!Cells /\ new \in Lists!Cells  BY DEF Lists!Cells
<1>4. Round(m2, new, s) /\ \A c \in Lists!Cells :
        c # old /\ c # new /\ (\A j \in 1 .. Len(s) : c # s[j]) => m2[c] = l[c]
  <2>1. CASE s = <<>>
    <3>1. 0 \in 0 .. Len(s) /\ Cell(old, s, 0) = old /\ Cell(old, s, 0 + 1) = old
      BY <2>1 DEF Cell
    <3>2. Tied(l, Cell(old, s, 0), Cell(old, s, 0 + 1))  BY <1>2, <3>1 DEF Round
    <3>3. l[old].next = old /\ l[old].prev = old  BY <3>1, <3>2 DEF Tied
    <3>4. /\ m[new] = [next |-> new, prev |-> new]
          /\ \A c \in Lists!Cells : c # old /\ c # new => m[c] = l[c]
      BY <1>1, <1>3, <3>3, ReplaceEmpty
    <3>5. m2[new] = [next |-> new, prev |-> new]  BY <1>3, <3>4
    <3>6. Round(m2, new, <<>>)  BY <3>5, EmptyRound
    <3> QED  BY <2>1, <3>4, <3>6
  <2>2. CASE s # <<>>
    <3> DEFINE n == s[1]
               p == s[Len(s)]
    <3>1. Len(s) > 0 /\ 1 \in 1 .. Len(s) /\ Len(s) \in 1 .. Len(s)
      BY <1>2, <2>2
    <3>2. n \in Elems /\ p \in Elems  BY <1>2, <3>1
    <3>3. n \in Lists!Cells /\ p \in Lists!Cells /\ n # old /\ n # new /\ p # new
      BY <3>2, CellsAssumption DEF Lists!Cells
    <3>4. n = l[old].next /\ p = l[old].prev
      <4>1. /\ Cell(old, s, 0) = old /\ Cell(old, s, 0 + 1) = n
            /\ Cell(old, s, Len(s)) = p /\ Cell(old, s, Len(s) + 1) = old
        BY <1>2, <3>1 DEF Cell
      <4>2. 0 \in 0 .. Len(s) /\ Len(s) \in 0 .. Len(s)  BY <1>2
      <4>3. /\ Tied(l, Cell(old, s, 0), Cell(old, s, 0 + 1))
            /\ Tied(l, Cell(old, s, Len(s)), Cell(old, s, Len(s) + 1))
        BY <1>2, <4>2 DEF Round
      <4> QED  BY <4>1, <4>3 DEF Tied
    <3>5. Joined(l, m, new, n, p, new)
      <4> HIDE DEF n, p, s
      <4> QED  BY <1>1, <1>3, <3>3, <3>4, ReplaceLinks
    <3>6. Round(m, new, s)
      <4>1. /\ <<>> \in Seq(Elems) /\ Len(<<>>) = 0 /\ 0 \in 0 .. Len(<<>>)
            /\ Once(<<>>) /\ Apart(<<>>, s) /\ Open(l, new, <<>>, 0)
        BY DEF Once, Apart, Open
      <4>2. Inserted(<<>>, 0, s, s)  BY <1>2, <4>1 DEF Inserted
      <4>3. Cell(new, <<>>, 0) = new /\ Cell(new, <<>>, 0 + 1) = new  BY <4>1 DEF Cell
      <4>4. Chain(l, s)  BY <1>2, RoundChain
      <4>5. Joined(l, m, Cell(new, <<>>, 0), s[1], s[Len(s)], Cell(new, <<>>, 0 + 1))
        BY <3>5, <4>3
      <4> HIDE DEF s, n, p
      <4> QED  BY <1>2, <3>1, <4>1, <4>2, <4>4, <4>5, InsertRound
    <3>7. Round(m2, new, s)
      <4>1. m2[new] = m[new]  BY <1>3
      <4>2. \A j \in 1 .. Len(s) : m2[s[j]] = m[s[j]]
        <5>1. \A j \in 1 .. Len(s) : s[j] \in Elems  BY <1>2
        <5> QED  BY <5>1, CellsAssumption DEF Lists!Cells
      <4> QED  BY <1>2, <3>6, <4>1, <4>2, FrameRound
    <3>8. ASSUME NEW c \in Lists!Cells, c # old, c # new, \A j \in 1 .. Len(s) : c # s[j]
          PROVE  m2[c] = l[c]
      <4>1. c # n /\ c # p  BY <3>1, <3>8
      <4>2. m[c] = l[c]
        <5> HIDE DEF n, p
        <5> QED  BY <1>1, <3>5, <3>8, <4>1, JoinedElsewhere
      <4> QED  BY <3>8, <4>2
    <3> QED  BY <3>7, <3>8
  <2> QED  BY <2>1, <2>2
<1>5. /\ lst2 \in [Heads -> Seq(Elems)] /\ lst2[new] = s /\ lst2[old] = <<>>
      /\ \A g \in Heads : g # new /\ g # old => lst2[g] = lst[g]
  BY <1>1
<1> HIDE DEF lst2
<1>6. \A r : Apart(r, <<>>) /\ Apart(<<>>, r)  BY DEF Apart
<1>7. Once(<<>>)  BY DEF Once
<1>8. \A f, g \in Heads : f # g => Apart(lst2[f], lst2[g])
  <2> SUFFICES ASSUME NEW f \in Heads, NEW g \in Heads, f # g PROVE Apart(lst2[f], lst2[g])
    OBVIOUS
  <2>1. CASE f = old \/ g = old  BY <1>5, <1>6, <2>1
  <2>2. CASE f # old /\ g # old /\ f = new  BY <1>1, <1>5, <2>2
  <2>3. CASE f # old /\ g # old /\ g = new  BY <1>1, <1>5, <2>3
  <2>4. CASE f # old /\ g # old /\ f # new /\ g # new  BY <1>1, <1>5, <2>4
  <2> QED  BY <2>1, <2>2, <2>3, <2>4
<1>9. \A g \in Heads : Once(lst2[g])  BY <1>1, <1>5, <1>7
<1>10. after \subseteq Heads /\ (\A g \in after : g = old \/ (g \in sl /\ g # new))
         /\ \A g \in sl : g = new \/ g \in after
  BY <1>1 DEF Left
<1>11. \A g \in after : lst2[g] = <<>>  BY <1>1, <1>5, <1>10
<1>12. Placed(lst2, after)  BY <1>5, <1>8, <1>9, <1>10, <1>11 DEF Placed
<1>13. ASSUME NEW g \in Heads \ after PROVE Round(m2, g, lst2[g])
  <2>1. CASE g = new  BY <1>4, <1>5, <2>1
  <2>2. CASE g = old
    <3>1. m2[old] = [next |-> old, prev |-> old]  BY <1>13, <2>2 DEF Left
    <3>2. Round(m2, old, <<>>)  BY <3>1, EmptyRound
    <3> QED  BY <1>5, <2>2, <3>2
  <2>3. CASE g # new /\ g # old
    <3>1. lst[g] \in Seq(Elems) /\ Round(l, g, lst[g])  BY <1>1, <1>10, <2>3
    <3>2. m2[g] = l[g]
      <4>1. g \in Lists!Cells /\ \A j \in 1 .. Len(s) : g # s[j]
        BY <1>2, CellsAssumption DEF Lists!Cells
      <4> QED  BY <1>4, <2>3, <4>1
    <3>3. ASSUME NEW j \in 1 .. Len(lst[g]) PROVE m2[lst[g][j]] = l[lst[g][j]]
      <4>1. lst[g][j] \in Elems  BY <3>1
      <4>2. lst[g][j] \in Lists!Cells /\ lst[g][j] # old /\ lst[g][j] # new
        BY <4>1, CellsAssumption DEF Lists!Cells
      <4>3. Apart(lst[g], s)  BY <1>1, <2>3
      <4>4. \A i \in 1 .. Len(s) : lst[g][j] # s[i]  BY <4>3 DEF Apart
      <4> QED  BY <1>4, <4>2, <4>4
    <3>4. Round(m2, g, lst[g])  BY <3>1, <3>2, <3>3, FrameRound
    <3> QED  BY <1>5, <2>3, <3>4
  <2> QED  BY <2>1, <2>2, <2>3
<1> QED  BY <1>12, <1>13 DEF Whole, lst2

\* INIT_LIST_HEAD of a stale head
LEMMA ResetWhole ==
    ASSUME NEW l, NEW lst, NEW sl, Whole(l, lst, sl), NEW h \in sl
    PROVE  Whole(Lists!InitHead(l, h), [lst EXCEPT ![h] = <<>>], sl \ {h})
<1> DEFINE m == Lists!InitHead(l, h)
<1>1. /\ l \in Links /\ lst \in [Heads -> Seq(Elems)] /\ sl \subseteq Heads /\ h \in Heads
      /\ Placed(lst, sl) /\ lst[h] = <<>>
      /\ \A g \in Heads \ sl : Round(l, g, lst[g])
  BY DEF Whole, Placed
<1>2. [lst EXCEPT ![h] = <<>>] = lst  BY <1>1
<1>3. h \in Lists!Cells  BY <1>1 DEF Lists!Cells
<1>4. /\ m \in Links /\ m[h] = [next |-> h, prev |-> h]
      /\ \A c \in Lists!Cells : c # h => m[c] = l[c]
  BY <1>1, <1>3, InitHeadLinks
<1> HIDE DEF m
<1>5. Placed(lst, sl \ {h})  BY <1>1 DEF Placed
<1>6. ASSUME NEW g \in Heads \ (sl \ {h}) PROVE Round(m, g, lst[g])
  <2>1. CASE g = h  BY <1>1, <1>4, <2>1, EmptyRound
  <2>2. CASE g # h
    <3>1. lst[g] \in Seq(Elems) /\ Round(l, g, lst[g])  BY <1>1, <2>2
    <3>2. m[g] = l[g]  BY <1>4, <2>2 DEF Lists!Cells
    <3>3. \A j \in 1 .. Len(lst[g]) : lst[g][j] \in Elems  BY <3>1
    <3>4. \A j \in 1 .. Len(lst[g]) : m[lst[g][j]] = l[lst[g][j]]
      BY <1>1, <1>4, <3>3, CellsAssumption DEF Lists!Cells
    <3> QED  BY <3>1, <3>2, <3>4, FrameRound
  <2> QED  BY <2>1, <2>2
<1> QED  BY <1>2, <1>4, <1>5, <1>6 DEF Whole, m

-----------------------------------------------------------------------------
(* The inductive invariant of the lists                                     *)

\* list_add_order has come back to the k-th cell, and every element behind
\* it is greater.
Walked(lst, sl, wk) ==
    \E e \in Elems, h \in Heads \ sl : \E k \in 0 .. Len(lst[h]) :
        /\ wk = {[new |-> e, head |-> h, pos |-> Cell(h, lst[h], k)]}
        /\ Outside(lst, e)
        /\ \A j \in (k + 1) .. Len(lst[h]) : Key(e) < Key(lst[h][j])

ListsInv == Whole(link, list, stale) /\ (walk = {} \/ Walked(list, stale, walk))

LEMMA FreeIsOutside ==
    ASSUME Whole(link, list, stale), NEW e \in Lists!Free
    PROVE  e \in Elems /\ Outside(list, e)
<1>1. list \in [Heads -> Seq(Elems)] /\ \A h \in stale : list[h] = <<>>
  BY DEF Whole, Placed
<1>2. e \in Elems /\ e \notin Lists!Linked  BY DEF Lists!Free
<1>3. ASSUME NEW g \in Heads, NEW k \in 1 .. Len(list[g]) PROVE list[g][k] # e
  <2>1. CASE g \in stale  BY <1>1, <1>3, <2>1
  <2>2. CASE g \notin stale
    <3>1. list[g][k] \in Lists!Range(list[g])  BY <1>1 DEF Lists!Range
    <3>2. list[g][k] \in Lists!Linked  BY <2>2, <3>1 DEF Lists!Linked, Lists!Usable
    <3> QED  BY <1>2, <3>2
  <2> QED  BY <2>1, <2>2
<1> QED  BY <1>2, <1>3 DEF Outside

\* list_empty tells whether there are elements.
LEMMA EmptyTells ==
    ASSUME NEW l, NEW lst, NEW sl, Whole(l, lst, sl), NEW h \in Heads, h \notin sl
    PROVE  Lists!ListEmpty(l, h) <=> lst[h] = <<>>
<1>1. /\ lst[h] \in Seq(Elems) /\ Len(lst[h]) \in Nat
      /\ l[Cell(h, lst[h], 0)].next = Cell(h, lst[h], 0 + 1) /\ Cell(h, lst[h], 0) = h
  <2>1. Len(lst[h]) \in Nat  BY OfOne
  <2>2. 0 \in 0 .. Len(lst[h])  BY <2>1
  <2> QED  BY <2>2, OfOne
<1>2. l[h].next = Cell(h, lst[h], 1)  BY <1>1
<1>3. CASE lst[h] = <<>>
  <2>1. Cell(h, lst[h], 1) = h  BY <1>3 DEF Cell
  <2> QED  BY <1>2, <1>3, <2>1 DEF Lists!ListEmpty
<1>4. CASE lst[h] # <<>>
  <2>1. 1 \in 1 .. Len(lst[h])  BY <1>1, <1>4
  <2>2. Cell(h, lst[h], 1) = lst[h][1] /\ lst[h][1] \in Elems  BY <2>1, OfOne
  <2> QED  BY <1>2, <1>4, <2>2, CellsAssumption DEF Lists!ListEmpty
<1> QED  BY <1>3, <1>4

LEMMA TransferStep ==
    ASSUME Whole(link, list, stale), NEW from \in Heads, from \notin stale,
           NEW h \in Heads, h \notin stale, from # h, NEW init \in BOOLEAN,
           Lists!ListSplice(from, h, init) \/ Lists!ListAppend(from, h, init)
    PROVE  Whole(link, list, stale)'
<1> DEFINE s == list[h]
           t == list[from]
           spliced == Lists!Splice(link, from, h)
           appended == Lists!AppendList(link, from, h)
<1>1. /\ link \in Links /\ list \in [Heads -> Seq(Elems)] /\ s \in Seq(Elems) /\ t \in Seq(Elems)
      /\ Len(s) \in Nat /\ Len(t) \in Nat
  BY OfOne
<1>2. Lists!ListEmpty(link, from) <=> t = <<>>  BY EmptyTells
<1>3. CASE t = <<>>
  <2>1. spliced = link /\ appended = link
    BY <1>2, <1>3 DEF Lists!Splice, Lists!AppendList
  <2>2. \A l : Lists!Taken(l, from, init) = l  BY <1>2, <1>3 DEF Lists!Taken
  <2>3. link' = link  BY <2>1, <2>2 DEF Lists!ListSplice, Lists!ListAppend
  <2>4. stale' = stale
    BY <1>2, <1>3 DEF Lists!ListSplice, Lists!ListAppend, Lists!StaleAfter
  <2>5. t \o s = s /\ s \o t = s  BY <1>1, <1>3
  <2>6. list' = [list EXCEPT ![h] = s, ![from] = <<>>]
    BY <1>1, <2>5 DEF Lists!ListSplice, Lists!ListAppend
  <2>7. list' = list  BY <1>1, <1>3, <2>6
  <2> QED  BY <2>3, <2>4, <2>7
<1>4. CASE t # <<>>
  <2>1. /\ 0 \in 0 .. Len(s) /\ Len(s) \in 0 .. Len(s)
        /\ 0 \in 0 .. Len(t) /\ Len(t) \in 0 .. Len(t)
        /\ 1 \in 1 .. Len(t) /\ Len(t) \in 1 .. Len(t) /\ Len(t) > 0
    BY <1>1, <1>4
  <2>2. /\ link[h].next = Cell(h, s, 0 + 1) /\ h = Cell(h, s, 0)
        /\ link[h].prev = Cell(h, s, Len(s)) /\ h = Cell(h, s, Len(s) + 1)
        /\ Cell(h, s, 0 + 1) \in Lists!Cells /\ Cell(h, s, Len(s)) \in Lists!Cells
        /\ h \in Lists!Cells
    BY <2>1, OfOne
  <2>3. /\ link[from].next = t[1] /\ link[from].prev = t[Len(t)]
        /\ t[1] \in Elems /\ t[Len(t)] \in Elems
    <3>1. /\ link[Cell(from, t, 0)].next = Cell(from, t, 0 + 1) /\ Cell(from, t, 0) = from
          /\ link[Cell(from, t, Len(t) + 1)].prev = Cell(from, t, Len(t))
          /\ Cell(from, t, Len(t) + 1) = from
      BY <2>1, OfOne
    <3>2. /\ Cell(from, t, 1) = t[1] /\ Cell(from, t, Len(t)) = t[Len(t)]
          /\ t[1] \in Elems /\ t[Len(t)] \in Elems
      BY <2>1, OfOne
    <3> QED  BY <3>1, <3>2
  <2>4. t[1] \in Lists!Cells /\ t[Len(t)] \in Lists!Cells  BY <2>3 DEF Lists!Cells
  <2>5. Joined(link, spliced, Cell(h, s, 0), t[1], t[Len(t)], Cell(h, s, 0 + 1))
    <3>1. spliced = Lists!Join(link, h, t[1], t[Len(t)], link[h].next)
      BY <1>2, <1>4, <2>3 DEF Lists!Splice
    <3>2. Joined(link, Lists!Join(link, h, t[1], t[Len(t)], Cell(h, s, 0 + 1)),
                 h, t[1], t[Len(t)], Cell(h, s, 0 + 1))
      BY <1>1, <2>2, <2>4, JoinLinks
    <3> QED  BY <2>2, <3>1, <3>2
  <2>6. Joined(link, appended, Cell(h, s, Len(s)), t[1], t[Len(t)], Cell(h, s, Len(s) + 1))
    <3>1. appended = Lists!Join(link, link[h].prev, t[1], t[Len(t)], h)
      BY <1>2, <1>4, <2>3 DEF Lists!AppendList
    <3>2. Joined(link, Lists!Join(link, Cell(h, s, Len(s)), t[1], t[Len(t)], h),
                 Cell(h, s, Len(s)), t[1], t[Len(t)], h)
      BY <1>1, <2>2, <2>4, JoinLinks
    <3> QED  BY <2>2, <3>1, <3>2
  <2>7. /\ t \o s \in Seq(Elems) /\ Inserted(s, 0, t, t \o s)
        /\ s \o t \in Seq(Elems) /\ Inserted(s, Len(s), t, s \o t)
    BY <1>1, Positions
  <2>8. ASSUME NEW m, m \in Links, link' = Lists!Taken(m, from, init),
               stale' = Lists!StaleAfter(from, init)
        PROVE  /\ link' \in Links /\ \A c \in Lists!Cells : c # from => link'[c] = m[c]
               /\ Left(link', stale, stale', from)
    <3>0. from \in Lists!Cells  BY DEF Lists!Cells
    <3>1. CASE init
      <4>1. link' = Lists!InitHead(m, from) /\ stale' = stale
        BY <1>2, <1>4, <2>8, <3>1 DEF Lists!Taken, Lists!StaleAfter
      <4> QED  BY <2>8, <3>0, <4>1, InitHeadLinks DEF Left
    <3>2. CASE ~ init
      <4>1. link' = m /\ stale' = stale \cup {from}
        BY <1>2, <1>4, <2>8, <3>2 DEF Lists!Taken, Lists!StaleAfter
      <4> QED  BY <2>8, <4>1 DEF Left
    <3> QED  BY <3>1, <3>2
  <2>9. spliced \in Links /\ appended \in Links  BY <2>5, <2>6 DEF Joined
  <2>10. CASE Lists!ListSplice(from, h, init)
    <3>1. /\ link' = Lists!Taken(spliced, from, init) /\ stale' = Lists!StaleAfter(from, init)
          /\ list' = [list EXCEPT ![h] = t \o s, ![from] = <<>>]
      BY <2>10 DEF Lists!ListSplice
    <3>2. /\ link' \in Links /\ \A c \in Lists!Cells : c # from => link'[c] = spliced[c]
          /\ Left(link', stale, stale', from)
      BY <2>8, <2>9, <3>1
    <3>3. Whole(link', [list EXCEPT ![h] = t \o s, ![from] = <<>>], stale')
      <4> HIDE DEF spliced, appended
      <4> QED  BY <2>1, <2>5, <2>7, <3>2, TransferWhole
    <3> QED  BY <3>1, <3>3
  <2>11. CASE Lists!ListAppend(from, h, init)
    <3>1. /\ link' = Lists!Taken(appended, from, init) /\ stale' = Lists!StaleAfter(from, init)
          /\ list' = [list EXCEPT ![h] = s \o t, ![from] = <<>>]
      BY <2>11 DEF Lists!ListAppend
    <3>2. /\ link' \in Links /\ \A c \in Lists!Cells : c # from => link'[c] = appended[c]
          /\ Left(link', stale, stale', from)
      BY <2>8, <2>9, <3>1
    <3>3. Whole(link', [list EXCEPT ![h] = s \o t, ![from] = <<>>], stale')
      <4> HIDE DEF spliced, appended
      <4> QED  BY <2>1, <2>6, <2>7, <3>2, TransferWhole
    <3> QED  BY <3>1, <3>3
  <2> QED  BY <2>10, <2>11
<1> QED  BY <1>3, <1>4

\* Every call that runs to its end in one step keeps the lists.
LEMMA CallStep ==
    ASSUME Whole(link, list, stale), Lists!Call
    PROVE  Whole(link, list, stale)'
<1>1. list \in [Heads -> Seq(Elems)] /\ stale \subseteq Heads /\ link \in Links
  BY DEF Whole, Placed
<1>2. \A h \in Lists!Usable : h \in Heads /\ h \notin stale  BY DEF Lists!Usable
<1>3. \A h \in Heads : DOMAIN list[h] = 1 .. Len(list[h])  BY <1>1
<1>4. CASE Lists!Insert /\ UNCHANGED stale
  <2>1. PICK h \in Lists!Usable, e \in Lists!Free : Lists!Add(e, h) \/ Lists!AddTail(e, h)
    BY <1>4 DEF Lists!Insert
  <2>2. h \in Heads /\ h \notin stale /\ e \in Elems /\ Outside(list, e)
    BY <1>2, FreeIsOutside
  <2>3. /\ Whole(Lists!ListAdd(link, e, h), [list EXCEPT ![h] = <<e>> \o @], stale)
        /\ Whole(Lists!ListAddTail(link, e, h), [list EXCEPT ![h] = Append(@, e)], stale)
    BY <2>2, AddCall
  <2>4. CASE Lists!Add(e, h)
    <3>1. /\ link' = Lists!ListAdd(link, e, h) /\ list' = [list EXCEPT ![h] = <<e>> \o @]
          /\ stale' = stale
      BY <1>4, <2>4 DEF Lists!Add
    <3> QED  BY <2>3, <3>1
  <2>5. CASE Lists!AddTail(e, h)
    <3>1. /\ link' = Lists!ListAddTail(link, e, h) /\ list' = [list EXCEPT ![h] = Append(@, e)]
          /\ stale' = stale
      BY <1>4, <2>5 DEF Lists!AddTail
    <3> QED  BY <2>3, <3>1
  <2> QED  BY <2>1, <2>4, <2>5
<1>5. CASE Lists!Delete /\ UNCHANGED stale
  <2>1. PICK h \in Lists!Usable : \E k \in DOMAIN list[h] : Lists!Del(h, k) \/ Lists!DelInit(h, k)
    BY <1>5 DEF Lists!Delete
  <2>2. PICK k \in DOMAIN list[h] : Lists!Del(h, k) \/ Lists!DelInit(h, k)  BY <2>1
  <2>3. h \in Heads /\ h \notin stale /\ k \in 1 .. Len(list[h]) /\ list[h] \in Seq(Elems)
    BY <1>1, <1>2, <1>3
  <2> DEFINE u == Lists!RemoveAt(list[h], k)
  <2>4. u \in Seq(Elems) /\ Removed(list[h], k, u)  BY <2>3, Positions
  <2>5. /\ Whole(Lists!ListDel(link, list[h][k]), [list EXCEPT ![h] = u], stale)
        /\ Whole(Lists!ListDelInit(link, list[h][k]), [list EXCEPT ![h] = u], stale)
    BY <2>3, <2>4, DelCall
  <2>6. list' = [list EXCEPT ![h] = u] /\ stale' = stale
    BY <1>1, <1>5, <2>2, <2>3 DEF Lists!Del, Lists!DelInit, Lists!Without
  <2>7. link' = Lists!ListDel(link, list[h][k]) \/ link' = Lists!ListDelInit(link, list[h][k])
    BY <2>2 DEF Lists!Del, Lists!DelInit
  <2> QED  BY <2>5, <2>6, <2>7
<1>6. CASE Lists!Shift /\ UNCHANGED stale
  <2>1. PICK g \in Lists!Usable, h \in Lists!Usable :
          \E k \in DOMAIN list[g] : Lists!Move(g, k, h) \/ Lists!MoveTail(g, k, h)
    BY <1>6 DEF Lists!Shift
  <2>2. PICK k \in DOMAIN list[g] : Lists!Move(g, k, h) \/ Lists!MoveTail(g, k, h)  BY <2>1
  <2>3. /\ h \in Heads /\ h \notin stale /\ g \in Heads /\ g \notin stale
        /\ k \in 1 .. Len(list[g]) /\ list[g] \in Seq(Elems)
    BY <1>1, <1>2, <1>3
  <2> DEFINE u == Lists!RemoveAt(list[g], k)
             left == [list EXCEPT ![g] = u]
             e == list[g][k]
  <2>4. u \in Seq(Elems) /\ Removed(list[g], k, u)  BY <2>3, Positions
  <2>5. Lists!Without(g, k) = left  BY <1>1, <2>3 DEF Lists!Without
  <2>6. /\ Whole(Lists!ListMove(link, e, h), [left EXCEPT ![h] = <<e>> \o @], stale)
        /\ Whole(Lists!ListMoveTail(link, e, h), [left EXCEPT ![h] = Append(@, e)], stale)
    <3> HIDE DEF u
    <3> QED  BY <2>3, <2>4, MoveCall
  <2> HIDE DEF left, u
  <2>7. stale' = stale  BY <1>6
  <2>8. CASE Lists!Move(g, k, h)
    <3>1. link' = Lists!ListMove(link, e, h) /\ list' = [left EXCEPT ![h] = <<e>> \o @]
      BY <2>5, <2>8 DEF Lists!Move
    <3> QED  BY <2>6, <2>7, <3>1
  <2>9. CASE Lists!MoveTail(g, k, h)
    <3>1. link' = Lists!ListMoveTail(link, e, h) /\ list' = [left EXCEPT ![h] = Append(@, e)]
      BY <2>5, <2>9 DEF Lists!MoveTail
    <3> QED  BY <2>6, <2>7, <3>1
  <2> QED  BY <2>2, <2>8, <2>9
<1>7. CASE Lists!Exchange /\ UNCHANGED stale
  <2>1. PICK h \in Lists!Usable, new \in Lists!Free, init \in BOOLEAN :
          \E k \in DOMAIN list[h] : Lists!ReplaceElem(h, k, new, init)
    BY <1>7 DEF Lists!Exchange
  <2>2. PICK k \in DOMAIN list[h] : Lists!ReplaceElem(h, k, new, init)  BY <2>1
  <2>3. /\ h \in Heads /\ h \notin stale /\ new \in Elems /\ Outside(list, new)
        /\ k \in 1 .. Len(list[h]) /\ list[h] \in Seq(Elems)
    BY <1>1, <1>2, <1>3, FreeIsOutside
  <2> DEFINE old == list[h][k]
             m == Lists!ListReplace(link, old, new)
  <2>4. /\ link' = IF init THEN Lists!InitHead(m, old) ELSE m
        /\ list' = [list EXCEPT ![h][k] = new] /\ stale' = stale
    BY <1>7, <2>2 DEF Lists!ReplaceElem
  <2>5. old \in Elems  BY <2>3
  <2>6. m \in Links  BY <2>3, ReplacedElem
  <2>7. link' \in Links /\ \A c \in Lists!Cells : c # old => link'[c] = m[c]
    <3> HIDE DEF m
    <3>1. old \in Lists!Cells  BY <2>5 DEF Lists!Cells
    <3>2. CASE init
      <4>1. link' = Lists!InitHead(m, old)  BY <2>4, <3>2
      <4> QED  BY <2>6, <3>1, <4>1, InitHeadLinks
    <3>3. CASE ~ init
      <4>1. link' = m  BY <2>4, <3>3
      <4> QED  BY <2>6, <4>1
    <3> QED  BY <3>2, <3>3
  <2>8. Whole(link', [list EXCEPT ![h][k] = new], stale)
    BY <2>3, <2>7, ExchangeWhole
  <2> QED  BY <2>4, <2>8
<1>8. CASE Lists!Turn /\ UNCHANGED stale
  <2>1. PICK h \in Lists!Usable : Lists!Rotate(h)  BY <1>8 DEF Lists!Turn
  <2>2. /\ link' = Lists!RotateLeft(link, h) /\ stale' = stale
        /\ list' = [list EXCEPT ![h] = IF @ = <<>> THEN @ ELSE Append(Tail(@), Head(@))]
    BY <1>8, <2>1 DEF Lists!Rotate
  <2> QED  BY <1>2, <2>2, RotateCall
<1>9. CASE Lists!Transfer
  <2>1. PICK from \in Lists!Usable, h \in Lists!Usable, init \in BOOLEAN :
          from # h /\ (Lists!ListSplice(from, h, init) \/ Lists!ListAppend(from, h, init))
    BY <1>9 DEF Lists!Transfer
  <2> QED  BY <1>2, <2>1, TransferStep
<1>10. CASE Lists!Succeed
  <2>1. PICK old \in Lists!Usable, new \in Heads, init \in BOOLEAN :
          old # new /\ list[new] = <<>> /\ Lists!ReplaceHead(old, new, init)
    BY <1>10 DEF Lists!Succeed
  <2>2. old \in Heads /\ old \notin stale /\ old \in Lists!Cells  BY <1>2 DEF Lists!Cells
  <2> DEFINE m == Lists!ListReplace(link, old, new)
  <2>3. /\ link' = IF init THEN Lists!InitHead(m, old) ELSE m
        /\ list' = [list EXCEPT ![new] = list[old], ![old] = <<>>]
        /\ stale' = (stale \ {new}) \cup (IF init THEN {} ELSE {old})
    BY <2>1 DEF Lists!ReplaceHead
  <2>4. m \in Links  BY <2>1, <2>2, ReplacedHead
  <2>5. /\ link' \in Links /\ \A c \in Lists!Cells : c # old => link'[c] = m[c]
        /\ Left(link', stale \ {new}, stale', old)
    <3> HIDE DEF m
    <3>1. CASE init
      <4>1. link' = Lists!InitHead(m, old) /\ stale' = stale \ {new}  BY <2>3, <3>1
      <4> QED  BY <2>2, <2>4, <4>1, InitHeadLinks DEF Left
    <3>2. CASE ~ init
      <4>1. link' = m /\ stale' = (stale \ {new}) \cup {old}  BY <2>3, <3>2
      <4> QED  BY <2>4, <4>1 DEF Left
    <3> QED  BY <3>1, <3>2
  <2>6. Whole(link', [list EXCEPT ![new] = list[old], ![old] = <<>>], stale')
    BY <2>1, <2>2, <2>5, HeadWhole
  <2> QED  BY <2>3, <2>6
<1>11. CASE Lists!Reset
  <2>1. PICK h \in Heads : Lists!INIT_LIST_HEAD(h)  BY <1>11 DEF Lists!Reset
  <2>2. /\ h \in stale /\ link' = Lists!InitHead(link, h)
        /\ list' = [list EXCEPT ![h] = <<>>] /\ stale' = stale \ {h}
    BY <2>1 DEF Lists!INIT_LIST_HEAD
  <2> QED  BY <2>2, ResetWhole
<1> QED
  BY <1>4, <1>5, <1>6, <1>7, <1>8, <1>9, <1>10, <1>11 DEF Lists!Call

-----------------------------------------------------------------------------
(* list_add_order                                                           *)

LEMMA OrderBeginStep ==
    ASSUME Whole(link, list, stale), NEW h \in Lists!Usable, NEW e \in Lists!Free,
           Lists!OrderBegin(e, h)
    PROVE  ListsInv'
<1>1. /\ walk' = {[new |-> e, head |-> h, pos |-> link[h].prev]}
      /\ link' = link /\ list' = list /\ stale' = stale
  BY DEF Lists!OrderBegin
<1>2. h \in Heads /\ h \notin stale /\ e \in Elems /\ Outside(list, e)
  BY FreeIsOutside DEF Lists!Usable
<1> DEFINE k == Len(list[h])
<1>3. k \in Nat /\ k \in 0 .. Len(list[h])
  <2>1. Len(list[h]) \in Nat  BY <1>2, OfOne
  <2> QED  BY <2>1
<1>4. link[h].prev = Cell(h, list[h], k)  BY <1>2, <1>3, OfOne
<1>5. \A j \in (k + 1) .. Len(list[h]) : Key(e) < Key(list[h][j])  BY <1>3
<1>6. Walked(list, stale, walk')
  <2>1. h \in Heads \ stale  BY <1>2
  <2> HIDE DEF k
  <2> QED  BY <1>1, <1>2, <1>3, <1>4, <1>5, <2>1 DEF Walked
<1>7. Walked(list', stale', walk')  BY <1>1, <1>6
<1> QED  BY <1>1, <1>7 DEF ListsInv

\* One step back: the element passed by is greater too.
LEMMA OrderBackStep ==
    ASSUME Whole(link, list, stale), Walked(list, stale, walk), NEW w \in walk,
           Lists!OrderBack(w)
    PROVE  ListsInv'
<1>1. PICK e \in Elems, h \in Heads \ stale : \E k \in 0 .. Len(list[h]) :
        /\ walk = {[new |-> e, head |-> h, pos |-> Cell(h, list[h], k)]}
        /\ Outside(list, e)
        /\ \A j \in (k + 1) .. Len(list[h]) : Key(e) < Key(list[h][j])
  BY DEF Walked
<1>2. PICK k \in 0 .. Len(list[h]) :
        /\ walk = {[new |-> e, head |-> h, pos |-> Cell(h, list[h], k)]}
        /\ Outside(list, e)
        /\ \A j \in (k + 1) .. Len(list[h]) : Key(e) < Key(list[h][j])
  BY <1>1
<1> DEFINE s == list[h]
<1>3. w = [new |-> e, head |-> h, pos |-> Cell(h, s, k)]  BY <1>2
<1>4. w.new = e /\ w.head = h /\ w.pos = Cell(h, s, k)  BY <1>3
<1>5. /\ Cell(h, s, k) # h /\ Key(e) < Key(Cell(h, s, k))
      /\ walk' = {[w EXCEPT !.pos = link[@].prev]}
      /\ link' = link /\ list' = list /\ stale' = stale
  BY <1>4 DEF Lists!OrderBack
<1>6. s \in Seq(Elems) /\ Len(s) \in Nat /\ Cell(h, s, 0) = h  BY OfOne
<1>7. k # 0  BY <1>5, <1>6
<1>8. /\ k \in 1 .. Len(s) /\ k - 1 \in 0 .. Len(s) /\ (k - 1) + 1 = k /\ k \in Int
  BY <1>6, <1>7
<1>9. Cell(h, s, k) = s[k]  BY <1>8, OfOne
<1>10. link[Cell(h, s, k)].prev = Cell(h, s, k - 1)
  <2>1. link[Cell(h, s, (k - 1) + 1)].prev = Cell(h, s, k - 1)  BY <1>8, OfOne
  <2> QED  BY <1>8, <2>1
<1>11. walk' = {[new |-> e, head |-> h, pos |-> Cell(h, s, k - 1)]}
  BY <1>3, <1>5, <1>10
<1>12. ASSUME NEW j \in ((k - 1) + 1) .. Len(s) PROVE Key(e) < Key(s[j])
  <2>1. CASE j = k  BY <1>5, <1>9, <2>1
  <2>2. CASE j # k
    <3>1. j \in (k + 1) .. Len(s)  BY <1>6, <1>8, <2>2
    <3> QED  BY <1>2, <3>1
  <2> QED  BY <2>1, <2>2
<1>13. Walked(list, stale, walk')
  <2> DEFINE b == k - 1
  <2>1. b \in 0 .. Len(s) /\ walk' = {[new |-> e, head |-> h, pos |-> Cell(h, s, b)]}
          /\ \A j \in (b + 1) .. Len(s) : Key(e) < Key(s[j])
    BY <1>8, <1>11, <1>12
  <2> HIDE DEF b
  <2> QED  BY <1>2, <2>1 DEF Walked
<1>14. Walked(list', stale', walk')  BY <1>5, <1>13
<1> QED  BY <1>5, <1>14 DEF ListsInv

LEMMA Middle ==
    ASSUME NEW s \in Seq(Elems), NEW k \in 0 .. Len(s), NEW e \in Elems,
           NEW u, u = SubSeq(s, 1, k) \o <<e>> \o SubSeq(s, k + 1, Len(s))
    PROVE  u \in Seq(Elems) /\ Inserted(s, k, <<e>>, u)
<1> DEFINE a == SubSeq(s, 1, k)
           b == SubSeq(s, k + 1, Len(s))
           d == a \o <<e>>
<1>0. Len(s) \in Nat /\ k \in Int /\ k >= 0 /\ k <= Len(s)  OBVIOUS
<1>1. a \in Seq(Elems) /\ Len(a) = k /\ \A j \in 1 .. k : a[j] = s[j]  BY <1>0
<1>2. /\ b \in Seq(Elems) /\ Len(b) = Len(s) - k
      /\ \A j \in 1 .. (Len(s) - k) : b[j] = s[k + j]
  BY <1>0
<1>3. <<e>> \in Seq(Elems) /\ Len(<<e>>) = 1 /\ <<e>>[1] = e  OBVIOUS
<1>4. u = d \o b  OBVIOUS
<1> HIDE DEF a, b
<1>5. /\ d \in Seq(Elems) /\ Len(d) = k + 1 /\ d[k + 1] = e
      /\ \A j \in 1 .. k : d[j] = s[j]
  BY <1>0, <1>1, <1>3
<1> HIDE DEF d
<1>6. d \o b \in Seq(Elems) /\ Len(d \o b) = Len(s) + 1
  <2>0. d \in Seq(Elems) /\ b \in Seq(Elems)  BY <1>2, <1>5
  <2>1. d \o b \in Seq(Elems) /\ Len(d \o b) = Len(d) + Len(b)  BY <2>0
  <2> QED  BY <1>0, <1>2, <1>5, <2>1
<1>7. \A j \in 1 .. (k + 1) : (d \o b)[j] = d[j]  BY <1>0, <1>2, <1>5
<1>8. ASSUME NEW j \in (k + 1) .. Len(s) PROVE (d \o b)[1 + j] = s[j]
  <2>1. 1 + j \in (Len(d) + 1) .. (Len(d) + Len(b))  BY <1>0, <1>2, <1>5
  <2>2. (d \o b)[1 + j] = b[(1 + j) - Len(d)]  BY <1>2, <1>5, <2>1
  <2>3. (1 + j) - Len(d) = j - k /\ j - k \in 1 .. (Len(s) - k) /\ k + (j - k) = j
    BY <1>0, <1>5
  <2> QED  BY <1>2, <2>2, <2>3
<1>9. \A j \in 1 .. k : u[j] = s[j]
  <2>1. \A j \in 1 .. k : j \in 1 .. (k + 1)  BY <1>0
  <2> QED  BY <1>4, <1>5, <1>7, <2>1
<1>10. \A j \in 1 .. Len(<<e>>) : u[k + j] = <<e>>[j]
  <2>1. k + 1 \in 1 .. (k + 1)  BY <1>0
  <2>2. u[k + 1] = e  BY <1>4, <1>5, <1>7, <2>1
  <2>3. \A j \in 1 .. Len(<<e>>) : j = 1  BY <1>3
  <2> QED  BY <1>3, <2>2, <2>3
<1> QED  BY <1>3, <1>4, <1>6, <1>8, <1>9, <1>10 DEF Inserted

\* The walk ends behind the last element that is not greater.
LEMMA OrderAddStep ==
    ASSUME Whole(link, list, stale), Walked(list, stale, walk), NEW w \in walk,
           Lists!OrderAdd(w)
    PROVE  ListsInv'
<1>1. PICK e \in Elems, h \in Heads \ stale : \E k \in 0 .. Len(list[h]) :
        /\ walk = {[new |-> e, head |-> h, pos |-> Cell(h, list[h], k)]}
        /\ Outside(list, e)
        /\ \A j \in (k + 1) .. Len(list[h]) : Key(e) < Key(list[h][j])
  BY DEF Walked
<1>2. PICK k \in 0 .. Len(list[h]) :
        /\ walk = {[new |-> e, head |-> h, pos |-> Cell(h, list[h], k)]}
        /\ Outside(list, e)
        /\ \A j \in (k + 1) .. Len(list[h]) : Key(e) < Key(list[h][j])
  BY <1>1
<1> DEFINE s == list[h]
           S == {0} \cup {i \in DOMAIN s : Key(e) >= Key(s[i])}
           u(at) == SubSeq(s, 1, at) \o <<e>> \o SubSeq(s, at + 1, Len(s))
<1>3. w = [new |-> e, head |-> h, pos |-> Cell(h, s, k)]  BY <1>2
<1>4. w.new = e /\ w.head = h /\ w.pos = Cell(h, s, k)  BY <1>3
<1>5. /\ Cell(h, s, k) = h \/ Key(e) >= Key(Cell(h, s, k))
      /\ walk' = {} /\ link' = Lists!ListAdd(link, e, Cell(h, s, k)) /\ stale' = stale
      /\ list' = [list EXCEPT ![h] = u(Lists!Max(S))]
  BY <1>4 DEF Lists!OrderAdd
<1>6. s \in Seq(Elems) /\ Len(s) \in Nat /\ DOMAIN s = 1 .. Len(s)
        /\ (\A j \in 1 .. Len(s) : Cell(h, s, j) = s[j] /\ s[j] \in Elems)
        /\ link[Cell(h, s, k)].next = Cell(h, s, k + 1)
  BY OfOne
<1>7. k \in S
  <2>1. CASE k = 0  BY <2>1
  <2>2. CASE k # 0
    <3>1. k \in 1 .. Len(s)  BY <1>6, <2>2
    <3>2. Cell(h, s, k) = s[k] /\ s[k] # h  BY <1>6, <3>1, CellsAssumption
    <3> QED  BY <1>5, <1>6, <3>1, <3>2
  <2> QED  BY <2>1, <2>2
<1>8. \A i \in S : i \in Int /\ k >= i
  <2> SUFFICES ASSUME NEW i \in S PROVE i \in Int /\ k >= i
    OBVIOUS
  <2>1. CASE i = 0  BY <2>1
  <2>2. CASE i # 0
    <3>1. i \in 1 .. Len(s) /\ Key(e) >= Key(s[i])  BY <1>6, <2>2
    <3>2. Key(e) \in Int /\ Key(s[i]) \in Int  BY <1>6, <3>1, CellsAssumption
    <3>3. ~ (Key(e) < Key(s[i]))  BY <3>1, <3>2
    <3>4. i \notin (k + 1) .. Len(s)  BY <1>2, <3>3
    <3> QED  BY <1>6, <3>1, <3>4
  <2> QED  BY <2>1, <2>2
<1> HIDE DEF S
<1>9. Lists!Max(S) = k
  <2>1. Lists!Max(S) \in S /\ \A y \in S : Lists!Max(S) >= y
    BY <1>7, <1>8 DEF Lists!Max
  <2>2. Lists!Max(S) >= k /\ k >= Lists!Max(S) /\ Lists!Max(S) \in Int  BY <1>7, <1>8, <2>1
  <2> QED  BY <2>2
<1>10. u(k) \in Seq(Elems) /\ Inserted(s, k, <<e>>, u(k))  BY <1>6, Middle
<1>11. Lists!ListAdd(link, e, Cell(h, s, k))
         = Lists!Join(link, Cell(h, s, k), e, e, Cell(h, s, k + 1))
  BY <1>6 DEF Lists!ListAdd
<1>12. Whole(Lists!Join(link, Cell(h, s, k), e, e, Cell(h, s, k + 1)),
             [list EXCEPT ![h] = u(k)], stale)
  <2> HIDE DEF u
  <2> QED  BY <1>2, <1>10, InsertWhole
<1> HIDE DEF u, s
<1>13. Whole(link', list', stale')  BY <1>5, <1>9, <1>11, <1>12
<1> QED  BY <1>5, <1>13 DEF ListsInv

-----------------------------------------------------------------------------
(* The theorem                                                              *)

LEMMA ListsInit == ASSUME Lists!Init PROVE ListsInv
<1>1. /\ list = [h \in Heads |-> <<>>] /\ stale = {} /\ walk = {}
      /\ link = [c \in Lists!Cells |-> IF c \in Heads THEN [next |-> c, prev |-> c]
                        ELSE [next |-> Lists!Poison, prev |-> Lists!Poison]]
  BY DEF Lists!Init
<1>2. link \in Links  BY <1>1 DEF Links
<1>3. \A h \in Heads : link[h] = [next |-> h, prev |-> h] /\ list[h] = <<>>
  BY <1>1 DEF Lists!Cells
<1>4. \A h \in Heads : Round(link, h, list[h])  BY <1>3, EmptyRound
<1>5. Placed(list, stale)
  <2>1. list \in [Heads -> Seq(Elems)]  BY <1>1
  <2>2. Once(<<>>) /\ Apart(<<>>, <<>>)  BY DEF Once, Apart
  <2> QED  BY <1>1, <1>3, <2>1, <2>2 DEF Placed
<1> QED  BY <1>1, <1>2, <1>4, <1>5 DEF ListsInv, Whole

LEMMA ListsStep == ASSUME ListsInv, Lists!Next PROVE ListsInv'
<1>1. Whole(link, list, stale) /\ (walk = {} \/ Walked(list, stale, walk))
  BY DEF ListsInv
<1>2. CASE walk = {} /\ Lists!Call /\ UNCHANGED walk
  <2>1. Whole(link, list, stale)'  BY <1>1, <1>2, CallStep
  <2>2. walk' = {}  BY <1>2
  <2> QED  BY <2>1, <2>2 DEF ListsInv
<1>3. CASE \E h \in Lists!Usable, e \in Lists!Free : Lists!OrderBegin(e, h)
  BY <1>1, <1>3, OrderBeginStep
<1>4. CASE Lists!Sort
  <2>1. PICK w \in walk : Lists!OrderBack(w) \/ Lists!OrderAdd(w)  BY <1>4 DEF Lists!Sort
  <2>2. Walked(list, stale, walk)  BY <1>1
  <2> QED  BY <1>1, <2>1, <2>2, OrderBackStep, OrderAddStep
<1> QED  BY <1>2, <1>3, <1>4 DEF Lists!Next

LEMMA FullTurn ==
    ASSUME NEW n \in Nat, n > 0
    PROVE  n % n = 0 /\ \A i \in Nat : i < n => i % n = i
OBVIOUS

\* What the invariant says of the sequence of cells.
LEMMA ListsHold == ASSUME ListsInv PROVE Lists!ListsAreSequences
<1> SUFFICES ASSUME NEW h \in Lists!Usable
             PROVE  LET r == Lists!Ring(h)
                        n == Len(r)
                    IN  /\ \A i \in 1 .. n : LET j == (i % n) + 1
                                             IN  link[r[i]].next = r[j] /\ link[r[j]].prev = r[i]
                        /\ Lists!ListEmpty(link, h) <=> (list[h] = <<>>)
                        /\ Lists!ListIsSingular(link, h) <=> (Len(list[h]) = 1)
                        /\ \A i \in DOMAIN list[h] :
                              Lists!ListIsLast(link, list[h][i], h) <=> (i = Len(list[h]))
  BY DEF Lists!ListsAreSequences
<1> DEFINE s == list[h]
           r == Lists!Ring(h)
           n == Len(r)
<1>1. Whole(link, list, stale) /\ h \in Heads /\ h \notin stale
  BY DEF ListsInv, Lists!Usable
<1>2. /\ s \in Seq(Elems) /\ Len(s) \in Nat /\ Once(s) /\ DOMAIN s = 1 .. Len(s)
      /\ Cell(h, s, 0) = h /\ Cell(h, s, Len(s) + 1) = h
      /\ \A k \in 1 .. Len(s) : Cell(h, s, k) = s[k] /\ s[k] \in Elems /\ s[k] # h
      /\ \A k \in 0 .. Len(s) : /\ link[Cell(h, s, k)].next = Cell(h, s, k + 1)
                                /\ link[Cell(h, s, k + 1)].prev = Cell(h, s, k)
  <2>1. /\ s \in Seq(Elems) /\ Len(s) \in Nat /\ Once(s)
        /\ Cell(h, s, 0) = h /\ Cell(h, s, Len(s) + 1) = h
        /\ \A k \in 1 .. Len(s) : Cell(h, s, k) = s[k] /\ s[k] \in Elems
        /\ \A k \in 0 .. Len(s) : /\ link[Cell(h, s, k)].next = Cell(h, s, k + 1)
                                  /\ link[Cell(h, s, k + 1)].prev = Cell(h, s, k)
    BY <1>1, OfOne
  <2>2. \A k \in 1 .. Len(s) : s[k] # h  BY <1>1, <2>1, CellsAssumption
  <2>3. DOMAIN s = 1 .. Len(s)  BY <2>1
  <2> HIDE DEF s
  <2> QED  BY <2>1, <2>2, <2>3
<1>3. n = Len(s) + 1 /\ n \in Nat /\ r[1] = h /\ \A k \in 1 .. Len(s) : r[k + 1] = s[k]
  BY <1>2 DEF Lists!Ring
<1>4. \A k \in 0 .. Len(s) : r[k + 1] = Cell(h, s, k)
  <2>1. r[0 + 1] = Cell(h, s, 0)  BY <1>2, <1>3
  <2>2. ASSUME NEW k \in 1 .. Len(s) PROVE r[k + 1] = Cell(h, s, k)  BY <1>2, <1>3
  <2>3. \A k \in 0 .. Len(s) : k = 0 \/ k \in 1 .. Len(s)  BY <1>2
  <2> QED  BY <2>1, <2>2, <2>3
<1>5. ASSUME NEW i \in 1 .. n
      PROVE  link[r[i]].next = r[(i % n) + 1] /\ link[r[(i % n) + 1]].prev = r[i]
  <2>1. i - 1 \in 0 .. Len(s) /\ (i - 1) + 1 = i  BY <1>2, <1>3
  <2>2. r[i] = Cell(h, s, i - 1)
    <3>1. r[(i - 1) + 1] = Cell(h, s, i - 1)  BY <1>4, <2>1
    <3> QED  BY <2>1, <3>1
  <2>3. link[Cell(h, s, i - 1)].next = Cell(h, s, i) /\ link[Cell(h, s, i)].prev = Cell(h, s, i - 1)
    <3>1. /\ link[Cell(h, s, i - 1)].next = Cell(h, s, (i - 1) + 1)
          /\ link[Cell(h, s, (i - 1) + 1)].prev = Cell(h, s, i - 1)
      BY <1>2, <2>1
    <3> QED  BY <2>1, <3>1
  <2>4. r[(i % n) + 1] = Cell(h, s, i)
    <3>1. CASE i = n
      <4>1. i % n = 0
        <5>1. n \in Nat /\ n > 0  BY <1>2, <1>3
        <5> HIDE DEF n
        <5> QED  BY <3>1, <5>1, FullTurn
      <4>2. r[0 + 1] = h  BY <1>3
      <4>3. Cell(h, s, i) = h  BY <1>2, <1>3, <3>1
      <4> QED  BY <4>1, <4>2, <4>3
    <3>2. CASE i # n
      <4>0. i \in Nat /\ i < n /\ i \in 0 .. Len(s) /\ n \in Nat /\ n > 0
        BY <1>2, <1>3, <3>2
      <4>1. i % n = i
        <5> HIDE DEF n
        <5> QED  BY <4>0, FullTurn
      <4> QED  BY <1>4, <4>0, <4>1
    <3> QED  BY <3>1, <3>2
  <2> HIDE DEF r, n, s
  <2> QED  BY <2>2, <2>3, <2>4
<1>6. Lists!ListEmpty(link, h) <=> s = <<>>  BY <1>1, EmptyTells
<1>7. Lists!ListIsSingular(link, h) <=> Len(s) = 1
  <2>1. link[h].next = Cell(h, s, 1) /\ link[h].prev = Cell(h, s, Len(s))
    <3>1. 0 \in 0 .. Len(s) /\ Len(s) \in 0 .. Len(s) /\ 0 + 1 = 1  BY <1>2
    <3>2. /\ link[Cell(h, s, 0)].next = Cell(h, s, 0 + 1)
          /\ link[Cell(h, s, Len(s) + 1)].prev = Cell(h, s, Len(s))
      BY <1>2, <3>1
    <3> QED  BY <1>2, <3>1, <3>2
  <2>2. CASE s = <<>>
    <3>1. Len(s) = 0  BY <2>2
    <3> QED  BY <1>6, <2>2, <3>1 DEF Lists!ListIsSingular
  <2>3. CASE s # <<>>
    <3>1. 1 \in 1 .. Len(s) /\ Len(s) \in 1 .. Len(s)  BY <1>2, <2>3
    <3>2. Cell(h, s, 1) = s[1] /\ Cell(h, s, Len(s)) = s[Len(s)]  BY <1>2, <3>1
    <3>3. s[1] = s[Len(s)] <=> Len(s) = 1  BY <1>2, <3>1 DEF Once
    <3> QED  BY <1>6, <2>1, <2>3, <3>2, <3>3 DEF Lists!ListIsSingular
  <2> QED  BY <2>2, <2>3
<1>8. ASSUME NEW i \in DOMAIN s
      PROVE  Lists!ListIsLast(link, s[i], h) <=> i = Len(s)
  <2>1. i \in 1 .. Len(s) /\ i \in 0 .. Len(s)  BY <1>2
  <2>2. link[s[i]].next = Cell(h, s, i + 1)  BY <1>2, <2>1
  <2>3. CASE i = Len(s)
    <3>1. Cell(h, s, i + 1) = h  BY <1>2, <2>3
    <3> QED  BY <2>2, <2>3, <3>1 DEF Lists!ListIsLast
  <2>4. CASE i # Len(s)
    <3>1. i + 1 \in 1 .. Len(s)  BY <1>2, <2>1, <2>4
    <3>2. Cell(h, s, i + 1) # h  BY <1>2, <3>1
    <3> QED  BY <2>2, <2>4, <3>2 DEF Lists!ListIsLast
  <2> QED  BY <2>3, <2>4
<1> HIDE DEF s, r, n
<1> QED  BY <1>5, <1>6, <1>7, <1>8 DEF s, r, n

\* Whatever the calls of list.h, in whatever order and on however many heads
\* and elements, the links of every list in use are the sequence that the
\* calls promise, and list_empty, list_is_singular and list_is_last say so.
THEOREM LinksHold == AllSpec => []LinksAreLists
<1> DEFINE I == part = "lists" => ListsInv
<1>1. AllInit => I
  <2> SUFFICES ASSUME AllInit, part = "lists" PROVE ListsInv
    OBVIOUS
  <2>1. Lists!Init  BY DEF AllInit
  <2> QED  BY <2>1, ListsInit
<1>2. I /\ [AllNext]_all => I'
  <2> SUFFICES ASSUME I, [AllNext]_all, part' = "lists" PROVE ListsInv'
    OBVIOUS
  <2>1. CASE InLists /\ Lists!Next
    <3>1. part = "lists" /\ Lists!Next  BY <2>1 DEF InLists
    <3> QED  BY <3>1, ListsStep
  <2>2. CASE UNCHANGED <<part, listVars>>
    <3>1. UNCHANGED <<part, link, list, stale, walk>>  BY <2>2 DEF listVars
    <3>2. ListsInv  BY <3>1
    <3> QED  BY <3>1, <3>2 DEF ListsInv
  <2>3. CASE InChildren /\ Next  BY <2>2, <2>3 DEF InChildren
  <2>4. CASE InThreads /\ Locks!Next  BY <2>2, <2>4 DEF InThreads
  <2>5. CASE UNCHANGED all  BY <2>2, <2>5 DEF all
  <2> QED  BY <2>1, <2>3, <2>4, <2>5 DEF AllNext
<1>3. I => LinksAreLists
  <2> SUFFICES ASSUME I, part = "lists" PROVE Lists!ListsAreSequences
    BY DEF LinksAreLists
  <2> QED  BY ListsHold
<1> HIDE DEF I
<1> QED  BY <1>1, <1>2, <1>3, PTL DEF AllSpec
=============================================================================
