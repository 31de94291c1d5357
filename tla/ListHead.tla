------------------------------ MODULE ListHead ------------------------------
(***************************************************************************)
(* The circular doubly linked lists of rpc/pbc/list.h.  A cell is the      *)
(* struct list_head of a list or of an element.  Beside the links the      *)
(* specification keeps, for every head, the sequence a caller believes its *)
(* list to be; each operation changes it by what its name promises.        *)
(*                                                                         *)
(* A head from which list_splice, list_append or list_replace has taken    *)
(* the elements still points at them: it is stale until it is initialised. *)
(***************************************************************************)
EXTENDS Integers, Sequences, FiniteSets, SequencesExt, FiniteSetsExt

CONSTANTS
    Heads, Elems,   \* the heads and the elements
    Key(_)          \* what a compare function orders elements by

Cells == Heads \cup Elems
Poison == "poison"      \* 0xbabebabe, 0xcafecafe and uninitialised memory

VARIABLES
    link,   \* next and prev of every cell
    list,   \* the sequence of elements of every head
    stale,  \* heads whose elements were taken away
    walk    \* the list_add_order under way, if there is one

vars == <<link, list, stale, walk>>

-----------------------------------------------------------------------------
(* The functions of list.h: they take the links and return them changed.   *)

InitHead(l, h) == [l EXCEPT ![h] = [next |-> h, prev |-> h]]

\* both ends of the chain a .. b are put between two cells
Join(l, x, a, b, y) ==
    [[[[l EXCEPT ![x].next = a] EXCEPT ![a].prev = x] EXCEPT ![b].next = y] EXCEPT ![y].prev = b]

ListAdd(l, new, head) == Join(l, head, new, new, l[head].next)
ListAddTail(l, new, head) == Join(l, l[head].prev, new, new, head)

Unlink(l, old) ==
    LET p == l[old].prev
        n == l[old].next
    IN  [[l EXCEPT ![p].next = n] EXCEPT ![n].prev = p]

ListDel(l, old) == [Unlink(l, old) EXCEPT ![old] = [next |-> Poison, prev |-> Poison]]
ListDelInit(l, old) == InitHead(Unlink(l, old), old)

ListMove(l, e, head) == ListAdd(ListDel(l, e), e, head)
ListMoveTail(l, e, head) == ListAddTail(ListDel(l, e), e, head)

ListEmpty(l, head) == l[head].next = head
ListIsLast(l, e, head) == l[e].next = head
ListIsSingular(l, head) == ~ ListEmpty(l, head) /\ l[head].next = l[head].prev

Splice(l, from, head) ==
    IF ListEmpty(l, from) THEN l
    ELSE Join(l, head, l[from].next, l[from].prev, l[head].next)

\* mutant: the last element keeps pointing at the old head
AppendLosesTail(l, from, head) ==
    IF ListEmpty(l, from) THEN l
    ELSE LET last == l[head].prev
             a == l[from].next
         IN  [[[l EXCEPT ![last].next = a] EXCEPT ![a].prev = last]
                 EXCEPT ![head].prev = l[from].prev]

AppendList(l, from, head) ==
    IF ListEmpty(l, from) THEN l
    ELSE Join(l, l[head].prev, l[from].next, l[from].prev, head)

\* statement by statement: an empty old list is overwritten through new
ListReplace(l, old, new) ==
    LET a == [l EXCEPT ![new].next = l[old].next]
        b == [a EXCEPT ![a[new].next].prev = new]
        c == [b EXCEPT ![new].prev = b[old].prev]
    IN  [c EXCEPT ![c[new].prev].next = new]

RotateLeft(l, head) ==
    IF ListEmpty(l, head) THEN l ELSE ListMoveTail(l, l[head].next, head)

-----------------------------------------------------------------------------
(* Calls                                                                    *)

Usable == Heads \ stale
Linked == UNION {Range(list[h]) : h \in Usable}
Free == Elems \ Linked

Init ==
    /\ link = [c \in Cells |-> IF c \in Heads THEN [next |-> c, prev |-> c]
                               ELSE [next |-> Poison, prev |-> Poison]]
    /\ list = [h \in Heads |-> <<>>]
    /\ stale = {}
    /\ walk = {}

INIT_LIST_HEAD(h) ==
    /\ h \in stale
    /\ link' = InitHead(link, h)
    /\ list' = [list EXCEPT ![h] = <<>>]
    /\ stale' = stale \ {h}

Add(e, h) ==
    /\ link' = ListAdd(link, e, h)
    /\ list' = [list EXCEPT ![h] = <<e>> \o @]

AddTail(e, h) ==
    /\ link' = ListAddTail(link, e, h)
    /\ list' = [list EXCEPT ![h] = Append(@, e)]

\* list_add_order, begin: the walk from the tail back starts
OrderBegin(e, h) ==
    /\ walk' = {[new |-> e, head |-> h, pos |-> link[h].prev]}
    /\ UNCHANGED <<link, list, stale>>

\* compare(new, pos) < 0: one step back
OrderBack(w) ==
    /\ w.pos # w.head /\ Key(w.new) < Key(w.pos)
    /\ walk' = {[w EXCEPT !.pos = link[@].prev]}
    /\ UNCHANGED <<link, list, stale>>

\* the walk met a cell that is not greater, or the head; the caller's view:
\* the element is put after the last one that is not greater
OrderAdd(w) ==
    /\ w.pos = w.head \/ Key(w.new) >= Key(w.pos)
    /\ walk' = {}
    /\ link' = ListAdd(link, w.new, w.pos)
    /\ LET s == list[w.head]
           at == Max({0} \cup {i \in DOMAIN s : Key(w.new) >= Key(s[i])})
       IN  list' = [list EXCEPT ![w.head] = SubSeq(s, 1, at) \o <<w.new>> \o SubSeq(s, at + 1, Len(s))]
    /\ UNCHANGED stale

Without(h, i) == [list EXCEPT ![h] = RemoveAt(@, i)]

Del(h, i) == link' = ListDel(link, list[h][i]) /\ list' = Without(h, i)
DelInit(h, i) == link' = ListDelInit(link, list[h][i]) /\ list' = Without(h, i)

Move(g, i, h) ==
    /\ link' = ListMove(link, list[g][i], h)
    /\ list' = [Without(g, i) EXCEPT ![h] = <<list[g][i]>> \o @]

MoveTail(g, i, h) ==
    /\ link' = ListMoveTail(link, list[g][i], h)
    /\ list' = [Without(g, i) EXCEPT ![h] = Append(@, list[g][i])]

\* the two forms: list_splice leaves `from' as it was, list_splice_init
\* initialises it, unless it is empty
Taken(l, from, init) == IF init /\ ~ ListEmpty(link, from) THEN InitHead(l, from) ELSE l
StaleAfter(from, init) == IF init \/ ListEmpty(link, from) THEN stale ELSE stale \cup {from}

ListSplice(from, h, init) ==
    /\ link' = Taken(Splice(link, from, h), from, init)
    /\ list' = [list EXCEPT ![h] = list[from] \o @, ![from] = <<>>]
    /\ stale' = StaleAfter(from, init)

ListAppend(from, h, init) ==
    /\ link' = Taken(AppendList(link, from, h), from, init)
    /\ list' = [list EXCEPT ![h] = @ \o list[from], ![from] = <<>>]
    /\ stale' = StaleAfter(from, init)

ReplaceElem(h, i, new, init) ==
    /\ link' = LET l == ListReplace(link, list[h][i], new)
               IN  IF init THEN InitHead(l, list[h][i]) ELSE l
    /\ list' = [list EXCEPT ![h][i] = new]

\* another head takes the list over, an empty one too
ReplaceHead(old, new, init) ==
    /\ link' = LET l == ListReplace(link, old, new) IN IF init THEN InitHead(l, old) ELSE l
    /\ list' = [list EXCEPT ![new] = list[old], ![old] = <<>>]
    /\ stale' = (stale \ {new}) \cup (IF init THEN {} ELSE {old})

Rotate(h) ==
    /\ link' = RotateLeft(link, h)
    /\ list' = [list EXCEPT ![h] = IF @ = <<>> THEN @ ELSE Append(Tail(@), Head(@))]

Insert == \E h \in Usable, e \in Free : Add(e, h) \/ AddTail(e, h)
Delete == \E h \in Usable : \E i \in DOMAIN list[h] : Del(h, i) \/ DelInit(h, i)
Shift ==
    \E g, h \in Usable : \E i \in DOMAIN list[g] : Move(g, i, h) \/ MoveTail(g, i, h)
Exchange ==
    \E h \in Usable, new \in Free, init \in BOOLEAN :
        \E i \in DOMAIN list[h] : ReplaceElem(h, i, new, init)
Turn == \E h \in Usable : Rotate(h)

Transfer ==
    \E from \in Usable, h \in Usable, init \in BOOLEAN :
        from # h /\ (ListSplice(from, h, init) \/ ListAppend(from, h, init))
Succeed ==
    \E old \in Usable, new \in Heads, init \in BOOLEAN :
        old # new /\ list[new] = <<>> /\ ReplaceHead(old, new, init)
Reset == \E h \in Heads : INIT_LIST_HEAD(h)

Sort == \E w \in walk : OrderBack(w) \/ OrderAdd(w)
Call ==
    \/ (Insert \/ Delete \/ Shift \/ Exchange \/ Turn) /\ UNCHANGED stale
    \/ Transfer
    \/ Succeed
    \/ Reset

Next ==
    \/ walk = {} /\ Call /\ UNCHANGED walk
    \/ walk = {} /\ \E h \in Usable, e \in Free : OrderBegin(e, h)
    \/ Sort

Spec == Init /\ [][Next]_vars

-----------------------------------------------------------------------------
\* the cells of a list, the head first
Ring(h) == <<h>> \o list[h]

\* Whatever the order of calls, and whichever form of them, following next
\* from a head that is in use meets exactly the elements the calls put
\* there, in their order, following prev meets them backwards, and
\* list_empty, list_is_last and list_is_singular tell the truth: pbrpc-clnt
\* finds and removes outstanding calls this way (pbrpc-clnt.c:62).
ListsAreSequences ==
    \A h \in Usable :
        LET r == Ring(h)
            n == Len(r)
        IN  /\ \A i \in 1 .. n : LET j == (i % n) + 1
                                 IN  link[r[i]].next = r[j] /\ link[r[j]].prev = r[i]
            /\ ListEmpty(link, h) <=> (list[h] = <<>>)
            /\ ListIsSingular(link, h) <=> (Len(list[h]) = 1)
            /\ \A i \in DOMAIN list[h] : ListIsLast(link, list[h][i], h) <=> (i = Len(list[h]))
=============================================================================
