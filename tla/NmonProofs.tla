----------------------------- MODULE NmonProofs -----------------------------
(* Proofs about nmon.  Of the sampling loop for every session: whatever     *)
(* sections the options switch on and the user toggles, whichever files are *)
(* missing and however the number of CPUs changes.  Of the other parts for  *)
(* every number of processes, disks, mount points, keys and children.       *)
EXTENDS NmonProgram, FiniteSetTheorems, TLAPS

-----------------------------------------------------------------------------
(* The order of the sections                                                *)

Steps == Range(Order)

\* The sections have the positions they have in the loop of lmon16f.c.
LEMMA Places ==
    /\ Len(Order) = 23
    /\ Order[1] = "help" /\ Order[2] = "res" /\ Order[3] = "longterm"
    /\ Order[4] = "cpuread" /\ Order[5] = "smp" /\ Order[6] = "wide"
    /\ Order[7] = "util" /\ Order[8] = "mhz" /\ Order[9] = "memory"
    /\ Order[10] = "large" /\ Order[11] = "vm" /\ Order[12] = "kernel"
    /\ Order[13] = "nfs" /\ Order[14] = "net" /\ Order[15] = "neterr"
    /\ Order[16] = "jfs" /\ Order[17] = "diskread" /\ Order[18] = "diskmap"
    /\ Order[19] = "verbose" /\ Order[20] = "disk" /\ Order[21] = "dgroup"
    /\ Order[22] = "top" /\ Order[23] = "end"
BY DEF Order

\* No section is executed at two places.
LEMMA Distinct ==
    /\ DOMAIN Order = 1 .. 23
    /\ \A a, j \in 1 .. 23 : Order[a] = Order[j] => a = j
<1>1. DOMAIN Order = 1 .. 23  BY DEF Order
<1>2. \A a, j \in 1 .. 23 : Order[a] = Order[j] => a = j
  BY Places
<1> QED  BY <1>1, <1>2

\* Every section has its place.
LEMMA Index ==
    ASSUME NEW a \in 1 .. 23
    PROVE  IndexOf(Order[a]) = a /\ Order[a] \in Steps
BY Distinct, Places DEF IndexOf, Steps, Range

\* Of some places there is a first one.
LEMMA Least ==
    ASSUME NEW S, S \subseteq 1 .. 23, 23 \in S
    PROVE  \E n \in S : \A m \in S : n <= m
<1> DEFINE Below(k) == \E n \in S : n <= k
           P(k) == Below(k) => \E n \in S : \A m \in S : n <= m
<1>1. P(1)  OBVIOUS
<1>2. ASSUME NEW k \in 1 .. 22, P(k) PROVE P(k + 1)
  <2>1. CASE Below(k)  BY <1>2, <2>1
  <2>2. CASE ~ Below(k)
    <3>1. \A m \in S : k + 1 <= m  BY <2>2
    <3> QED  BY <3>1
  <2> QED  BY <2>1, <2>2
<1> HIDE DEF P
<1>3. P(2) /\ P(3) /\ P(4) /\ P(5) /\ P(6) /\ P(7) /\ P(8)  BY <1>1, <1>2
<1>4. P(9) /\ P(10) /\ P(11) /\ P(12) /\ P(13) /\ P(14) /\ P(15)  BY <1>2, <1>3
<1>5. P(16) /\ P(17) /\ P(18) /\ P(19) /\ P(20) /\ P(21) /\ P(22)  BY <1>2, <1>4
<1>6. P(23)  BY <1>2, <1>5
<1>7. Below(23)  OBVIOUS
<1> QED  BY <1>6, <1>7 DEF P

\* What is executed first, from a place on, is active, and what is passed over
\* is not.
LEMMA FirstIsActive ==
    ASSUME NEW from \in 1 .. 23, NEW sh
    PROVE  LET t == FirstActive(from, sh)
           IN  /\ t \in Steps /\ from <= IndexOf(t) /\ IndexOf(t) <= 23 /\ Active(t, sh)
               /\ \A u \in Steps : from <= IndexOf(u) /\ IndexOf(u) < IndexOf(t)
                                     => ~ Active(u, sh)
<1> DEFINE S == {a \in from .. 23 : Active(Order[a], sh)}
<1>1. 23 \in S  BY Places DEF Active
<1>2. PICK n \in S : \A m \in S : n <= m
  <2>1. S \subseteq 1 .. 23 /\ 23 \in S  BY <1>1
  <2> HIDE DEF S
  <2> QED  BY <2>1, Least
<1>3. n \in from .. 23 /\ Active(Order[n], sh)
        /\ \A j \in from .. (n - 1) : ~ Active(Order[j], sh)
  BY <1>2
<1> HIDE DEF S
<1>4. FirstActive(from, sh)
        = Order[CHOOSE a \in from .. 23 :
                  Active(Order[a], sh) /\ \A j \in from .. (a - 1) : ~ Active(Order[j], sh)]
  BY Places DEF FirstActive
<1>5. PICK k \in from .. 23 :
        /\ FirstActive(from, sh) = Order[k] /\ Active(Order[k], sh)
        /\ \A j \in from .. (k - 1) : ~ Active(Order[j], sh)
  BY <1>3, <1>4
<1>6. k \in 1 .. 23 /\ IndexOf(Order[k]) = k /\ Order[k] \in Steps  BY Index
<1>7. ASSUME NEW u \in Steps, from <= IndexOf(u), IndexOf(u) < k PROVE ~ Active(u, sh)
  <2>1. PICK j \in 1 .. 23 : u = Order[j]  BY Distinct DEF Steps, Range
  <2>2. IndexOf(u) = j  BY <2>1, Index
  <2> QED  BY <1>5, <1>7, <2>1, <2>2
<1> QED  BY <1>5, <1>6, <1>7

-----------------------------------------------------------------------------
(* The database                                                             *)

Database ==
    [p : Half, read : SUBSET File, cpu_done : BOOLEAN, text : [File -> Age],
     buf : [Half -> [Data -> Age]], err : [Half -> 0 .. MaxErr]]

\* A new sample changes one entry of the current half.
LEMMA PutFacts ==
    ASSUME NEW d \in Database, NEW x \in Data, NEW a \in Age
    PROVE  LET e == Put(d, x, a)
           IN  /\ e \in Database /\ e.p = d.p /\ e.read = d.read /\ e.cpu_done = d.cpu_done
               /\ e.text = d.text /\ e.err = d.err
               /\ \A h \in Half, y \in Data :
                    e.buf[h][y] = IF h = d.p /\ y = x THEN a ELSE d.buf[h][y]
<1> DEFINE b == [d.buf EXCEPT ![d.p][x] = a]
           e == [d EXCEPT !.buf = b]
<1>1. Put(d, x, a) = e  BY DEF Put, Database
<1>2. b \in [Half -> [Data -> Age]]
  BY DEF Database
<1>3. \A h \in Half, y \in Data : b[h][y] = IF h = d.p /\ y = x THEN a ELSE d.buf[h][y]
  BY DEF Database
<1> HIDE DEF b
<1>4. /\ e \in Database /\ e.p = d.p /\ e.read = d.read /\ e.cpu_done = d.cpu_done
      /\ e.text = d.text /\ e.err = d.err /\ e.buf = b
  BY <1>2 DEF Database
<1> HIDE DEF e
<1> QED  BY <1>1, <1>3, <1>4

\* A copy to the previous half.
LEMMA CopyFacts ==
    ASSUME NEW d \in Database, NEW x \in Data
    PROVE  LET e == CopyToPrevious(d, x)
           IN  /\ e \in Database /\ e.p = d.p /\ e.read = d.read /\ e.cpu_done = d.cpu_done
               /\ e.text = d.text /\ e.err = d.err
               /\ \A h \in Half, y \in Data :
                    e.buf[h][y] = IF h # d.p /\ y = x THEN d.buf[d.p][x] ELSE d.buf[h][y]
<1> DEFINE q == Other(d.p)
           b == [d.buf EXCEPT ![q][x] = d.buf[d.p][x]]
           e == [d EXCEPT !.buf = b]
<1>1. CopyToPrevious(d, x) = e  BY DEF CopyToPrevious, Database
<1>2. q \in Half /\ \A h \in Half : h = q <=> h # d.p  BY DEF Other, Half, Database
<1> HIDE DEF q
<1>3. b \in [Half -> [Data -> Age]]
  BY <1>2 DEF Database
<1>4. \A h \in Half, y \in Data :
        b[h][y] = IF h # d.p /\ y = x THEN d.buf[d.p][x] ELSE d.buf[h][y]
  BY <1>2 DEF Database
<1> HIDE DEF b
<1>5. /\ e \in Database /\ e.p = d.p /\ e.read = d.read /\ e.cpu_done = d.cpu_done
      /\ e.text = d.text /\ e.err = d.err /\ e.buf = b
  BY <1>3 DEF Database
<1> HIDE DEF e
<1> QED  BY <1>1, <1>4, <1>5

\* proc_read: a file that is there is read once.
LEMMA ReadFacts ==
    ASSUME NEW d \in Database, NEW f \in File
    PROVE  LET e == ProcRead(d, f)
           IN  /\ e \in Database /\ e.p = d.p /\ e.buf = d.buf /\ e.err = d.err
               /\ d.read \subseteq e.read
               /\ e.read = IF f \in missing THEN d.read ELSE d.read \cup {f}
               /\ \A g \in File : e.text[g] = IF g = f /\ g \notin d.read \cup missing
                                              THEN 0 ELSE d.text[g]
               /\ e.cpu_done <=> d.cpu_done /\ (f = "stat" => f \in d.read \cup missing)
<1>1. CASE f \in d.read \cup missing
  BY <1>1 DEF ProcRead, Database
<1>2. CASE f \notin d.read \cup missing
  <2> DEFINE t == [d.text EXCEPT ![f] = 0]
             c == d.cpu_done /\ f # "stat"
             e == [d EXCEPT !.text = t, !.read = d.read \cup {f}, !.cpu_done = c]
  <2>1. ProcRead(d, f) = e  BY <1>2 DEF ProcRead, Database
  <2>2. /\ t \in [File -> Age] /\ d.read \cup {f} \in SUBSET File /\ c \in BOOLEAN
        /\ \A g \in File : t[g] = IF g = f THEN 0 ELSE d.text[g]
    BY DEF Database, Age, Never
  <2> HIDE DEF t, c
  <2>3. /\ e \in Database /\ e.p = d.p /\ e.buf = d.buf /\ e.err = d.err /\ e.text = t
        /\ e.read = d.read \cup {f} /\ e.cpu_done = c
    BY <2>2 DEF Database
  <2> HIDE DEF e
  <2>4. e.cpu_done <=> d.cpu_done /\ (f = "stat" => f \in d.read \cup missing)
    BY <1>2, <2>3 DEF c
  <2> QED  BY <1>2, <2>1, <2>2, <2>3, <2>4
<1> QED  BY <1>1, <1>2

\* switcher: the halves change places, everything is one loop older, and every
\* file is to be read again.
LEMMA SwitchFacts ==
    ASSUME NEW d \in Database
    PROVE  LET e == Switcher(d)
           IN  /\ e \in Database /\ e.p = Other(d.p) /\ Other(e.p) = d.p /\ e.read = {}
               /\ e.cpu_done = d.cpu_done /\ e.err = d.err
               /\ \A h \in Half, x \in Data : e.buf[h][x] = Older(d.buf[h][x])
<1> DEFINE t == [f \in File |-> Older(d.text[f])]
           b == [h \in Half |-> [x \in Data |-> Older(d.buf[h][x])]]
           e == [d EXCEPT !.p = Other(d.p), !.read = {}, !.text = t, !.buf = b]
<1>1. Switcher(d) = e  BY DEF Switcher, Database
<1>2. \A a \in Age : Older(a) \in Age  BY DEF Age, Never, Older
<1>3. /\ t \in [File -> Age] /\ b \in [Half -> [Data -> Age]]
      /\ \A h \in Half, x \in Data : b[h][x] = Older(d.buf[h][x])
  BY <1>2 DEF Database
<1>4. Other(d.p) \in Half /\ Other(Other(d.p)) = d.p  BY DEF Other, Half, Database
<1> HIDE DEF t, b
<1>5. /\ e \in Database /\ e.p = Other(d.p) /\ e.read = {} /\ e.buf = b
      /\ e.cpu_done = d.cpu_done /\ e.err = d.err
  BY <1>3, <1>4 DEF Database
<1> HIDE DEF e
<1> QED  BY <1>1, <1>3, <1>4, <1>5

\* What is in the database: a text that was read in this interval is of this
\* loop, so is the CPU sample once it was taken from it, and of NFS there is
\* nothing as long as its file is missing.
DbInv(d) ==
    /\ d \in Database /\ missing \subseteq {"vmstat", "nfs"}
    /\ \A f \in d.read : d.text[f] = 0
    /\ d.read \cap missing = {}
    /\ "stat" \in d.read /\ d.cpu_done => d.buf[d.p]["cpu"] = 0
    /\ "nfs" \in missing => \A h \in Half : d.buf[h]["nfs"] = Never

\* What no section undoes: samples of this loop stay, and those of the previous
\* half stay or are replaced by ones of this loop.
Keeps(d, e) ==
    /\ e.p = d.p /\ d.read \subseteq e.read
    /\ "stat" \in d.read /\ d.cpu_done => e.cpu_done
    /\ \A x \in Data : d.buf[d.p][x] = 0 => e.buf[d.p][x] = 0
    /\ \A x \in Data : e.buf[Other(d.p)][x] \in {d.buf[Other(d.p)][x], 0}

\* One reader after another.
LEMMA KeepsTwice ==
    ASSUME NEW d, NEW e, NEW f, Keeps(d, e), Keeps(e, f)
    PROVE  Keeps(d, f)
BY DEF Keeps

\* The halves are two.
LEMMA TwoHalves ==
    ASSUME NEW h \in Half
    PROVE  Other(h) \in Half /\ Other(h) # h /\ \A k \in Half : k = h \/ k = Other(h)
BY DEF Half, Other

\* proc_read leaves the samples alone.
LEMMA ReadKeeps ==
    ASSUME NEW d, DbInv(d), NEW f \in File
    PROVE  LET e == ProcRead(d, f)
           IN  /\ DbInv(e) /\ Keeps(d, e)
               /\ f \notin missing => f \in e.read /\ e.text[f] = 0
<1> DEFINE e == ProcRead(d, f)
<1>0. d \in Database  BY DEF DbInv
<1>1. /\ d \in Database
      /\ e \in Database /\ e.p = d.p /\ e.buf = d.buf /\ e.err = d.err
      /\ d.read \subseteq e.read
      /\ e.read = IF f \in missing THEN d.read ELSE d.read \cup {f}
      /\ \A g \in File : e.text[g] = IF g = f /\ g \notin d.read \cup missing
                                     THEN 0 ELSE d.text[g]
      /\ e.cpu_done <=> d.cpu_done /\ (f = "stat" => f \in d.read \cup missing)
  BY <1>0, ReadFacts, Zenon
<1> HIDE DEF e
<1>2. d.read \subseteq File /\ e.read \subseteq File /\ "stat" \notin missing
  BY <1>1 DEF Database, DbInv
<1>3. \A g \in e.read : e.text[g] = 0  BY <1>1, <1>2 DEF DbInv
<1>4. e.read \cap missing = {}  BY <1>1 DEF DbInv
<1>5. "stat" \in e.read /\ e.cpu_done => "stat" \in d.read /\ d.cpu_done
  BY <1>1, <1>2
<1>6. DbInv(e)  BY <1>1, <1>3, <1>4, <1>5 DEF DbInv
<1>7. Keeps(d, e)
  <2>1. "stat" \in d.read /\ d.cpu_done => e.cpu_done  BY <1>1
  <2> QED  BY <1>1, <2>1 DEF Keeps
<1>8. f \notin missing => f \in e.read /\ e.text[f] = 0
  BY <1>1, <1>3
<1> QED  BY <1>6, <1>7, <1>8 DEF e

\* A sample of this loop in the current half.
LEMMA PutKeeps ==
    ASSUME NEW d, DbInv(d), NEW x \in Data, x = "nfs" => x \notin missing
    PROVE  LET e == Put(d, x, 0)
           IN  DbInv(e) /\ Keeps(d, e) /\ e.buf[d.p][x] = 0
<1> DEFINE e == Put(d, x, 0)
<1>1. d \in Database /\ 0 \in Age /\ d.p \in Half
  BY DEF DbInv, Database, Age, Never
<1>2. /\ e \in Database /\ e.p = d.p /\ e.read = d.read /\ e.cpu_done = d.cpu_done
      /\ e.text = d.text /\ e.err = d.err
      /\ \A h \in Half, y \in Data :
           e.buf[h][y] = IF h = d.p /\ y = x THEN 0 ELSE d.buf[h][y]
  BY <1>1, PutFacts
<1> HIDE DEF e
<1>3. "cpu" \in Data /\ "nfs" \in Data  BY DEF Data
<1>4. DbInv(e)  BY <1>1, <1>2, <1>3 DEF DbInv
<1>5. Keeps(d, e)  BY <1>1, <1>2, TwoHalves DEF Keeps
<1>6. e.buf[d.p][x] = 0  BY <1>1, <1>2
<1> QED  BY <1>4, <1>5, <1>6 DEF e

\* A copy of a sample of this loop, or of nothing, to the previous half.
LEMMA CopyKeeps ==
    ASSUME NEW d, DbInv(d), NEW x \in Data,
           d.buf[d.p][x] \in {0, d.buf[Other(d.p)][x]}
    PROVE  LET e == CopyToPrevious(d, x)
           IN  /\ DbInv(e) /\ Keeps(d, e)
               /\ e.buf[d.p][x] = d.buf[d.p][x] /\ e.buf[Other(d.p)][x] = d.buf[d.p][x]
<1> DEFINE e == CopyToPrevious(d, x)
<1>1. d \in Database /\ d.p \in Half  BY DEF DbInv, Database
<1>2. /\ e \in Database /\ e.p = d.p /\ e.read = d.read /\ e.cpu_done = d.cpu_done
      /\ e.text = d.text /\ e.err = d.err
      /\ \A h \in Half, y \in Data :
           e.buf[h][y] = IF h # d.p /\ y = x THEN d.buf[d.p][x] ELSE d.buf[h][y]
  BY <1>1, CopyFacts
<1> HIDE DEF e
<1>3. "cpu" \in Data /\ "nfs" \in Data  BY DEF Data
<1>4. Other(d.p) \in Half /\ Other(d.p) # d.p  BY <1>1, TwoHalves
<1>5. DbInv(e)
  <2>1. "nfs" \in missing => \A h \in Half : e.buf[h]["nfs"] = Never
    BY <1>1, <1>2, <1>3 DEF DbInv
  <2> QED  BY <1>1, <1>2, <1>3, <2>1 DEF DbInv
<1>6. Keeps(d, e)  BY <1>1, <1>2, <1>4 DEF Keeps
<1> QED  BY <1>1, <1>2, <1>4, <1>5, <1>6 DEF e

\* The CPU sample (proc_cpu), once per reading of /proc/stat.
LEMMA CpuKeeps ==
    ASSUME NEW d, DbInv(d)
    PROVE  LET e == ReadCpu(d)
           IN  /\ DbInv(e) /\ Keeps(d, e)
               /\ "stat" \in e.read /\ e.cpu_done /\ e.buf[e.p]["cpu"] = 0
<1> DEFINE r == ProcRead(d, "stat")
<1>1. "stat" \in File /\ "stat" \notin missing /\ "cpu" \in Data
  BY DEF File, Data, DbInv
<1>2. DbInv(r) /\ Keeps(d, r) /\ "stat" \in r.read /\ r.text["stat"] = 0
  BY <1>1, ReadKeeps
<1>3. ReadCpu(d) = ProcCpu(r)  BY DEF ReadCpu
<1> HIDE DEF r
<1>4. CASE r.cpu_done
  <2>1. ReadCpu(d) = r  BY <1>3, <1>4 DEF ProcCpu
  <2> QED  BY <1>2, <1>4, <2>1 DEF DbInv
<1>5. CASE ~ r.cpu_done
  <2> DEFINE u == Put(r, "cpu", 0)
             e == [u EXCEPT !.cpu_done = TRUE]
  <2>1. DbInv(u) /\ Keeps(r, u) /\ u.buf[r.p]["cpu"] = 0
    BY <1>1, <1>2, PutKeeps
  <2>2. u.p = r.p /\ u.read = r.read
    <3>1. r \in Database /\ 0 \in Age  BY <1>2 DEF DbInv, Age, Never
    <3> QED  BY <1>1, <3>1, PutFacts
  <2> HIDE DEF u
  <2>3. /\ e \in Database /\ e.p = u.p /\ e.read = u.read /\ e.text = u.text /\ e.buf = u.buf
        /\ e.cpu_done
    BY <2>1 DEF DbInv, Database
  <2> HIDE DEF e
  <2>4. DbInv(e)  BY <2>1, <2>2, <2>3 DEF DbInv
  <2>5. Keeps(u, e)  BY <2>3 DEF Keeps
  <2>6. Keeps(d, e)  BY <1>2, <2>1, <2>5, KeepsTwice
  <2>7. "stat" \in e.read /\ e.buf[e.p]["cpu"] = 0
    BY <1>2, <2>1, <2>2, <2>3
  <2>8. ReadCpu(d) = IF old_cpus # cpus THEN CopyToPrevious(e, "cpu") ELSE e
    BY <1>2, <1>3, <1>5 DEF ProcCpu, u, e
  <2>9. CASE old_cpus = cpus
    <3>1. ReadCpu(d) = e  BY <2>8, <2>9
    <3> QED  BY <2>3, <2>4, <2>6, <2>7, <3>1
  <2>10. CASE old_cpus # cpus
    <3> DEFINE c == CopyToPrevious(e, "cpu")
    <3>1. DbInv(c) /\ Keeps(e, c) /\ c.buf[e.p]["cpu"] = 0
      BY <1>1, <2>4, <2>7, CopyKeeps
    <3>2. c.p = e.p /\ c.read = e.read /\ c.cpu_done = e.cpu_done
      BY <1>1, <2>3, CopyFacts
    <3>3. ReadCpu(d) = c  BY <2>8, <2>10
    <3> HIDE DEF c
    <3>4. Keeps(d, c)  BY <2>6, <3>1, KeepsTwice
    <3> QED  BY <2>3, <2>7, <3>1, <3>2, <3>3, <3>4
  <2> QED  BY <2>9, <2>10
<1> QED  BY <1>4, <1>5

\* The readers of memory, virtual memory, NFS and network figures.
LEMMA MemKeeps ==
    ASSUME NEW d, DbInv(d)
    PROVE  LET e == ProcMem(ProcRead(d, "meminfo"))
           IN  DbInv(e) /\ Keeps(d, e) /\ e.buf[d.p]["mem"] = 0
<1> DEFINE r == ProcRead(d, "meminfo")
           e == Put(r, "mem", 0)
<1>1. "meminfo" \in File /\ "meminfo" \notin missing /\ "mem" \in Data
  BY DEF File, Data, DbInv
<1>2. DbInv(r) /\ Keeps(d, r) /\ r.text["meminfo"] = 0  BY <1>1, ReadKeeps
<1> HIDE DEF r
<1>3. DbInv(e) /\ Keeps(r, e) /\ e.buf[r.p]["mem"] = 0  BY <1>1, <1>2, PutKeeps
<1>4. ProcMem(r) = e  BY <1>2 DEF ProcMem
<1> HIDE DEF e
<1>5. Keeps(d, e) /\ r.p = d.p  BY <1>2, <1>3, KeepsTwice DEF Keeps
<1> QED  BY <1>3, <1>4, <1>5 DEF r

\* Without /proc/vmstat there is no sample.
LEMMA VmKeeps ==
    ASSUME NEW d, DbInv(d)
    PROVE  LET e == ReadVmstat(d)
           IN  /\ DbInv(e) /\ Keeps(d, e)
               /\ VmFails(d) <=> "vmstat" \in missing
               /\ "vmstat" \notin missing => e.buf[d.p]["vm"] = 0
<1> DEFINE r == ProcRead(d, "vmstat")
           e == Put(r, "vm", 0)
<1>1. "vmstat" \in File /\ "vm" \in Data  BY DEF File, Data
<1>2. /\ DbInv(r) /\ Keeps(d, r)
      /\ "vmstat" \notin missing => "vmstat" \in r.read /\ r.text["vmstat"] = 0
  BY <1>1, ReadKeeps
<1>3. VmFails(d) <=> "vmstat" \notin r.read  BY DEF VmFails
<1>4. ReadVmstat(d) = IF VmFails(d) THEN r ELSE Put(r, "vm", r.text["vmstat"])
  BY DEF ReadVmstat
<1> HIDE DEF r
<1>5. VmFails(d) <=> "vmstat" \in missing  BY <1>2, <1>3 DEF DbInv
<1>6. CASE "vmstat" \in missing
  <2>1. ReadVmstat(d) = r  BY <1>4, <1>5, <1>6
  <2> QED  BY <1>2, <1>5, <1>6, <2>1
<1>7. CASE "vmstat" \notin missing
  <2>1. ReadVmstat(d) = e  BY <1>2, <1>4, <1>5, <1>7
  <2>2. DbInv(e) /\ Keeps(r, e) /\ e.buf[r.p]["vm"] = 0  BY <1>1, <1>2, PutKeeps
  <2> HIDE DEF e
  <2>3. Keeps(d, e) /\ r.p = d.p  BY <1>2, <2>2, KeepsTwice DEF Keeps
  <2> QED  BY <1>5, <1>7, <2>1, <2>2, <2>3
<1> QED  BY <1>6, <1>7

\* The first time the NFS sample, if there is one, is copied to the previous
\* half.
LEMMA NfsKeeps ==
    ASSUME NEW d, DbInv(d)
    PROVE  LET r == ProcNfs(d)
               e == CopyToPrevious(r, "nfs")
           IN  /\ DbInv(r) /\ Keeps(d, r) /\ DbInv(e) /\ Keeps(d, e)
               /\ "nfs" \notin missing =>
                    /\ r.buf[d.p]["nfs"] = 0 /\ e.buf[d.p]["nfs"] = 0
                    /\ e.buf[Other(d.p)]["nfs"] = 0
<1> DEFINE b == ProcRead(d, "nfs")
           r == ProcNfs(d)
           e == CopyToPrevious(r, "nfs")
<1>1. "nfs" \in File /\ "nfs" \in Data  BY DEF File, Data
<1>2. DbInv(b) /\ Keeps(d, b) /\ ("nfs" \notin missing => b.text["nfs"] = 0)
  BY <1>1, ReadKeeps
<1>3. r = IF "nfs" \notin missing THEN Put(b, "nfs", b.text["nfs"]) ELSE b
  BY DEF ProcNfs, NfsFound
<1> HIDE DEF b
<1>4. /\ DbInv(r) /\ Keeps(d, r)
      /\ "nfs" \notin missing => r.buf[d.p]["nfs"] = 0
  <2>1. CASE "nfs" \in missing
    <3>1. r = b  BY <1>3, <2>1
    <3> QED  BY <1>2, <2>1, <3>1
  <2>2. CASE "nfs" \notin missing
    <3>1. r = Put(b, "nfs", 0)  BY <1>2, <1>3, <2>2
    <3>2. DbInv(r) /\ Keeps(b, r) /\ r.buf[b.p]["nfs"] = 0
      BY <1>1, <1>2, <2>2, <3>1, PutKeeps
    <3> HIDE DEF r
    <3> QED  BY <1>2, <3>2, KeepsTwice DEF Keeps
  <2> QED  BY <2>1, <2>2
<1> HIDE DEF r
<1>5. r.p = d.p  BY <1>4 DEF Keeps
<1>6. r.buf[r.p]["nfs"] \in {0, r.buf[Other(r.p)]["nfs"]}
  <2>1. r.p \in Half /\ Other(r.p) \in Half  BY <1>4, TwoHalves DEF DbInv, Database
  <2> QED  BY <1>4, <1>5, <2>1 DEF DbInv
<1>7. /\ DbInv(e) /\ Keeps(r, e) /\ e.buf[r.p]["nfs"] = r.buf[r.p]["nfs"]
      /\ e.buf[Other(r.p)]["nfs"] = r.buf[r.p]["nfs"]
  BY <1>1, <1>4, <1>6, CopyKeeps
<1> HIDE DEF e
<1>8. Keeps(d, e)  BY <1>4, <1>7, KeepsTwice
<1> QED  BY <1>4, <1>5, <1>7, <1>8 DEF r, e

\* The network counters are read in every execution, with the errors.
LEMMA NetKeeps ==
    ASSUME NEW d, DbInv(d), errNow \in 0 .. MaxErr
    PROVE  LET e == ProcNet(d)
           IN  DbInv(e) /\ Keeps(d, e) /\ e.buf[d.p]["net"] = 0
<1> DEFINE u == Put(d, "net", 0)
           e == [u EXCEPT !.err = [u.err EXCEPT ![d.p] = errNow]]
<1>1. "net" \in Data  BY DEF Data
<1>2. DbInv(u) /\ Keeps(d, u) /\ u.buf[d.p]["net"] = 0  BY <1>1, PutKeeps
<1>3. ProcNet(d) = [u EXCEPT !.err[d.p] = errNow]  BY DEF ProcNet
<1> HIDE DEF u
<1>4. [u.err EXCEPT ![d.p] = errNow] \in [Half -> 0 .. MaxErr]
  BY <1>2 DEF DbInv, Database
<1>5. /\ e \in Database /\ e.p = u.p /\ e.read = u.read /\ e.text = u.text /\ e.buf = u.buf
      /\ e.cpu_done = u.cpu_done
  BY <1>2, <1>4 DEF DbInv, Database
<1>6. ProcNet(d) = e  BY <1>2, <1>3 DEF DbInv, Database
<1> HIDE DEF e
<1>7. DbInv(e) /\ Keeps(u, e)  BY <1>2, <1>5 DEF DbInv, Keeps
<1>8. Keeps(d, e)  BY <1>2, <1>7, KeepsTwice
<1> QED  BY <1>2, <1>5, <1>6, <1>7, <1>8

-----------------------------------------------------------------------------
(* The inductive invariant                                                  *)

\* The step u lies behind us in this loop and was executed.
Passed(u) == pc \in Steps /\ IndexOf(u) < IndexOf(pc) /\ Active(u, now)

\* What has been sampled when it was.
Sampled(u) ==
    /\ u \in {"longterm", "cpuread", "util", "kernel"} => db.cpu_done
    /\ u = "net" => db.buf[db.p]["net"] = 0
    /\ u = "diskread" => db.buf[db.p]["disk"] = 0
    /\ u = "top" => db.buf[db.p]["procs"] = 0
    /\ u = "nfs" /\ "nfs" \notin missing => db.buf[db.p]["nfs"] = 0
    /\ u = "vm" /\ "vmstat" \notin missing => db.buf[db.p]["vm"] = 0

DoneInv == pc \in Steps => "stat" \in db.read /\ \A u \in Steps : Passed(u) => Sampled(u)

\* The sections of a loop are those that were on when it began; only a
\* recording's virtual memory is switched off on the way.
ShownInv ==
    /\ pc \in Steps /\ (pc # "end" \/ mode # "screen") =>
         /\ shown \subseteq now /\ now \ {"vm"} \subseteq shown
         /\ IndexOf(pc) <= IndexOf("vm") => shown = now
    /\ pc \in Steps => Active(pc, shown)

\* The sections whose previous samples are to be of the last interval: those
\* that were on a loop ago, and in a recording all.
Due == IF mode # "screen" THEN shown ELSE IF pc = "begin" THEN now ELSE was

CpuSections == {"longterm", "smp", "wide", "util", "kernel"}
DiskSections == {"diskmap", "verbose", "disk", "dgroup"}

PrevOf(d) ==
    LET prev == d.buf[Other(d.p)]
    IN  /\ Due \cap CpuSections # {} => prev["cpu"] <= 1
        /\ "net" \in Due => prev["net"] <= 1
        /\ Due \cap DiskSections # {} => prev["disk"] <= 1
        /\ "top" \in Due => prev["procs"] \in {0, 1, Never}
        /\ "nfs" \in Due => prev["nfs"] \in {0, 1, Never}
        /\ "vm" \in Due /\ "vmstat" \notin missing => prev["vm"] <= 1

PrevInv == PrevOf(db)

\* The CPUUTIL headings of the CPUs that are there all the time.
UtilHeads(ns, hs) ==
    /\ <<"CPUUTIL_ALL", 0>> \in hs
    /\ \A a \in Nat \ {0} : (\A n \in ns : a <= n) => <<"CPUUTIL", a>> \in hs

\* The headings a recording has by now.
HeadInv ==
    IF mode # "file" THEN rows = {}
    ELSE /\ {"CPU"} \X (1 .. max_cpus) \subseteq heads
         /\ {"CPU_ALL", "MEM", "PROC", "NET", "DISK", "JFSFILE"} \X {0} \subseteq heads
         /\ "mhz" \in shown => <<"MHZ", 0>> \in heads
         /\ "dgroup" \in shown => <<"DG", 0>> \in heads
         /\ "top" \in shown => <<"TOP", 0>> \in heads
         /\ "vm" \notin first => <<"VM", 0>> \in heads
         /\ "util" \notin first => UtilHeads(session.cpus, heads)
         /\ "huge" \notin first => <<"HUGEPAGES", 0>> \in heads
         /\ "nfs" \notin first => <<"NFS", 0>> \in heads \/ late \/ "nfs" \in missing
         /\ Passed("cpuread") => cpus <= max_cpus
         /\ \A r \in rows : r \in heads \/ Excused(r)

Inv ==
    /\ RateIsOfInterval /\ DbInv(db)
    /\ DoneInv /\ ShownInv /\ PrevInv /\ HeadInv

-----------------------------------------------------------------------------
(* What every section keeps                                                 *)

\* The places of the steps that others depend on.
LEMMA Around ==
    /\ \A s \in Steps : /\ IndexOf(s) \in 1 .. 23 /\ s # "begin"
                        /\ s # "end" => IndexOf(s) \in 1 .. 22
    /\ \A s, t \in Steps : IndexOf(s) = IndexOf(t) => s = t
    /\ {"longterm", "cpuread", "util", "kernel", "net", "diskread", "top", "nfs", "vm"}
         \subseteq Steps
    /\ "end" \in Steps /\ IndexOf("end") = 23 /\ IndexOf("vm") = 11
    /\ IndexOf("cpuread") = 4 /\ IndexOf("smp") = 5 /\ IndexOf("wide") = 6
    /\ IndexOf("diskread") = 17 /\ IndexOf("diskmap") = 18 /\ IndexOf("verbose") = 19
    /\ IndexOf("disk") = 20 /\ IndexOf("dgroup") = 21
<1>1. ASSUME NEW s \in Steps PROVE \E a \in 1 .. 23 : s = Order[a] /\ IndexOf(s) = a
  BY Distinct, Index DEF Steps, Range
<1>2. \A s, t \in Steps : IndexOf(s) = IndexOf(t) => s = t  BY <1>1
<1>3. ASSUME NEW s \in Steps
      PROVE  IndexOf(s) \in 1 .. 23 /\ (s # "end" => IndexOf(s) \in 1 .. 22)
  BY <1>1, Places
<1>4. /\ "longterm" \in Steps /\ "cpuread" \in Steps /\ "util" \in Steps /\ "kernel" \in Steps
      /\ "net" \in Steps /\ "diskread" \in Steps /\ "top" \in Steps /\ "nfs" \in Steps
      /\ "vm" \in Steps /\ "end" \in Steps
  BY Index, Places
<1>5. /\ IndexOf("end") = 23 /\ IndexOf("vm") = 11
      /\ IndexOf("cpuread") = 4 /\ IndexOf("smp") = 5 /\ IndexOf("wide") = 6
  BY Index, Places
<1>6. /\ IndexOf("diskread") = 17 /\ IndexOf("diskmap") = 18 /\ IndexOf("verbose") = 19
      /\ IndexOf("disk") = 20 /\ IndexOf("dgroup") = 21
  BY Index, Places
<1>7. ASSUME NEW s \in Steps PROVE s # "begin"
  BY <1>1, Places
<1> QED  BY <1>2, <1>3, <1>4, <1>5, <1>6, <1>7

\* After a section the loop goes on to the next that is on: what lies behind
\* then is the section, and what lay behind before.
LEMMA GoesOn ==
    ASSUME ShownInv, NEW s \in Steps \ {"end"}, At(s)
    PROVE  /\ pc' \in Steps /\ Active(pc', shown) /\ IndexOf(s) < IndexOf(pc')
           /\ \A u \in Steps \ {s} : Passed(u)' => Passed(u)
<1>1. pc = s /\ pc' = FirstActive(IndexOf(s) + 1, shown) /\ now' = now
  BY DEF At, Frame, Follow
<1>2. IndexOf(s) \in 1 .. 22 /\ IndexOf(s) + 1 \in 1 .. 23  BY Around
<1>3. /\ pc' \in Steps /\ IndexOf(s) + 1 <= IndexOf(pc') /\ Active(pc', shown)
      /\ \A u \in Steps : IndexOf(s) + 1 <= IndexOf(u) /\ IndexOf(u) < IndexOf(pc')
                            => ~ Active(u, shown)
  BY <1>1, <1>2, FirstIsActive
<1>4. \A u \in Steps : IndexOf(u) \in Int  BY Around
<1>5. /\ shown \subseteq now /\ now \ {"vm"} \subseteq shown
      /\ IndexOf(s) <= IndexOf("vm") => shown = now
  BY <1>1 DEF ShownInv
<1>6. ASSUME NEW u \in Steps, u # s, Passed(u)' PROVE Passed(u)
  <2>1. IndexOf(u) < IndexOf(pc') /\ Active(u, now)  BY <1>1, <1>6 DEF Passed
  <2>2. IndexOf(u) # IndexOf(s)  BY <1>6, Around
  <2>3. CASE IndexOf(u) < IndexOf(s)  BY <1>1, <2>1, <2>3 DEF Passed
  <2>4. CASE IndexOf(u) > IndexOf(s)
    <3>1. ~ Active(u, shown)  BY <1>2, <1>3, <1>4, <2>1, <2>4
    <3>2. CASE u = "vm"
      <4>1. shown = now  BY <1>2, <1>4, <1>5, <2>4, <3>2
      <4> QED  BY <2>1, <3>1, <4>1
    <3>3. CASE u # "vm"
      <4>1. Active(u, shown)  BY <1>5, <2>1, <3>3 DEF Active
      <4> QED  BY <3>1, <4>1
    <3> QED  BY <3>2, <3>3
  <2> QED  BY <1>2, <1>4, <2>2, <2>3, <2>4
<1>7. IndexOf(s) < IndexOf(pc')  BY <1>2, <1>3, <1>4
<1> QED  BY <1>3, <1>6, <1>7

\* What was sampled in this loop stays sampled.
LEMMA SampledKeeps ==
    ASSUME NEW u, Sampled(u), "stat" \in db.read, Keeps(db, db'), missing' = missing
    PROVE  Sampled(u)'
<1>1. {"net", "disk", "procs", "nfs", "vm"} \subseteq Data  BY DEF Data
<1>2. db'.p = db.p /\ (db.cpu_done => db'.cpu_done)  BY DEF Keeps
<1>3. \A x \in Data : db.buf[db.p][x] = 0 => db'.buf[db'.p][x] = 0  BY DEF Keeps
<1> QED  BY <1>1, <1>2, <1>3 DEF Sampled

\* A section that only adds samples, and has sampled what it is to sample,
\* keeps the order of the loop and the age of the previous samples.
LEMMA SectionKeeps ==
    ASSUME DbInv(db), DoneInv, ShownInv, PrevInv, NEW s \in Steps \ {"end"}, At(s),
           DbInv(db'), Keeps(db, db'), Sampled(s)',
           shown' = shown \/ (s = "vm" /\ mode # "screen" /\ shown' = shown \ {"vm"})
    PROVE  DbInv(db)' /\ DoneInv' /\ ShownInv' /\ PrevInv' /\ pc' \in Steps
<1>1. /\ pc = s /\ UNCHANGED <<session, missing, now, was>>  BY DEF At, Frame
<1>2. /\ pc' \in Steps /\ Active(pc', shown) /\ IndexOf(s) < IndexOf(pc')
      /\ \A u \in Steps \ {s} : Passed(u)' => Passed(u)
  BY GoesOn
<1>3. DbInv(db)'  BY <1>1 DEF DbInv
<1>4. DoneInv'
  <2>1. "stat" \in db.read /\ "stat" \in db'.read  BY <1>1 DEF DoneInv, Keeps
  <2>2. ASSUME NEW u \in Steps, Passed(u)' PROVE Sampled(u)'
    <3>1. CASE u = s  BY <3>1
    <3>2. CASE u # s
      <4>1. Sampled(u)  BY <1>1, <1>2, <2>2, <3>2 DEF DoneInv
      <4> QED  BY <1>1, <2>1, <4>1, SampledKeeps
    <3> QED  BY <3>1, <3>2
  <2> QED  BY <2>1, <2>2 DEF DoneInv
<1>5. mode' = mode  BY <1>1 DEF mode
<1>6. shown' \subseteq shown /\ shown \ {"vm"} \subseteq shown'  OBVIOUS
<1>7. ShownInv'
  <2>1. shown \subseteq now /\ now \ {"vm"} \subseteq shown
        /\ (IndexOf(s) <= IndexOf("vm") => shown = now)
    BY <1>1 DEF ShownInv
  <2>2. shown' \subseteq now' /\ now' \ {"vm"} \subseteq shown'  BY <1>1, <1>6, <2>1
  <2>3. IndexOf(pc') <= IndexOf("vm") => shown' = now'
    <3>1. IndexOf(s) \in Int /\ IndexOf("vm") \in Int /\ IndexOf(pc') \in Int
      BY <1>2, Around
    <3>2. CASE s = "vm"  BY <1>2, <3>1, <3>2
    <3>3. CASE s # "vm"  BY <1>1, <1>2, <2>1, <3>1, <3>3
    <3> QED  BY <3>2, <3>3
  <2>4. Active(pc', shown')
    <3>1. CASE shown' = shown  BY <1>2, <3>1
    <3>2. CASE s = "vm"
      <4>1. pc' # "vm"  BY <1>2, <3>2, Around
      <4> QED  BY <1>2, <1>6, <4>1 DEF Active
    <3> QED  BY <3>1, <3>2
  <2> QED  BY <2>2, <2>3, <2>4 DEF ShownInv
<1>8. PrevInv'
  <2>1. s # "begin" /\ pc' # "begin"  BY <1>2, Around
  <2>2. Due' \subseteq Due
    <3>1. CASE mode # "screen"  BY <1>5, <1>6, <3>1 DEF Due
    <3>2. CASE mode = "screen"  BY <1>1, <1>5, <2>1, <3>2 DEF Due
    <3> QED  BY <3>1, <3>2
  <2>3. Data = {"cpu", "mem", "vm", "nfs", "net", "disk", "procs"}  BY DEF Data
  <2>4. \A x \in Data : db'.buf[Other(db'.p)][x] \in {db.buf[Other(db.p)][x], 0}
    BY DEF Keeps
  <2>5. missing' = missing  BY <1>1
  <2> HIDE DEF Due
  <2> QED  BY <2>2, <2>3, <2>4, <2>5 DEF PrevInv, PrevOf
<1> QED  BY <1>2, <1>3, <1>4, <1>7, <1>8

\* The previous samples are of the last interval also after a reader.
LEMMA PrevKeeps ==
    ASSUME NEW d, NEW e, PrevOf(d), Keeps(d, e)
    PROVE  PrevOf(e)
<1>1. Data = {"cpu", "mem", "vm", "nfs", "net", "disk", "procs"}  BY DEF Data
<1>2. \A x \in Data : e.buf[Other(e.p)][x] \in {d.buf[Other(d.p)][x], 0}  BY DEF Keeps
<1> HIDE DEF Due
<1> QED  BY <1>1, <1>2 DEF PrevOf

\* What a section may show: a sample of this loop, against one of the last
\* interval if one is due.
Showing(s) ==
    \/ rep' = NoRep
    \/ \E old \in Age :
         /\ rep' = [sec |-> s, new |-> 0, old |-> old]
         /\ s \in Due => old <= 1 \/ (s = "nfs" /\ old = Never)

\* A rate taken from two samples of the database.
LEMMA RateShows ==
    ASSUME NEW d, DbInv(d), NEW s, NEW x \in Data, Rate(d, s, x),
           d.buf[d.p][x] = 0,
           s \in Due => d.buf[Other(d.p)][x] <= 1
                          \/ (s = "nfs" /\ d.buf[Other(d.p)][x] = Never)
    PROVE  Showing(s)
<1>1. d.buf[Other(d.p)][x] \in Age  BY TwoHalves DEF DbInv, Database
<1> QED  BY <1>1 DEF Rate, Showing

\* A section that is executed is on.
LEMMA IsOn ==
    ASSUME ShownInv, NEW s \in Sections, pc = s
    PROVE  /\ s \in Steps \ {"end"} /\ s \in shown
           /\ mode # "screen" \/ s \in was => s \in Due
           /\ s \in now
<1>1. s \in Steps \ {"end"} /\ s \notin {"cpuread", "neterr", "diskread", "end"}
  BY DEF Sections, Steps
<1>2. s \in shown  BY <1>1 DEF ShownInv, Active
<1>3. s # "begin"  BY <1>1, Around
<1>4. mode # "screen" \/ s \in was => s \in Due  BY <1>2, <1>3 DEF Due
<1>5. s \in now  BY <1>1, <1>2 DEF ShownInv
<1> QED  BY <1>1, <1>2, <1>4, <1>5

\* What a section leaves of the invariant, from what it does to the database,
\* to the flags and to what is shown.
LEMMA SectionInv ==
    ASSUME Inv, NEW s \in Steps \ {"end"}, At(s),
           DbInv(db'), Keeps(db, db'), Sampled(s)',
           shown' = shown \/ (s = "vm" /\ mode # "screen" /\ shown' = shown \ {"vm"}),
           max_cpus' \in {max_cpus, cpus}, show_neterror' \in 0 .. 3,
           rep' = NoRep \/ (s \in Sections /\ Showing(s)), HeadInv'
    PROVE  Inv'
<1>1. TypeOK /\ DbInv(db) /\ DoneInv /\ ShownInv /\ PrevInv
  BY DEF Inv, RateIsOfInterval
<1>2. DbInv(db)' /\ DoneInv' /\ ShownInv' /\ PrevInv' /\ pc' \in Steps
  BY <1>1, SectionKeeps
<1>3. /\ pc = s /\ UNCHANGED <<session, missing, late, now, was, old_cpus, cpus, errNow>>
  BY DEF At, Frame
<1>4. "none" \notin Sections
  <2>1. \A a \in 1 .. 23 : Order[a] # "none"  BY Places
  <2> QED  BY <2>1, Distinct DEF Sections, Range
<1>5. /\ rep' \in [sec : Sections \cup {"none"}, new : Age, old : Age]
      /\ rep'.sec # "none" =>
           /\ rep'.new = 0
           /\ mode # "screen" \/ rep'.sec \in was
                => rep'.old <= 1 \/ (rep'.sec = "nfs" /\ rep'.old = Never)
  <2>0. 0 \in Age  BY DEF Age, Never
  <2>1. CASE rep' = NoRep  BY <2>0, <2>1 DEF NoRep
  <2>2. CASE rep' # NoRep
    <3>1. s \in Sections /\ Showing(s)  BY <2>2
    <3>2. PICK old \in Age :
            /\ rep' = [sec |-> s, new |-> 0, old |-> old]
            /\ s \in Due => old <= 1 \/ (s = "nfs" /\ old = Never)
      BY <2>2, <3>1 DEF Showing
    <3>3. mode # "screen" \/ s \in was => s \in Due
      BY <1>1, <1>3, <3>1, IsOn
    <3>4. rep'.sec = s /\ rep'.new = 0 /\ rep'.old = old  BY <3>2
    <3>5. rep' \in [sec : Sections \cup {"none"}, new : Age, old : Age]
      BY <2>0, <3>1, <3>2
    <3> HIDE DEF Due
    <3> QED  BY <3>2, <3>3, <3>4, <3>5
  <2> QED  BY <2>1, <2>2
<1>6. TypeOK'
  <2>1. shown' \subseteq Sections  BY <1>1 DEF TypeOK
  <2>2. {cpus', old_cpus', max_cpus'} \subseteq session'.cpus  BY <1>1, <1>3 DEF TypeOK
  <2>3. db' \in Database  BY DEF DbInv
  <2> QED  BY <1>1, <1>2, <1>3, <1>5, <2>1, <2>2, <2>3 DEF TypeOK, Database, Steps
<1>7. RateIsOfInterval'
  <2>1. mode' = mode  BY <1>3 DEF mode
  <2> QED  BY <1>3, <1>5, <1>6, <2>1 DEF RateIsOfInterval, NoPrevious
<1> QED  BY <1>2, <1>7 DEF Inv

\* What a section leaves of the headings of a recording.
LEMMA HeadKeeps ==
    ASSUME Inv, NEW s \in Steps \ {"end"}, At(s), shown' \subseteq shown,
           mode # "file" => rows' = rows,
           mode = "file" =>
             /\ heads \subseteq heads'
             /\ {"CPU"} \X (1 .. max_cpus') \subseteq heads'
             /\ "vm" \notin first' => "vm" \notin first \/ <<"VM", 0>> \in heads'
             /\ "util" \notin first' => "util" \notin first \/ UtilHeads(session.cpus, heads')
             /\ "huge" \notin first' => "huge" \notin first \/ <<"HUGEPAGES", 0>> \in heads'
             /\ "nfs" \notin first' =>
                  "nfs" \notin first \/ <<"NFS", 0>> \in heads' \/ "nfs" \in missing
             /\ IF s = "cpuread" THEN cpus <= max_cpus' ELSE max_cpus' = max_cpus
             /\ \A r \in rows' : r \in rows \/ r \in heads' \/ Excused(r)
    PROVE  HeadInv'
<1>1. /\ pc = s /\ UNCHANGED <<session, missing, late, now, was, old_cpus, cpus, errNow>>
  BY DEF At, Frame
<1>2. mode' = mode  BY <1>1 DEF mode
<1>3. CASE mode # "file"  BY <1>2, <1>3 DEF Inv, HeadInv
<1>4. CASE mode = "file"
  <2>1. Passed("cpuread")' => cpus' <= max_cpus'
    <3>1. CASE s = "cpuread"  BY <1>1, <1>4, <3>1
    <3>2. CASE s # "cpuread"
      <4>1. Passed("cpuread")' => Passed("cpuread")
        BY <3>2, GoesOn, Around DEF Inv
      <4> QED  BY <1>1, <1>4, <3>2, <4>1 DEF Inv, HeadInv
    <3> QED  BY <3>1, <3>2
  <2>2. \A r : Excused(r)' <=> Excused(r)  BY <1>1 DEF Excused
  <2>3. \A r \in rows' : r \in heads' \/ Excused(r)'
    BY <1>4, <2>2 DEF Inv, HeadInv
  <2>4. {"CPU_ALL", "MEM", "PROC", "NET", "DISK", "JFSFILE"} \X {0} \subseteq heads'
    BY <1>4 DEF Inv, HeadInv
  <2>a. UtilHeads(session.cpus, heads) => UtilHeads(session.cpus, heads')
    BY <1>4 DEF UtilHeads
  <2>5. /\ "mhz" \in shown' => <<"MHZ", 0>> \in heads'
        /\ "dgroup" \in shown' => <<"DG", 0>> \in heads'
        /\ "top" \in shown' => <<"TOP", 0>> \in heads'
        /\ "vm" \notin first' => <<"VM", 0>> \in heads'
        /\ "util" \notin first' => UtilHeads(session.cpus, heads')
        /\ "huge" \notin first' => <<"HUGEPAGES", 0>> \in heads'
        /\ "nfs" \notin first' => <<"NFS", 0>> \in heads' \/ late \/ "nfs" \in missing
    BY <1>4, <2>a DEF Inv, HeadInv
  <2> HIDE DEF Passed, Excused
  <2> QED  BY <1>1, <1>2, <1>4, <2>1, <2>3, <2>4, <2>5 DEF HeadInv
<1> QED  BY <1>3, <1>4

-----------------------------------------------------------------------------
(* The sections                                                             *)

\* Rows and headings of a section other than the CPUs' heading.
LEMMA Records ==
    ASSUME Inv, NEW s \in Steps \ {"end", "cpuread"}, At(s), shown' \subseteq shown,
           max_cpus' = max_cpus, NEW hs, NEW rs, Record(hs, rs),
           mode = "file" =>
             /\ \A r \in rs : r \in heads \/ r \in hs \/ Excused(r)
             /\ "vm" \in first \ first' => <<"VM", 0>> \in hs
             /\ "util" \in first \ first' => UtilHeads(session.cpus, hs)
             /\ "huge" \in first \ first' => <<"HUGEPAGES", 0>> \in hs
             /\ "nfs" \in first \ first' => <<"NFS", 0>> \in hs \/ "nfs" \in missing
    PROVE  HeadInv'
<1>1. CASE mode # "file"
  <2>1. rows' = rows  BY <1>1 DEF Record
  <2> QED  BY <1>1, <2>1, HeadKeeps
<1>2. CASE mode = "file"
  <2>1. heads' = heads \cup hs /\ rows' = rows \cup rs  BY <1>2 DEF Record
  <2>2. {"CPU"} \X (1 .. max_cpus') \subseteq heads'
    BY <1>2, <2>1 DEF Inv, HeadInv
  <2>3. \A r \in rows' : r \in rows \/ r \in heads' \/ Excused(r)
    BY <1>2, <2>1
  <2>4. UtilHeads(session.cpus, hs) => UtilHeads(session.cpus, heads')
    BY <2>1 DEF UtilHeads
  <2> HIDE DEF Excused
  <2> QED  BY <1>2, <2>1, <2>2, <2>3, <2>4, HeadKeeps
<1> QED  BY <1>1, <1>2

\* Sections that record nothing.
LEMMA RecordsNothing ==
    ASSUME UNCHANGED fileVars
    PROVE  Record({}, {})
BY DEF Record, fileVars

\* The steps by their kind.
LEMMA Kinds ==
    /\ {"help", "res", "longterm", "smp", "wide", "util", "mhz", "memory", "large", "vm",
        "kernel", "nfs", "net", "jfs", "diskmap", "verbose", "disk", "dgroup", "top"}
         \subseteq Sections
    /\ {"cpuread", "neterr", "diskread"} \subseteq Steps \ {"end"}
    /\ Sections \subseteq Steps \ {"end", "cpuread"}
<1>1. /\ "help" \in Steps /\ "res" \in Steps /\ "longterm" \in Steps /\ "smp" \in Steps
      /\ "wide" \in Steps /\ "util" \in Steps /\ "mhz" \in Steps /\ "memory" \in Steps
      /\ "large" \in Steps /\ "vm" \in Steps /\ "kernel" \in Steps /\ "nfs" \in Steps
  BY Index, Places
<1>2. /\ "net" \in Steps /\ "jfs" \in Steps /\ "diskmap" \in Steps /\ "verbose" \in Steps
      /\ "disk" \in Steps /\ "dgroup" \in Steps /\ "top" \in Steps
      /\ "cpuread" \in Steps /\ "neterr" \in Steps /\ "diskread" \in Steps
  BY Index, Places
<1> QED  BY <1>1, <1>2 DEF Sections, Steps

\* The CPU sample that smp and wide use, and the disk sample that four sections
\* use, were taken before in this loop.
LEMMA SampledBefore ==
    ASSUME Inv
    PROVE  /\ pc \in {"smp", "wide"} => db.buf[db.p]["cpu"] = 0 /\ Passed("cpuread")
           /\ pc \in DiskSections => db.buf[db.p]["disk"] = 0
<1>1. ShownInv /\ DoneInv /\ DbInv(db)  BY DEF Inv
<1>2. ASSUME pc \in {"smp", "wide"} PROVE db.buf[db.p]["cpu"] = 0 /\ Passed("cpuread")
  <2>1. pc \in Sections /\ pc \in Steps  BY <1>2, Kinds
  <2>2. pc \in now  BY <1>1, <2>1, IsOn
  <2>3. Active("cpuread", now)  BY <1>2, <2>2 DEF Active
  <2>4. Passed("cpuread")  BY <1>2, <2>1, <2>3, Around DEF Passed
  <2>5. "stat" \in db.read /\ Sampled("cpuread")  BY <1>1, <2>1, <2>4, Around DEF DoneInv
  <2> QED  BY <1>1, <2>4, <2>5 DEF Sampled, DbInv
<1>3. ASSUME pc \in DiskSections PROVE db.buf[db.p]["disk"] = 0
  <2>1. pc \in Sections /\ pc \in Steps  BY <1>3, Kinds DEF DiskSections
  <2>2. pc \in now  BY <1>1, <2>1, IsOn
  <2>3. Active("diskread", now)  BY <1>3, <2>2 DEF Active, DiskSections
  <2>4. Passed("diskread")  BY <1>3, <2>1, <2>3, Around DEF Passed, DiskSections
  <2>5. Sampled("diskread")  BY <1>1, <2>1, <2>4, Around DEF DoneInv
  <2> QED  BY <2>5 DEF Sampled
<1> QED  BY <1>2, <1>3

\* The parts of the invariant that the sections use.
LEMMA Parts ==
    ASSUME Inv
    PROVE  /\ TypeOK /\ DbInv(db) /\ PrevOf(db) /\ HeadInv /\ Keeps(db, db)
           /\ show_neterror \in 0 .. 3 /\ errNow \in 0 .. MaxErr /\ db.p \in Half
BY DEF Inv, RateIsOfInterval, TypeOK, PrevInv, Keeps, DbInv, Database

\* Sections that show no rate: help, the resources, clock rates, JFS, memory
\* pages, network errors and the two common readers.
LEMMA PlainSections ==
    ASSUME Inv, Help \/ Res \/ Mhz \/ Memory \/ Large \/ NetError \/ Jfs \/ DiskRead
    PROVE  Inv'
<1>0. /\ TypeOK /\ DbInv(db) /\ PrevOf(db) /\ HeadInv /\ Keeps(db, db)
      /\ show_neterror \in 0 .. 3 /\ errNow \in 0 .. MaxErr /\ db.p \in Half
  BY Parts
<1>1. CASE Help
  <2>1. /\ At("help") /\ rep' = NoRep /\ db' = db /\ shown' = shown /\ max_cpus' = max_cpus
        /\ show_neterror' = show_neterror /\ first' = first /\ UNCHANGED fileVars
    BY <1>1 DEF Help
  <2>2. Sampled("help")'  BY DEF Sampled
  <2>3. HeadInv'  BY <2>1, Records, RecordsNothing, Kinds
  <2> QED  BY <1>0, <2>1, <2>2, <2>3, Kinds, SectionInv
<1>2. CASE Res
  <2>1. /\ At("res") /\ rep' = NoRep /\ shown' = shown /\ max_cpus' = max_cpus
        /\ show_neterror' = show_neterror /\ first' = first /\ UNCHANGED fileVars
        /\ db' = IF mode = "screen" THEN ProcRead(ProcRead(db, "cpuinfo"), "version") ELSE db
    BY <1>2 DEF Res
  <2>2. Sampled("res")'  BY DEF Sampled
  <2>3. HeadInv'  BY <2>1, Records, RecordsNothing, Kinds
  <2>4. DbInv(db') /\ Keeps(db, db')
    <3>1. "cpuinfo" \in File /\ "version" \in File  BY DEF File
    <3>2. DbInv(ProcRead(db, "cpuinfo")) /\ Keeps(db, ProcRead(db, "cpuinfo"))
      BY <1>0, <3>1, ReadKeeps
    <3> DEFINE d == ProcRead(db, "cpuinfo")
    <3> HIDE DEF d
    <3>3. DbInv(d) /\ Keeps(db, d)  BY <3>2 DEF d
    <3>4. DbInv(ProcRead(d, "version")) /\ Keeps(d, ProcRead(d, "version"))
      BY <3>1, <3>3, ReadKeeps
    <3>5. Keeps(db, ProcRead(d, "version"))  BY <3>3, <3>4, KeepsTwice
    <3> QED  BY <1>0, <2>1, <3>4, <3>5 DEF d
  <2> QED  BY <1>0, <2>1, <2>2, <2>3, <2>4, Kinds, SectionInv
<1>3. CASE Mhz
  <2>1. /\ At("mhz") /\ rep' = NoRep /\ shown' = shown /\ max_cpus' = max_cpus
        /\ show_neterror' = show_neterror /\ first' = first
        /\ db' = ProcRead(db, "cpuinfo") /\ Record({}, {<<"MHZ", 0>>})
    BY <1>3 DEF Mhz
  <2>2. Sampled("mhz")'  BY DEF Sampled
  <2>3. "mhz" \in shown  BY <2>1, IsOn, Kinds DEF At, Inv
  <2>4. mode = "file" => <<"MHZ", 0>> \in heads  BY <1>0, <2>3 DEF HeadInv
  <2>5. HeadInv'  BY <2>1, <2>4, Records, Kinds
  <2>6. DbInv(db') /\ Keeps(db, db')
    <3>1. "cpuinfo" \in File  BY DEF File
    <3> QED  BY <1>0, <2>1, <3>1, ReadKeeps
  <2> QED  BY <1>0, <2>1, <2>2, <2>5, <2>6, Kinds, SectionInv
<1>4. CASE Memory
  <2>1. /\ At("memory") /\ shown' = shown /\ max_cpus' = max_cpus
        /\ show_neterror' = show_neterror /\ first' = first
        /\ db' = ProcMem(ProcRead(db, "meminfo")) /\ Record({}, {<<"MEM", 0>>})
        /\ rep' = [sec |-> "memory", new |-> db'.buf[db.p]["mem"], old |-> 0]
    BY <1>4 DEF Memory
  <2>2. Sampled("memory")'  BY DEF Sampled
  <2>3. DbInv(db') /\ Keeps(db, db') /\ db'.buf[db.p]["mem"] = 0
    BY <1>0, <2>1, MemKeeps
  <2>4. Showing("memory")
    <3>1. 0 \in Age /\ 0 <= 1  BY DEF Age, Never
    <3> QED  BY <2>1, <2>3, <3>1 DEF Showing
  <2>5. mode = "file" => <<"MEM", 0>> \in heads  BY <1>0 DEF HeadInv
  <2>6. HeadInv'  BY <2>1, <2>5, Records, Kinds
  <2> QED  BY <1>0, <2>1, <2>2, <2>3, <2>4, <2>6, Kinds, SectionInv
<1>5. CASE Large
  <2>1. /\ At("large") /\ shown' = shown /\ max_cpus' = max_cpus
        /\ show_neterror' = show_neterror /\ rep' = NoRep
        /\ db' = ProcMem(ProcRead(db, "meminfo"))
    BY <1>5 DEF Large
  <2>2. Sampled("large")'  BY DEF Sampled
  <2>3. DbInv(db') /\ Keeps(db, db')  BY <1>0, <2>1, MemKeeps
  <2>4. CASE UNCHANGED <<fileVars, first>>
    <3>1. HeadInv'  BY <2>1, <2>4, Records, RecordsNothing, Kinds
    <3> QED  BY <1>0, <2>1, <2>2, <2>3, <3>1, Kinds, SectionInv
  <2>5. CASE /\ Record({<<"HUGEPAGES", 0>> : f \in first \cap {"huge"}}, {<<"HUGEPAGES", 0>>})
             /\ first' = first \ {"huge"}
    <3> DEFINE hs == {<<"HUGEPAGES", 0>> : f \in first \cap {"huge"}}
    <3>1. "huge" \in first => <<"HUGEPAGES", 0>> \in hs  OBVIOUS
    <3> HIDE DEF hs
    <3>2. mode = "file" => <<"HUGEPAGES", 0>> \in heads \/ <<"HUGEPAGES", 0>> \in hs
      BY <1>0, <3>1 DEF HeadInv
    <3>3. Record(hs, {<<"HUGEPAGES", 0>>})  BY <2>5 DEF hs
    <3>4. HeadInv'  BY <2>1, <2>5, <3>1, <3>2, <3>3, Records, Kinds
    <3> QED  BY <1>0, <2>1, <2>2, <2>3, <3>4, Kinds, SectionInv
  <2> QED  BY <1>5, <2>4, <2>5 DEF Large
<1>6. CASE NetError
  <2>1. /\ At("neterr") /\ rep' = NoRep /\ db' = db /\ shown' = shown /\ max_cpus' = max_cpus
        /\ first' = first /\ UNCHANGED fileVars
    BY <1>6 DEF NetError
  <2>2. Sampled("neterr")'  BY DEF Sampled
  <2>3. HeadInv'  BY <2>1, Records, RecordsNothing, Kinds
  <2>4. show_neterror' \in 0 .. 3  BY <1>0, <1>6 DEF NetError
  <2> QED  BY <1>0, <2>1, <2>2, <2>3, <2>4, Kinds, SectionInv
<1>7. CASE Jfs
  <2>1. /\ At("jfs") /\ rep' = NoRep /\ db' = db /\ shown' = shown /\ max_cpus' = max_cpus
        /\ show_neterror' = show_neterror /\ first' = first
        /\ Record({}, {<<"JFSFILE", 0>>})
    BY <1>7 DEF Jfs
  <2>2. Sampled("jfs")'  BY DEF Sampled
  <2>3. mode = "file" => <<"JFSFILE", 0>> \in heads  BY <1>0 DEF HeadInv
  <2>4. HeadInv'  BY <2>1, <2>3, Records, Kinds
  <2> QED  BY <1>0, <2>1, <2>2, <2>4, Kinds, SectionInv
<1>8. CASE DiskRead
  <2>1. /\ At("diskread") /\ rep' = NoRep /\ shown' = shown /\ max_cpus' = max_cpus
        /\ show_neterror' = show_neterror /\ first' = first /\ UNCHANGED fileVars
        /\ db' = Put(ProcRead(db, "stat"), "disk", 0)
    BY <1>8 DEF DiskRead, ProcDisk
  <2> DEFINE d == ProcRead(db, "stat")
  <2>2. "stat" \in File /\ "disk" \in Data  BY DEF File, Data
  <2>3. DbInv(d) /\ Keeps(db, d)  BY <1>0, <2>2, ReadKeeps
  <2> HIDE DEF d
  <2>4. DbInv(Put(d, "disk", 0)) /\ Keeps(d, Put(d, "disk", 0)) /\ Put(d, "disk", 0).buf[d.p]["disk"] = 0
    BY <2>2, <2>3, PutKeeps
  <2>5. DbInv(db') /\ Keeps(d, db') /\ db'.buf[d.p]["disk"] = 0  BY <2>1, <2>4 DEF d
  <2>6. Keeps(db, db') /\ db'.p = d.p  BY <2>3, <2>5, KeepsTwice DEF Keeps
  <2>7. Sampled("diskread")'  BY <2>5, <2>6 DEF Sampled
  <2>8. HeadInv'  BY <2>1, Records, RecordsNothing, Kinds
  <2> QED  BY <1>0, <2>1, <2>5, <2>6, <2>7, <2>8, Kinds, SectionInv
<1> QED  BY <1>1, <1>2, <1>3, <1>4, <1>5, <1>6, <1>7, <1>8

\* The sections on the CPU sample.
LEMMA CpuSectionsStep ==
    ASSUME Inv, Longterm \/ CpuRead \/ Smp \/ Wide \/ Util \/ Kernel
    PROVE  Inv'
<1>0. /\ TypeOK /\ DbInv(db) /\ PrevOf(db) /\ HeadInv /\ Keeps(db, db)
      /\ show_neterror \in 0 .. 3 /\ errNow \in 0 .. MaxErr /\ db.p \in Half
  BY Parts
<1>a. "cpu" \in Data  BY DEF Data
<1>b. /\ DbInv(ReadCpu(db)) /\ Keeps(db, ReadCpu(db)) /\ ReadCpu(db).cpu_done
      /\ ReadCpu(db).buf[ReadCpu(db).p]["cpu"] = 0
  BY <1>0, CpuKeeps
<1>c. ASSUME NEW d, PrevOf(d), NEW s \in CpuSections
      PROVE  s \in Due => d.buf[Other(d.p)]["cpu"] <= 1
  BY <1>c DEF PrevOf
<1>1. CASE Longterm
  <2>1. /\ At("longterm") /\ shown' = shown /\ max_cpus' = max_cpus
        /\ show_neterror' = show_neterror /\ first' = first /\ UNCHANGED fileVars
        /\ db' = ReadCpu(db) /\ Rate(db', "longterm", "cpu")
    BY <1>1 DEF Longterm
  <2>2. DbInv(db') /\ Keeps(db, db') /\ db'.cpu_done /\ db'.buf[db'.p]["cpu"] = 0
    BY <1>b, <2>1
  <2>3. Sampled("longterm")'  BY <2>2 DEF Sampled
  <2>4. PrevOf(db')  BY <1>0, <2>2, PrevKeeps
  <2>5. "longterm" \in Due => db'.buf[Other(db'.p)]["cpu"] <= 1
    BY <1>c, <2>4 DEF CpuSections
  <2>6. Showing("longterm")  BY <1>a, <2>1, <2>2, <2>5, RateShows
  <2>7. HeadInv'  BY <2>1, Records, RecordsNothing, Kinds
  <2> QED  BY <1>0, <2>1, <2>2, <2>3, <2>6, <2>7, Kinds, SectionInv
<1>2. CASE CpuRead
  <2>1. /\ At("cpuread") /\ shown' = shown /\ rep' = NoRep
        /\ show_neterror' = show_neterror /\ first' = first /\ db' = ReadCpu(db)
        /\ IF cpus > max_cpus /\ mode # "screen"
           THEN max_cpus' = cpus /\ Record({"CPU"} \X ((max_cpus + 1) .. cpus), {})
           ELSE UNCHANGED <<max_cpus, fileVars>>
    BY <1>2 DEF CpuRead
  <2>2. DbInv(db') /\ Keeps(db, db') /\ db'.cpu_done  BY <1>b, <2>1
  <2>3. Sampled("cpuread")'  BY <2>2 DEF Sampled
  <2>4. cpus \in Nat /\ max_cpus \in Nat
    BY <1>0, NmonLoopAssumption DEF TypeOK
  <2>5. mode # "file" => rows' = rows  BY <2>1 DEF Record, fileVars
  <2>6. ASSUME mode = "file"
        PROVE  /\ heads \subseteq heads' /\ cpus <= max_cpus' /\ rows' = rows
               /\ {"CPU"} \X (1 .. max_cpus') \subseteq heads'
    <3>1. {"CPU"} \X (1 .. max_cpus) \subseteq heads  BY <1>0, <2>6 DEF HeadInv
    <3>2. CASE cpus > max_cpus
      <4>1. /\ max_cpus' = cpus /\ rows' = rows
            /\ heads' = heads \cup ({"CPU"} \X ((max_cpus + 1) .. cpus))
        BY <2>1, <2>6, <3>2 DEF Record
      <4>2. \A a \in 1 .. cpus : a \in 1 .. max_cpus \/ a \in (max_cpus + 1) .. cpus
        BY <2>4
      <4>3. {"CPU"} \X (1 .. cpus) \subseteq heads'  BY <3>1, <4>1, <4>2
      <4> QED  BY <2>4, <4>1, <4>3
    <3>3. CASE ~ (cpus > max_cpus)
      BY <2>1, <2>4, <3>1, <3>3 DEF fileVars
    <3> QED  BY <3>2, <3>3
  <2>7. HeadInv'  BY <2>1, <2>5, <2>6, HeadKeeps, Kinds
  <2>8. max_cpus' \in {max_cpus, cpus}  BY <2>1
  <2> QED  BY <1>0, <2>1, <2>2, <2>3, <2>7, <2>8, Kinds, SectionInv
<1>3. CASE Smp
  <2> DEFINE rs == ({"CPU"} \X (1 .. cpus)) \cup {<<"CPU_ALL", 0>>}
  <2>1. /\ At("smp") /\ shown' = shown /\ max_cpus' = max_cpus /\ db' = db
        /\ show_neterror' = show_neterror /\ first' = first \ {"smp"} /\ Record({}, rs)
        /\ rep' = NoRep \/ Rate(db, "smp", "cpu")
    BY <1>3 DEF Smp
  <2>2. pc = "smp"  BY <2>1 DEF At
  <2>3. db.buf[db.p]["cpu"] = 0 /\ Passed("cpuread")  BY <2>2, SampledBefore
  <2>4. Sampled("smp")'  BY DEF Sampled
  <2>5. "smp" \in Due => db.buf[Other(db.p)]["cpu"] <= 1
    BY <1>0, <1>c DEF CpuSections
  <2>6. rep' = NoRep \/ Showing("smp")  BY <1>0, <1>a, <2>1, <2>3, <2>5, RateShows
  <2>7. mode = "file" => \A r \in rs : r \in heads
    <3>1. SUFFICES ASSUME mode = "file" PROVE \A r \in rs : r \in heads
      OBVIOUS
    <3>2. cpus <= max_cpus /\ cpus \in Nat /\ max_cpus \in Nat
      BY <1>0, <2>3, <3>1, NmonLoopAssumption DEF TypeOK, HeadInv
    <3>3. /\ {"CPU"} \X (1 .. max_cpus) \subseteq heads /\ <<"CPU_ALL", 0>> \in heads
      BY <1>0, <3>1 DEF HeadInv
    <3>4. 1 .. cpus \subseteq 1 .. max_cpus  BY <3>2
    <3> QED  BY <3>3, <3>4
  <2> HIDE DEF rs
  <2>8. HeadInv'  BY <2>1, <2>7, Records, Kinds
  <2> QED  BY <1>0, <2>1, <2>4, <2>6, <2>8, Kinds, SectionInv
<1>4. CASE Wide
  <2>1. /\ At("wide") /\ shown' = shown /\ max_cpus' = max_cpus /\ db' = ReadCpu(db)
        /\ show_neterror' = show_neterror /\ first' = first \ {"wide"}
        /\ UNCHANGED fileVars
        /\ rep' = NoRep \/ Rate(db, "wide", "cpu")
    BY <1>4 DEF Wide
  <2>2. pc = "wide"  BY <2>1 DEF At
  <2>3. db.buf[db.p]["cpu"] = 0  BY <2>2, SampledBefore
  <2>4. Sampled("wide")'  BY DEF Sampled
  <2>5. "wide" \in Due => db.buf[Other(db.p)]["cpu"] <= 1
    BY <1>0, <1>c DEF CpuSections
  <2>6. rep' = NoRep \/ Showing("wide")  BY <1>0, <1>a, <2>1, <2>3, <2>5, RateShows
  <2>7. HeadInv'  BY <2>1, Records, RecordsNothing, Kinds
  <2>8. DbInv(db') /\ Keeps(db, db')  BY <1>b, <2>1
  <2> QED  BY <1>0, <2>1, <2>4, <2>6, <2>7, <2>8, Kinds, SectionInv
<1>5. CASE Util
  <2> DEFINE hs == IF "util" \in first
                   THEN {<<"CPUUTIL_ALL", 0>>} \cup ({"CPUUTIL"} \X (1 .. cpus)) ELSE {}
             rs == {<<"CPUUTIL_ALL", 0>>} \cup ({"CPUUTIL"} \X (0 .. (cpus - 1)))
  <2>1. /\ At("util") /\ shown' = shown /\ max_cpus' = max_cpus /\ db' = ReadCpu(db)
        /\ show_neterror' = show_neterror /\ first' = first \ {"util"}
        /\ Record(hs, rs)
        /\ rep' = NoRep \/ Rate(db', "util", "cpu")
    BY <1>5 DEF Util
  <2>a. cpus \in Nat /\ cpus \in session.cpus /\ session.cpus \subseteq Nat
    BY <1>0, NmonLoopAssumption DEF TypeOK
  <2>2. "util" \in first => UtilHeads(session.cpus, hs)
    <3>1. SUFFICES ASSUME "util" \in first PROVE UtilHeads(session.cpus, hs)
      OBVIOUS
    <3>2. hs = {<<"CPUUTIL_ALL", 0>>} \cup ({"CPUUTIL"} \X (1 .. cpus))  BY <3>1
    <3>3. ASSUME NEW a \in Nat \ {0}, \A n \in session.cpus : a <= n
          PROVE  <<"CPUUTIL", a>> \in hs
      <4>1. a \in 1 .. cpus  BY <2>a, <3>3
      <4> QED  BY <3>2, <4>1
    <3> QED  BY <3>2, <3>3 DEF UtilHeads
  <2>3. mode = "file" => \A r \in rs : r \in heads \/ r \in hs \/ Excused(r)
    <3>1. SUFFICES ASSUME mode = "file", NEW r \in rs
                   PROVE  r \in heads \/ r \in hs \/ Excused(r)
      OBVIOUS
    <3>2. UtilHeads(session.cpus, heads) \/ UtilHeads(session.cpus, hs)  BY <1>0, <2>2, <3>1 DEF HeadInv
    <3> HIDE DEF hs
    <3>3. CASE r = <<"CPUUTIL_ALL", 0>>  BY <3>2, <3>3 DEF UtilHeads
    <3>4. CASE r # <<"CPUUTIL_ALL", 0>>
      <4>1. PICK a \in 0 .. (cpus - 1) : r = <<"CPUUTIL", a>>  BY <3>4
      <4>2. a \in Nat  BY <2>a
      <4>3. r[1] = "CPUUTIL" /\ r[2] = a  BY <4>1
      <4>4. CASE a = 0 \/ \E n \in session.cpus : n < a  BY <4>3, <4>4 DEF Excused
      <4>5. CASE a # 0 /\ \A n \in session.cpus : ~ (n < a)
        <5>1. a \in Nat \ {0} /\ \A n \in session.cpus : a <= n  BY <2>a, <4>2, <4>5
        <5> QED  BY <3>2, <4>1, <5>1 DEF UtilHeads
      <4> QED  BY <4>4, <4>5
    <3> QED  BY <3>3, <3>4
  <2> HIDE DEF hs, rs
  <2>4. HeadInv'  BY <2>1, <2>2, <2>3, Records, Kinds
  <2>5. DbInv(db') /\ Keeps(db, db') /\ db'.cpu_done /\ db'.buf[db'.p]["cpu"] = 0
    BY <1>b, <2>1
  <2>6. Sampled("util")'  BY <2>5 DEF Sampled
  <2>7. PrevOf(db')  BY <1>0, <2>5, PrevKeeps
  <2>8. "util" \in Due => db'.buf[Other(db'.p)]["cpu"] <= 1
    BY <1>c, <2>7 DEF CpuSections
  <2>9. rep' = NoRep \/ Showing("util")  BY <1>a, <2>1, <2>5, <2>8, RateShows
  <2> QED  BY <1>0, <2>1, <2>4, <2>5, <2>6, <2>9, Kinds, SectionInv
<1>6. CASE Kernel
  <2> DEFINE c == ReadCpu(db)
             u == ProcRead(c, "uptime")
             d == ProcRead(u, "loadavg")
  <2>1. /\ At("kernel") /\ shown' = shown /\ max_cpus' = max_cpus
        /\ show_neterror' = show_neterror /\ Record({}, {<<"PROC", 0>>}) /\ db' = d
        /\ first' \in {first, first \ {"proc"}}
        /\ \/ rep' = [sec |-> "kernel", new |-> d.buf[d.p]["cpu"], old |-> 0]
           \/ Rate(d, "kernel", "cpu")
    BY <1>6 DEF Kernel
  <2>2. "uptime" \in File /\ "loadavg" \in File  BY DEF File
  <2>3. DbInv(c) /\ Keeps(db, c) /\ c.cpu_done /\ c.buf[c.p]["cpu"] = 0 /\ "stat" \in c.read
    BY <1>0, CpuKeeps
  <2> HIDE DEF c
  <2>4. DbInv(u) /\ Keeps(c, u)  BY <2>2, <2>3, ReadKeeps
  <2> HIDE DEF u
  <2>5. DbInv(d) /\ Keeps(u, d)  BY <2>2, <2>4, ReadKeeps
  <2> HIDE DEF d
  <2>6. Keeps(c, d)  BY <2>4, <2>5, KeepsTwice
  <2>7. Keeps(db, d)  BY <2>3, <2>6, KeepsTwice
  <2>8. d.cpu_done /\ d.buf[d.p]["cpu"] = 0  BY <1>a, <2>3, <2>6 DEF Keeps
  <2>9. Sampled("kernel")'  BY <2>1, <2>8 DEF Sampled
  <2>10. PrevOf(d)  BY <1>0, <2>7, PrevKeeps
  <2>11. "kernel" \in Due => d.buf[Other(d.p)]["cpu"] <= 1
    BY <1>c, <2>10 DEF CpuSections
  <2>12. Showing("kernel")
    <3>1. CASE rep' = [sec |-> "kernel", new |-> d.buf[d.p]["cpu"], old |-> 0]
      <4>1. 0 \in Age /\ 0 <= 1  BY DEF Age, Never
      <4> QED  BY <2>8, <3>1, <4>1 DEF Showing
    <3>2. CASE Rate(d, "kernel", "cpu")  BY <1>a, <2>5, <2>8, <2>11, <3>2, RateShows
    <3> QED  BY <2>1, <3>1, <3>2
  <2>13. mode = "file" => <<"PROC", 0>> \in heads  BY <1>0 DEF HeadInv
  <2>14. HeadInv'  BY <2>1, <2>13, Records, Kinds
  <2>15. DbInv(db') /\ Keeps(db, db')  BY <2>1, <2>5, <2>7
  <2> QED  BY <1>0, <2>1, <2>9, <2>12, <2>14, <2>15, Kinds, SectionInv
<1> QED  BY <1>1, <1>2, <1>3, <1>4, <1>5, <1>6

\* The sections on virtual memory, NFS, the network and the processes.
LEMMA CounterSections ==
    ASSUME Inv, Vm \/ Nfs \/ Net \/ Top
    PROVE  Inv'
<1>0. /\ TypeOK /\ DbInv(db) /\ PrevOf(db) /\ HeadInv /\ Keeps(db, db)
      /\ show_neterror \in 0 .. 3 /\ errNow \in 0 .. MaxErr /\ db.p \in Half
  BY Parts
<1>a. {"vm", "nfs", "net", "procs"} \subseteq Data  BY DEF Data
<1>b. ASSUME NEW d, Keeps(db, d)
      PROVE  /\ d.p = db.p
             /\ "net" \in Due => d.buf[Other(d.p)]["net"] <= 1
             /\ "top" \in Due => d.buf[Other(d.p)]["procs"] \in {0, 1, Never}
             /\ "nfs" \in Due => d.buf[Other(d.p)]["nfs"] \in {0, 1, Never}
             /\ "vm" \in Due /\ "vmstat" \notin missing => d.buf[Other(d.p)]["vm"] <= 1
  <2>1. PrevOf(d)  BY <1>0, <1>b, PrevKeeps
  <2> HIDE DEF Due
  <2> QED  BY <1>b, <2>1 DEF PrevOf, Keeps
<1>1. CASE Vm
  <2> DEFINE hs == {<<"VM", 0>> : f \in (first \ first') \cap {"vm"}}
  <2>1. /\ At("vm") /\ max_cpus' = max_cpus /\ show_neterror' = show_neterror
        /\ db' = ReadVmstat(db) /\ Record(hs, {<<"VM", 0>>})
        /\ first' = IF VmFails(db) THEN first ELSE first \ {"vm"}
        /\ shown' = IF VmFails(db) /\ mode # "screen" THEN shown \ {"vm"} ELSE shown
        /\ IF VmFails(db) \/ ("vm" \in first /\ mode = "screen")
           THEN rep' = NoRep ELSE Rate(db', "vm", "vm")
    BY <1>1 DEF Vm
  <2>2. "vm" \in first \ first' => <<"VM", 0>> \in hs  OBVIOUS
  <2> HIDE DEF hs
  <2>3. /\ DbInv(db') /\ Keeps(db, db') /\ (VmFails(db) <=> "vmstat" \in missing)
        /\ "vmstat" \notin missing => db'.buf[db.p]["vm"] = 0
    BY <1>0, <2>1, VmKeeps
  <2>4. missing' = missing  BY <2>1 DEF At, Frame
  <2>5. Sampled("vm")'  BY <1>b, <2>3, <2>4 DEF Sampled
  <2>6. rep' = NoRep \/ Showing("vm")
    <3>1. CASE VmFails(db)  BY <2>1, <3>1
    <3>2. CASE ~ VmFails(db)
      <4>1. db'.buf[db'.p]["vm"] = 0  BY <1>b, <2>3, <3>2
      <4>2. "vm" \in Due => db'.buf[Other(db'.p)]["vm"] <= 1  BY <1>b, <2>3, <3>2
      <4>3. rep' = NoRep \/ Rate(db', "vm", "vm")  BY <2>1
      <4> QED  BY <1>a, <2>3, <4>1, <4>2, <4>3, RateShows
    <3> QED  BY <3>1, <3>2
  <2>7. shown' \subseteq shown
        /\ (shown' = shown \/ (mode # "screen" /\ shown' = shown \ {"vm"}))
    BY <2>1
  <2>8. mode = "file" =>
          <<"VM", 0>> \in heads \/ <<"VM", 0>> \in hs \/ Excused(<<"VM", 0>>)
    <3>1. CASE VmFails(db)  BY <2>3, <3>1 DEF Excused
    <3>2. CASE ~ VmFails(db)  BY <1>0, <2>1, <2>2, <3>2 DEF HeadInv
    <3> QED  BY <3>1, <3>2
  <2>9. /\ "util" \notin first \ first' /\ "huge" \notin first \ first'
        /\ "nfs" \notin first \ first'
    BY <2>1
  <2>10. HeadInv'  BY <2>1, <2>2, <2>7, <2>8, <2>9, Records, Kinds
  <2> QED  BY <1>0, <2>1, <2>3, <2>5, <2>6, <2>7, <2>10, Kinds, SectionInv
<1>2. CASE Nfs
  <2> DEFINE d == ProcNfs(db)
             begins == "nfs" \in first /\ mode # "rrd"
             hs == {<<"NFS", 0>> : s \in {"nfs"} \cap {f \in first : begins}}
  <2>1. /\ At("nfs") /\ shown' = shown /\ max_cpus' = max_cpus
        /\ show_neterror' = show_neterror
        /\ db' = IF begins THEN CopyToPrevious(d, "nfs") ELSE d
        /\ first' = IF begins THEN first \ {"nfs"} ELSE first
        /\ IF NfsFound THEN Rate(db', "nfs", "nfs") /\ Record(hs, {<<"NFS", 0>>})
                       ELSE rep' = NoRep /\ UNCHANGED fileVars
    BY <1>2 DEF Nfs
  <2>2. begins => <<"NFS", 0>> \in hs  OBVIOUS
  <2> HIDE DEF hs
  <2>3. /\ DbInv(db') /\ Keeps(db, db')
        /\ "nfs" \notin missing =>
             /\ db'.buf[db.p]["nfs"] = 0
             /\ begins => db'.buf[Other(db.p)]["nfs"] = 0
    BY <1>0, <2>1, NfsKeeps
  <2>4. missing' = missing  BY <2>1 DEF At, Frame
  <2>5. Sampled("nfs")'  BY <1>b, <2>3, <2>4 DEF Sampled
  <2>6. /\ "util" \notin first \ first' /\ "huge" \notin first \ first'
        /\ "vm" \notin first \ first' /\ ("nfs" \in first \ first' => begins)
    BY <2>1
  <2>7. mode = "file" /\ "nfs" \in first => begins  OBVIOUS
  <2> HIDE DEF d, begins
  <2>8. CASE "nfs" \in missing
    <3>1. rep' = NoRep /\ UNCHANGED fileVars  BY <2>1, <2>8 DEF NfsFound
    <3>2. HeadInv'  BY <2>1, <2>6, <2>8, <3>1, Records, RecordsNothing, Kinds
    <3> QED  BY <1>0, <2>1, <2>3, <2>5, <3>1, <3>2, Kinds, SectionInv
  <2>9. CASE "nfs" \notin missing
    <3>1. Rate(db', "nfs", "nfs") /\ Record(hs, {<<"NFS", 0>>})
      BY <2>1, <2>9 DEF NfsFound
    <3>2. db'.buf[db'.p]["nfs"] = 0  BY <1>b, <2>3, <2>9
    <3>3. "nfs" \in Due => \/ db'.buf[Other(db'.p)]["nfs"] <= 1
                           \/ db'.buf[Other(db'.p)]["nfs"] = Never
      BY <1>b, <2>3
    <3>4. Showing("nfs")  BY <1>a, <2>3, <3>1, <3>2, <3>3, RateShows
    <3>5. mode = "file" =>
            <<"NFS", 0>> \in heads \/ <<"NFS", 0>> \in hs \/ Excused(<<"NFS", 0>>)
      BY <1>0, <2>2, <2>7, <2>9 DEF HeadInv, Excused
    <3>6. HeadInv'  BY <2>1, <2>2, <2>6, <3>1, <3>5, Records, Kinds
    <3> QED  BY <1>0, <2>1, <2>3, <2>5, <3>4, <3>6, Kinds, SectionInv
  <2> QED  BY <2>8, <2>9
<1>3. CASE Net
  <2>1. /\ At("net") /\ shown' = shown /\ max_cpus' = max_cpus
        /\ show_neterror' = show_neterror /\ first' = first
        /\ db' = ProcNet(db) /\ Rate(db', "net", "net") /\ Record({}, {<<"NET", 0>>})
    BY <1>3 DEF Net
  <2>2. DbInv(db') /\ Keeps(db, db') /\ db'.buf[db.p]["net"] = 0
    BY <1>0, <2>1, NetKeeps
  <2>3. db'.p = db.p /\ ("net" \in Due => db'.buf[Other(db'.p)]["net"] <= 1)  BY <1>b, <2>2
  <2>4. Sampled("net")'  BY <2>2, <2>3 DEF Sampled
  <2>5. Showing("net")  BY <1>a, <2>1, <2>2, <2>3, RateShows
  <2>6. mode = "file" => <<"NET", 0>> \in heads  BY <1>0 DEF HeadInv
  <2>7. HeadInv'  BY <2>1, <2>6, Records, Kinds
  <2> QED  BY <1>0, <2>1, <2>2, <2>4, <2>5, <2>7, Kinds, SectionInv
<1>4. CASE Top
  <2>1. /\ At("top") /\ shown' = shown /\ max_cpus' = max_cpus
        /\ show_neterror' = show_neterror /\ db' = Put(db, "procs", 0)
        /\ IF ("top" \in first /\ mode = "screen") \/ db.buf[Other(db.p)]["procs"] = Never
           THEN rep' = NoRep /\ UNCHANGED fileVars
           ELSE Rate(db', "top", "procs") /\ Record({}, {<<"TOP", 0>>})
        /\ first' = IF mode = "screen" THEN first \ {"top"} ELSE first
    BY <1>4 DEF Top, GetProcs
  <2>2. DbInv(db') /\ Keeps(db, db') /\ db'.buf[db.p]["procs"] = 0
    BY <1>0, <1>a, <2>1, PutKeeps
  <2>3. db'.p = db.p /\ ("top" \in Due => db'.buf[Other(db'.p)]["procs"] \in {0, 1, Never})
    BY <1>b, <2>2
  <2>4. Sampled("top")'  BY <2>2, <2>3 DEF Sampled
  <2>5. /\ "util" \notin first \ first' /\ "huge" \notin first \ first'
        /\ "vm" \notin first \ first' /\ "nfs" \notin first \ first'
    BY <2>1
  <2>6. "top" \in shown  BY <2>1, IsOn, Kinds DEF At, Inv
  <2>7. mode = "file" => <<"TOP", 0>> \in heads  BY <1>0, <2>6 DEF HeadInv
  <2>8. CASE rep' = NoRep /\ UNCHANGED fileVars
    <3>1. HeadInv'  BY <2>1, <2>5, <2>8, Records, RecordsNothing, Kinds
    <3> QED  BY <1>0, <2>1, <2>2, <2>4, <2>8, <3>1, Kinds, SectionInv
  <2>9. CASE /\ Rate(db', "top", "procs") /\ Record({}, {<<"TOP", 0>>})
             /\ db.buf[Other(db.p)]["procs"] # Never
    <3>1. HeadInv'  BY <2>1, <2>5, <2>7, <2>9, Records, Kinds
    <3>2. db'.buf[Other(db'.p)]["procs"] = db.buf[Other(db.p)]["procs"]
      <4>1. db \in Database /\ 0 \in Age /\ Other(db.p) \in Half /\ Other(db.p) # db.p
        BY <1>0, TwoHalves DEF DbInv, Age, Never
      <4> QED  BY <1>0, <1>a, <2>1, <4>1, PutFacts
    <3>3. "top" \in Due => db'.buf[Other(db'.p)]["procs"] <= 1  BY <2>3, <2>9, <3>2
    <3>4. Showing("top")  BY <1>a, <2>2, <2>3, <2>9, <3>3, RateShows
    <3> QED  BY <1>0, <2>1, <2>2, <2>4, <3>1, <3>4, Kinds, SectionInv
  <2> QED  BY <2>1, <2>8, <2>9
<1> QED  BY <1>1, <1>2, <1>3, <1>4

\* The sections on the disk sample.
LEMMA DiskSectionsStep ==
    ASSUME Inv, Diskmap \/ Verbose \/ Disk \/ Dgroup
    PROVE  Inv'
<1>0. /\ TypeOK /\ DbInv(db) /\ PrevOf(db) /\ HeadInv /\ Keeps(db, db)
      /\ show_neterror \in 0 .. 3 /\ errNow \in 0 .. MaxErr /\ db.p \in Half
  BY Parts
<1>a. "disk" \in Data  BY DEF Data
<1>b. ASSUME NEW s \in DiskSections, At(s), rep' = NoRep \/ Rate(db, s, "disk")
      PROVE  rep' = NoRep \/ Showing(s)
  <2>1. db.buf[db.p]["disk"] = 0  BY <1>b, SampledBefore DEF At
  <2>2. s \in Due => db.buf[Other(db.p)]["disk"] <= 1  BY <1>0 DEF PrevOf
  <2> QED  BY <1>0, <1>a, <1>b, <2>1, <2>2, RateShows
<1>c. ASSUME NEW s \in DiskSections PROVE Sampled(s)'
  BY DEF Sampled, DiskSections
<1>d. ASSUME NEW s, DiskRate(s) PROVE rep' = NoRep \/ Rate(db, s, "disk")
  BY <1>d DEF DiskRate
<1>e. /\ "util" \notin first \ Waited /\ "huge" \notin first \ Waited
      /\ "vm" \notin first \ Waited /\ "nfs" \notin first \ Waited
  BY DEF Waited
<1>f. {"diskmap", "verbose", "disk", "dgroup"} \subseteq DiskSections  BY DEF DiskSections
<1>1. CASE Diskmap
  <2>1. /\ At("diskmap") /\ shown' = shown /\ max_cpus' = max_cpus /\ db' = db
        /\ show_neterror' = show_neterror /\ UNCHANGED fileVars
        /\ DiskRate("diskmap") /\ first' = Waited
    BY <1>1 DEF Diskmap
  <2>2. rep' = NoRep \/ Showing("diskmap")  BY <1>b, <1>d, <1>f, <2>1
  <2>3. HeadInv'  BY <1>e, <2>1, Records, RecordsNothing, Kinds
  <2>4. Sampled("diskmap")'  BY <1>c, <1>f
  <2> QED  BY <1>0, <2>1, <2>2, <2>3, <2>4, Kinds, SectionInv
<1>2. CASE Verbose
  <2>1. /\ At("verbose") /\ shown' = shown /\ max_cpus' = max_cpus /\ db' = db
        /\ show_neterror' = show_neterror /\ UNCHANGED fileVars
        /\ Rate(db, "verbose", "disk") /\ first' = first
    BY <1>2 DEF Verbose
  <2>2. rep' = NoRep \/ Showing("verbose")  BY <1>b, <1>f, <2>1
  <2>3. HeadInv'  BY <2>1, Records, RecordsNothing, Kinds
  <2>4. Sampled("verbose")'  BY <1>c, <1>f
  <2> QED  BY <1>0, <2>1, <2>2, <2>3, <2>4, Kinds, SectionInv
<1>3. CASE Disk
  <2>1. /\ At("disk") /\ shown' = shown /\ max_cpus' = max_cpus /\ db' = db
        /\ show_neterror' = show_neterror /\ Record({}, {<<"DISK", 0>>})
        /\ DiskRate("disk") /\ first' = Waited
    BY <1>3 DEF Disk
  <2>2. rep' = NoRep \/ Showing("disk")  BY <1>b, <1>d, <1>f, <2>1
  <2>3. mode = "file" => <<"DISK", 0>> \in heads  BY <1>0 DEF HeadInv
  <2>4. HeadInv'  BY <1>e, <2>1, <2>3, Records, Kinds
  <2>5. Sampled("disk")'  BY <1>c, <1>f
  <2> QED  BY <1>0, <2>1, <2>2, <2>4, <2>5, Kinds, SectionInv
<1>4. CASE Dgroup
  <2>1. /\ At("dgroup") /\ shown' = shown /\ max_cpus' = max_cpus /\ db' = db
        /\ show_neterror' = show_neterror /\ Record({}, {<<"DG", 0>>})
        /\ first' \in {first, Waited}
    BY <1>4 DEF Dgroup
  <2>2. rep' = NoRep \/ Rate(db, "dgroup", "disk")  BY <1>4, <1>d DEF Dgroup
  <2>3. rep' = NoRep \/ Showing("dgroup")  BY <1>b, <1>f, <2>1, <2>2
  <2>4. "dgroup" \in shown  BY <2>1, IsOn, Kinds DEF At, Inv
  <2>5. mode = "file" => <<"DG", 0>> \in heads  BY <1>0, <2>4 DEF HeadInv
  <2>6. /\ "util" \notin first \ first' /\ "huge" \notin first \ first'
        /\ "vm" \notin first \ first' /\ "nfs" \notin first \ first'
    BY <1>e, <2>1
  <2>7. HeadInv'  BY <2>1, <2>5, <2>6, Records, Kinds
  <2>8. Sampled("dgroup")'  BY <1>c, <1>f
  <2> QED  BY <1>0, <2>1, <2>3, <2>7, <2>8, Kinds, SectionInv
<1> QED  BY <1>1, <1>2, <1>3, <1>4

-----------------------------------------------------------------------------
(* The loop around the sections                                             *)

\* The top of a loop: nothing lies behind, and the number of CPUs may differ.
LEMMA BeginStep ==
    ASSUME Inv, Begin
    PROVE  Inv'
<1>0. /\ TypeOK /\ DbInv(db) /\ PrevOf(db) /\ HeadInv /\ Keeps(db, db)
      /\ show_neterror \in 0 .. 3 /\ errNow \in 0 .. MaxErr /\ db.p \in Half
  BY Parts
<1>1. /\ pc = "begin" /\ pc' = FirstActive(1, shown) /\ db' = ProcRead(db, "stat")
      /\ missing' \in {missing, missing \ {"nfs"}} /\ late' = (late \/ missing' # missing)
      /\ now' = shown /\ was' = now /\ rows' = {} /\ rep' = NoRep
      /\ UNCHANGED <<session, shown, first, max_cpus, show_neterror, heads>>
      /\ old_cpus' = cpus /\ cpus' \in session.cpus
      /\ errNow' \in {e \in {errNow, errNow + 1} : e <= MaxErr}
  BY DEF Begin
<1>2. "stat" \in File /\ "stat" \notin missing  BY <1>0 DEF File, DbInv
<1>3. DbInv(db') /\ "stat" \in db'.read  BY <1>0, <1>1, <1>2, ReadKeeps
<1>4. db'.p = db.p /\ db'.buf = db.buf
  <2>1. db \in Database  BY <1>0 DEF DbInv
  <2> QED  BY <1>1, <1>2, <2>1, ReadFacts
<1>5. DbInv(db)'  BY <1>1, <1>3 DEF DbInv
<1>6. /\ pc' \in Steps /\ Active(pc', shown)
      /\ \A u \in Steps : 1 <= IndexOf(u) /\ IndexOf(u) < IndexOf(pc') => ~ Active(u, shown)
  <2>1. 1 \in 1 .. 23  OBVIOUS
  <2> QED  BY <1>1, <2>1, FirstIsActive
<1>7. \A u \in Steps : ~ Passed(u)'
  <2>1. \A u \in Steps : 1 <= IndexOf(u)  BY Around
  <2> QED  BY <1>1, <1>6, <2>1 DEF Passed
<1>8. DoneInv'  BY <1>3, <1>7 DEF DoneInv
<1>9. ShownInv'  BY <1>1, <1>6 DEF ShownInv
<1>10. mode' = mode  BY <1>1 DEF mode
<1>11. PrevInv'
  <2>1. pc' # "begin"  BY <1>6, Around
  <2>2. Due' = Due  BY <1>1, <1>10, <2>1 DEF Due
  <2>3. "vmstat" \in missing' <=> "vmstat" \in missing  BY <1>1
  <2> HIDE DEF Due
  <2> QED  BY <1>0, <1>4, <2>2, <2>3 DEF PrevInv, PrevOf
<1>12. HeadInv'
  <2>1. CASE mode # "file"  BY <1>1, <1>10, <2>1 DEF HeadInv
  <2>2. CASE mode = "file"
    <3>1. ~ Passed("cpuread")'  BY <1>7, Around
    <3>2. "nfs" \notin first => <<"NFS", 0>> \in heads \/ late' \/ "nfs" \in missing'
      BY <1>0, <1>1, <2>2 DEF HeadInv
    <3> QED  BY <1>0, <1>1, <1>10, <2>2, <3>1, <3>2 DEF HeadInv
  <2> QED  BY <2>1, <2>2
<1>13. TypeOK'
  <2>1. missing' \subseteq File  BY <1>0, <1>1 DEF TypeOK
  <2>2. late' \in BOOLEAN  BY <1>1
  <2>3. errNow' \in 0 .. MaxErr  BY <1>0, <1>1
  <2>4. {cpus', old_cpus', max_cpus'} \subseteq session'.cpus  BY <1>0, <1>1 DEF TypeOK
  <2>5. db' \in Database  BY <1>3 DEF DbInv
  <2>6. rep' \in [sec : Sections \cup {"none"}, new : Age, old : Age]
    BY <1>1 DEF NoRep, Age, Never
  <2> QED  BY <1>0, <1>1, <1>6, <2>1, <2>2, <2>3, <2>4, <2>5, <2>6
           DEF TypeOK, Database, Steps
<1>14. RateIsOfInterval'
  <2>1. rep'.sec = "none"  BY <1>1 DEF NoRep
  <2> QED  BY <1>13, <2>1 DEF RateIsOfInterval
<1> QED  BY <1>5, <1>8, <1>9, <1>11, <1>12, <1>14 DEF Inv

\* At the end of a loop everything the sections that are on need has been
\* sampled in this loop.
LEMMA AllSampled ==
    ASSUME Inv, pc = "end"
    PROVE  LET cur == db.buf[db.p]
           IN  /\ now \cap CpuSections # {} => cur["cpu"] = 0
               /\ "net" \in now => cur["net"] = 0
               /\ now \cap DiskSections # {} => cur["disk"] = 0
               /\ "top" \in now => cur["procs"] = 0
               /\ "nfs" \in now => cur["nfs"] \in {0, Never}
               /\ "vm" \in now /\ "vmstat" \notin missing => cur["vm"] = 0
<1>1. DoneInv /\ DbInv(db) /\ db.p \in Half  BY Parts DEF Inv
<1>2. "end" \in Steps  BY Around
<1>3. ASSUME NEW u \in Steps \ {"end"}, Active(u, now) PROVE Sampled(u)
  <2>1. IndexOf(u) < IndexOf("end")  BY Around
  <2>2. Passed(u)  BY <1>2, <1>3, <2>1 DEF Passed
  <2> QED  BY <1>1, <1>2, <2>2 DEF DoneInv
<1>4. {"longterm", "cpuread", "util", "kernel", "net", "diskread", "top", "nfs", "vm"}
        \subseteq Steps \ {"end"}
  BY Around
<1>5. ASSUME now \cap CpuSections # {} PROVE db.buf[db.p]["cpu"] = 0
  <2>1. PICK u \in {"longterm", "cpuread", "util", "kernel"} : Active(u, now)
    BY <1>5 DEF CpuSections, Active
  <2>2. Sampled(u)  BY <1>3, <1>4, <2>1
  <2>3. db.cpu_done /\ "stat" \in db.read  BY <1>1, <1>2, <2>2 DEF Sampled, DoneInv
  <2> QED  BY <1>1, <2>3 DEF DbInv
<1>6. ASSUME now \cap DiskSections # {} PROVE db.buf[db.p]["disk"] = 0
  <2>1. Active("diskread", now)  BY <1>6 DEF DiskSections, Active
  <2> QED  BY <1>3, <1>4, <2>1 DEF Sampled
<1>7. "net" \in now => db.buf[db.p]["net"] = 0  BY <1>3, <1>4 DEF Sampled, Active
<1>8. "top" \in now => db.buf[db.p]["procs"] = 0  BY <1>3, <1>4 DEF Sampled, Active
<1>9. "vm" \in now /\ "vmstat" \notin missing => db.buf[db.p]["vm"] = 0
  BY <1>3, <1>4 DEF Sampled, Active
<1>10. "nfs" \in now => db.buf[db.p]["nfs"] \in {0, Never}
  <2>1. CASE "nfs" \in missing  BY <1>1, <2>1 DEF DbInv
  <2>2. CASE "nfs" \notin missing  BY <1>3, <1>4, <2>2 DEF Sampled, Active
  <2> QED  BY <2>1, <2>2
<1> QED  BY <1>5, <1>6, <1>7, <1>8, <1>9, <1>10

\* The halves change places: the samples of this loop are the previous ones.
LEMMA SwitchStep ==
    ASSUME Inv, Switch
    PROVE  Inv'
<1>0. /\ TypeOK /\ DbInv(db) /\ PrevOf(db) /\ HeadInv /\ Keeps(db, db)
      /\ show_neterror \in 0 .. 3 /\ errNow \in 0 .. MaxErr /\ db.p \in Half
  BY Parts
<1>1. /\ pc = "end" /\ pc' = "begin" /\ db' = Switcher(db) /\ rep' = NoRep
      /\ UNCHANGED <<session, missing, late, flagVars, cpuVars, netVars, fileVars>>
  BY DEF Switch
<1>2. UNCHANGED <<session, missing, late, shown, now, was, first, cpus, old_cpus, max_cpus,
                  errNow, show_neterror, heads, rows>>
  BY <1>1 DEF flagVars, cpuVars, netVars, fileVars
<1>3. db \in Database  BY <1>0 DEF DbInv
<1>4. /\ db' \in Database /\ db'.p = Other(db.p) /\ Other(db'.p) = db.p /\ db'.read = {}
      /\ \A h \in Half, x \in Data : db'.buf[h][x] = Older(db.buf[h][x])
  BY <1>1, <1>3, SwitchFacts
<1>5. Older(0) = 1 /\ Older(Never) = Never  BY DEF Older, Never
<1>6. DbInv(db)'
  <2>1. "nfs" \in missing => \A h \in Half : db'.buf[h]["nfs"] = Never
    BY <1>0, <1>4, <1>5 DEF DbInv, Data
  <2> QED  BY <1>0, <1>2, <1>4, <2>1 DEF DbInv
<1>7. "begin" \notin Steps  BY Around
<1>8. DoneInv' /\ ShownInv'  BY <1>1, <1>7 DEF DoneInv, ShownInv
<1>9. mode' = mode  BY <1>2 DEF mode
<1>10. PrevInv'
  <2>1. Due' \subseteq now
    <3>1. CASE mode = "screen"  BY <1>1, <1>2, <1>9, <3>1 DEF Due
    <3>2. CASE mode # "screen"
      <4>1. shown \subseteq now  BY <1>1, <3>2, Around DEF Inv, ShownInv
      <4> QED  BY <1>2, <1>9, <3>2, <4>1 DEF Due
    <3> QED  BY <3>1, <3>2
  <2>2. \A x \in Data : db'.buf[Other(db'.p)][x] = Older(db.buf[db.p][x])  BY <1>0, <1>4
  <2>3. Data = {"cpu", "mem", "vm", "nfs", "net", "disk", "procs"}  BY DEF Data
  <2>4. missing' = missing  BY <1>2
  <2>5. 1 <= 1 /\ Older(0) \in {0, 1, Never} /\ Older(Never) \in {0, 1, Never}  BY <1>5
  <2> DEFINE cur == db.buf[db.p]
             prev == db'.buf[Other(db'.p)]
  <2>6. /\ now \cap CpuSections # {} => cur["cpu"] = 0
        /\ "net" \in now => cur["net"] = 0
        /\ now \cap DiskSections # {} => cur["disk"] = 0
        /\ "top" \in now => cur["procs"] = 0
        /\ "nfs" \in now => cur["nfs"] \in {0, Never}
        /\ "vm" \in now /\ "vmstat" \notin missing => cur["vm"] = 0
    BY <1>1, AllSampled
  <2>7. \A x \in Data : prev[x] = Older(cur[x])  BY <2>2
  <2> HIDE DEF cur
  <2>8. /\ Due' \cap CpuSections # {} => prev["cpu"] <= 1
        /\ "net" \in Due' => prev["net"] <= 1
        /\ Due' \cap DiskSections # {} => prev["disk"] <= 1
        /\ "top" \in Due' => prev["procs"] \in {0, 1, Never}
        /\ "nfs" \in Due' => prev["nfs"] \in {0, 1, Never}
        /\ "vm" \in Due' /\ "vmstat" \notin missing' => prev["vm"] <= 1
    <3> HIDE DEF prev, Due
    <3> QED  BY <1>5, <2>1, <2>3, <2>4, <2>5, <2>6, <2>7
  <2> QED  BY <2>8 DEF PrevInv, PrevOf
<1>11. HeadInv'
  <2>1. ~ Passed("cpuread")'  BY <1>1, <1>7 DEF Passed
  <2>2. \A r : Excused(r)' <=> Excused(r)  BY <1>2 DEF Excused
  <2> HIDE DEF Passed, Excused
  <2> QED  BY <1>0, <1>2, <1>9, <2>1, <2>2 DEF HeadInv
<1>12. TypeOK'
  <2>1. rep' \in [sec : Sections \cup {"none"}, new : Age, old : Age]
    BY <1>1 DEF NoRep, Age, Never
  <2> QED  BY <1>0, <1>1, <1>2, <1>4, <2>1 DEF TypeOK, Database
<1>13. RateIsOfInterval'
  <2>1. rep'.sec = "none"  BY <1>1 DEF NoRep
  <2> QED  BY <1>12, <2>1 DEF RateIsOfInterval
<1> QED  BY <1>6, <1>8, <1>10, <1>11, <1>13 DEF Inv

\* Keys change what the next loops show, on a screen only.
LEMMA PressStep ==
    ASSUME Inv, NEW s \in Sections, Press(s)
    PROVE  Inv'
<1>0. /\ TypeOK /\ DbInv(db) /\ PrevOf(db) /\ HeadInv /\ Keeps(db, db)
      /\ show_neterror \in 0 .. 3 /\ errNow \in 0 .. MaxErr /\ db.p \in Half
  BY Parts
<1>1. /\ pc = "end" /\ s \in session.keys /\ rep' = NoRep
      /\ UNCHANGED <<session, missing, late, now, was, first, pc, db, cpus, old_cpus,
                     max_cpus, errNow, heads, rows>>
  BY DEF Press, cpuVars, fileVars
<1>2. mode = "screen" /\ mode' = mode
  BY <1>0, <1>1, NmonLoopAssumption DEF TypeOK, mode
<1>3. shown' \in SUBSET Sections
  <2>1. shown \in SUBSET Sections  BY <1>0 DEF TypeOK
  <2>2. Flip(s) \in SUBSET Sections  BY <2>1 DEF Flip
  <2>3. \/ shown' = Flip(s) \ {"verbose"} \/ shown' = shown \/ shown' = Flip(s)
    BY DEF Press
  <2> QED  BY <2>1, <2>2, <2>3
<1>4. show_neterror' \in 0 .. 3  BY <1>0 DEF Press
<1>5. DbInv(db)'  BY <1>0, <1>1 DEF DbInv
<1>6. DoneInv'
  <2>1. \A u : Passed(u)' => Passed(u)  BY <1>1 DEF Passed
  <2>2. \A u : Sampled(u) => Sampled(u)'  BY <1>1 DEF Sampled
  <2> HIDE DEF Passed, Sampled
  <2> QED  BY <1>1, <2>1, <2>2 DEF Inv, DoneInv
<1>7. ShownInv'  BY <1>1, <1>2 DEF ShownInv, Active
<1>8. PrevInv'
  <2>1. Due' = Due  BY <1>1, <1>2 DEF Due
  <2> HIDE DEF Due
  <2> QED  BY <1>0, <1>1, <2>1 DEF PrevInv, PrevOf
<1>9. HeadInv'  BY <1>0, <1>1, <1>2 DEF HeadInv
<1>10. TypeOK'
  <2>1. rep' \in [sec : Sections \cup {"none"}, new : Age, old : Age]
    BY <1>1 DEF NoRep, Age, Never
  <2> QED  BY <1>0, <1>1, <1>3, <1>4, <2>1 DEF TypeOK
<1>11. RateIsOfInterval'
  <2>1. rep'.sec = "none"  BY <1>1 DEF NoRep
  <2> QED  BY <1>10, <2>1 DEF RateIsOfInterval
<1> QED  BY <1>5, <1>6, <1>7, <1>8, <1>9, <1>11 DEF Inv

-----------------------------------------------------------------------------
(* Start-up                                                                 *)

\* Of processes and of NFS nothing is sampled at start-up.
Unsampled(d) == \A h \in Half : d.buf[h]["procs"] = Never /\ d.buf[h]["nfs"] = Never

\* The readers of start-up leave it so.
LEMMA StaysUnsampled ==
    ASSUME NEW d \in Database, Unsampled(d)
    PROVE  /\ \A f \in File : Unsampled(ProcRead(d, f))
           /\ \A x \in Data \ {"procs", "nfs"} : \A a \in Age : Unsampled(Put(d, x, a))
           /\ \A x \in Data \ {"procs", "nfs"} : Unsampled(CopyToPrevious(d, x))
           /\ Unsampled(ProcNet(d))
<1>0. {"procs", "nfs", "net"} \subseteq Data /\ 0 \in Age  BY DEF Data, Age, Never
<1>1. ASSUME NEW f \in File PROVE Unsampled(ProcRead(d, f))
  BY ReadFacts DEF Unsampled
<1>2. ASSUME NEW x \in Data \ {"procs", "nfs"}, NEW a \in Age PROVE Unsampled(Put(d, x, a))
  <2> DEFINE e == Put(d, x, a)
  <2>1. \A h \in Half, y \in Data :
          e.buf[h][y] = IF h = d.p /\ y = x THEN a ELSE d.buf[h][y]
    BY PutFacts
  <2> HIDE DEF e
  <2>2. Unsampled(e)  BY <1>0, <2>1 DEF Unsampled
  <2> QED  BY <2>2 DEF e
<1>3. ASSUME NEW x \in Data \ {"procs", "nfs"} PROVE Unsampled(CopyToPrevious(d, x))
  <2> DEFINE e == CopyToPrevious(d, x)
  <2>1. \A h \in Half, y \in Data :
          e.buf[h][y] = IF h # d.p /\ y = x THEN d.buf[d.p][x] ELSE d.buf[h][y]
    BY CopyFacts
  <2> HIDE DEF e
  <2>2. Unsampled(e)  BY <1>0, <2>1 DEF Unsampled
  <2> QED  BY <2>2 DEF e
<1>4. Unsampled(ProcNet(d))
  <2> DEFINE u == Put(d, "net", 0)
  <2>1. Unsampled(u) /\ u \in Database  BY <1>0, <1>2, PutFacts
  <2>2. ProcNet(d) = [u EXCEPT !.err[d.p] = errNow]  BY DEF ProcNet
  <2> HIDE DEF u
  <2>3. ProcNet(d).buf = u.buf  BY <2>1, <2>2 DEF Database
  <2> QED  BY <2>1, <2>3 DEF Unsampled
<1> QED  BY <1>1, <1>2, <1>3, <1>4

\* The CPU sample of start-up is put into both halves.
StartCpu(d) ==
    [d EXCEPT !.buf = [h \in Half |-> [@[h] EXCEPT !["cpu"] = 0]], !.cpu_done = TRUE]

\* It is a sample of start-up, and nothing else changes.
LEMMA StartCpuFacts ==
    ASSUME NEW d, DbInv(d), Unsampled(d)
    PROVE  LET e == StartCpu(d)
           IN  DbInv(e) /\ Unsampled(e) /\ e.buf[e.p]["cpu"] = 0
<1> DEFINE b == [h \in Half |-> [d.buf[h] EXCEPT !["cpu"] = 0]]
           e == [d EXCEPT !.buf = b, !.cpu_done = TRUE]
<1>1. d \in Database /\ d.p \in Half  BY DEF DbInv, Database
<1>2. StartCpu(d) = e  BY <1>1 DEF StartCpu, Database
<1>3. {"cpu", "procs", "nfs"} \subseteq Data /\ 0 \in Age  BY DEF Data, Age, Never
<1>4. /\ b \in [Half -> [Data -> Age]]
      /\ \A h \in Half, x \in Data : b[h][x] = IF x = "cpu" THEN 0 ELSE d.buf[h][x]
  BY <1>1, <1>3 DEF Database
<1> HIDE DEF b
<1>5. /\ e \in Database /\ e.p = d.p /\ e.read = d.read /\ e.text = d.text
      /\ e.buf = b
  BY <1>1, <1>4 DEF Database
<1> HIDE DEF e
<1>6. Unsampled(e)  BY <1>3, <1>4, <1>5 DEF Unsampled
<1>7. e.buf[e.p]["cpu"] = 0  BY <1>1, <1>3, <1>4, <1>5
<1>8. DbInv(e)  BY <1>5, <1>6, <1>7 DEF DbInv, Unsampled
<1> QED  BY <1>2, <1>6, <1>7, <1>8

\* What start-up has sampled: CPUs, disks and network, and for a recording the
\* virtual memory, "so we do not get incorrect data for the first reported
\* interval" (app/lmon16f.c:4727).
LEMMA StartFacts ==
    ASSUME missing \subseteq {"vmstat", "nfs"}, errNow = 0, NEW m
    PROVE  LET d == StartDb(m)
               cur == d.buf[d.p]
           IN  /\ DbInv(d) /\ Unsampled(d)
               /\ cur["cpu"] = 0 /\ cur["disk"] = 0 /\ cur["net"] = 0
               /\ m # "screen" /\ "vmstat" \notin missing => cur["vm"] = 0
<1>0. /\ {"stat", "uptime", "loadavg", "meminfo"} \subseteq File
      /\ {"cpu", "disk", "net", "vm", "mem"} \subseteq Data \ {"procs", "nfs"}
      /\ 0 \in Age /\ errNow \in 0 .. MaxErr
  BY NmonLoopAssumption DEF File, Data, Age, Never
<1>1. DbInv(EmptyDb) /\ Unsampled(EmptyDb)
  <2>1. EmptyDb \in Database
    BY <1>0 DEF EmptyDb, Database, Half, Age, Never
  <2>2. EmptyDb.read = {} /\ \A h \in Half, x \in Data : EmptyDb.buf[h][x] = Never
    BY DEF EmptyDb
  <2>3. "procs" \in Data /\ "nfs" \in Data  BY DEF Data
  <2> QED  BY <2>1, <2>2, <2>3 DEF DbInv, Unsampled
<1>2. \A d : DbInv(d) => d \in Database  BY DEF DbInv
<1> DEFINE d1 == ProcRead(EmptyDb, "stat")
           d2 == ProcRead(d1, "uptime")
           d3 == ProcRead(d2, "loadavg")
           d4 == StartCpu(d3)
           d5 == Put(d4, "disk", 0)
           d6 == CopyToPrevious(d5, "disk")
           d7 == ProcNet(d6)
           d8 == CopyToPrevious(d7, "net")
           d9 == ReadVmstat(d8)
           d0 == ProcMem(d9)
<1>3. StartDb(m) = IF m = "screen" THEN d8 ELSE d0
  BY DEF StartDb, StartCpu, ProcDisk
<1>4. DbInv(d1) /\ Unsampled(d1)  BY <1>0, <1>1, <1>2, ReadKeeps, StaysUnsampled
<1> HIDE DEF d1
<1>5. DbInv(d2) /\ Unsampled(d2)  BY <1>0, <1>2, <1>4, ReadKeeps, StaysUnsampled
<1> HIDE DEF d2
<1>6. DbInv(d3) /\ Unsampled(d3)  BY <1>0, <1>2, <1>5, ReadKeeps, StaysUnsampled
<1> HIDE DEF d3
<1>7. DbInv(d4) /\ Unsampled(d4) /\ d4.buf[d4.p]["cpu"] = 0  BY <1>6, StartCpuFacts
<1> HIDE DEF d4
<1>8. DbInv(d5) /\ Keeps(d4, d5) /\ d5.buf[d4.p]["disk"] = 0  BY <1>0, <1>7, PutKeeps
<1>9. Unsampled(d5)  BY <1>0, <1>2, <1>7, StaysUnsampled
<1> HIDE DEF d5
<1>10. d5.p = d4.p /\ d5.buf[d5.p]["cpu"] = 0 /\ d5.buf[d5.p]["disk"] = 0
  BY <1>0, <1>7, <1>8 DEF Keeps
<1>11. DbInv(d6) /\ Keeps(d5, d6)  BY <1>0, <1>8, <1>10, CopyKeeps
<1>12. Unsampled(d6)  BY <1>0, <1>2, <1>8, <1>9, StaysUnsampled
<1> HIDE DEF d6
<1>13. d6.p = d5.p /\ d6.buf[d6.p]["cpu"] = 0 /\ d6.buf[d6.p]["disk"] = 0
  BY <1>0, <1>10, <1>11 DEF Keeps
<1>14. DbInv(d7) /\ Keeps(d6, d7) /\ d7.buf[d6.p]["net"] = 0  BY <1>0, <1>11, NetKeeps
<1>15. Unsampled(d7)  BY <1>2, <1>11, <1>12, StaysUnsampled
<1> HIDE DEF d7
<1>16. /\ d7.p = d6.p /\ d7.buf[d7.p]["cpu"] = 0 /\ d7.buf[d7.p]["disk"] = 0
       /\ d7.buf[d7.p]["net"] = 0
  BY <1>0, <1>13, <1>14 DEF Keeps
<1>17. DbInv(d8) /\ Keeps(d7, d8)  BY <1>0, <1>14, <1>16, CopyKeeps
<1>18. Unsampled(d8)  BY <1>0, <1>2, <1>14, <1>15, StaysUnsampled
<1> HIDE DEF d8
<1>19. /\ d8.buf[d8.p]["cpu"] = 0 /\ d8.buf[d8.p]["disk"] = 0 /\ d8.buf[d8.p]["net"] = 0
  BY <1>0, <1>16, <1>17 DEF Keeps
<1>20. /\ DbInv(d9) /\ Keeps(d8, d9)
       /\ "vmstat" \notin missing => d9.buf[d8.p]["vm"] = 0
  BY <1>17, VmKeeps
<1>21. Unsampled(d9)
  <2>1. Unsampled(ProcRead(d8, "vmstat")) /\ ProcRead(d8, "vmstat") \in Database
    BY <1>2, <1>17, <1>18, StaysUnsampled, ReadFacts DEF File
  <2> DEFINE r == ProcRead(d8, "vmstat")
  <2>2. d9 = r \/ d9 = Put(r, "vm", r.text["vmstat"])  BY DEF ReadVmstat
  <2>3. r.text["vmstat"] \in Age  BY <2>1 DEF Database, File
  <2>4. Unsampled(r) /\ r \in Database  BY <2>1
  <2> HIDE DEF r, d9
  <2> QED  BY <1>0, <2>2, <2>3, <2>4, StaysUnsampled
<1> HIDE DEF d9
<1>22. /\ d9.p = d8.p
       /\ d9.buf[d9.p]["cpu"] = 0 /\ d9.buf[d9.p]["disk"] = 0 /\ d9.buf[d9.p]["net"] = 0
  BY <1>0, <1>19, <1>20 DEF Keeps
<1>23. /\ DbInv(d0) /\ Unsampled(d0) /\ d0.p = d9.p
       /\ \A x \in Data \ {"mem"} : d0.buf[d0.p][x] = d9.buf[d9.p][x]
  <2>1. d9 \in Database /\ d9.p \in Half  BY <1>2, <1>20 DEF Database
  <2> DEFINE a == d9.text["meminfo"]
  <2>2. a \in Age  BY <1>0, <2>1 DEF Database
  <2>3. d0 = Put(d9, "mem", a)  BY DEF ProcMem
  <2> HIDE DEF a
  <2> HIDE DEF d0
  <2>4. Unsampled(d0)  BY <1>0, <1>21, <2>1, <2>2, <2>3, StaysUnsampled
  <2>5. /\ d0 \in Database /\ d0.p = d9.p /\ d0.read = d9.read /\ d0.cpu_done = d9.cpu_done
        /\ d0.text = d9.text
        /\ \A h \in Half, y \in Data :
             d0.buf[h][y] = IF h = d9.p /\ y = "mem" THEN a ELSE d9.buf[h][y]
    <3>1. "mem" \in Data  BY <1>0
    <3> QED  BY <2>1, <2>2, <2>3, <3>1, PutFacts
  <2>6. \A x \in Data \ {"mem"} : d0.buf[d0.p][x] = d9.buf[d9.p][x]  BY <2>1, <2>5
  <2>7. d0.buf[d0.p]["cpu"] = d9.buf[d9.p]["cpu"]  BY <2>6 DEF Data
  <2>8. DbInv(d0)  BY <1>20, <2>4, <2>5, <2>7 DEF DbInv, Unsampled
  <2> QED  BY <2>4, <2>5, <2>6, <2>8
<1> HIDE DEF d0
<1>24. CASE m = "screen"  BY <1>3, <1>17, <1>18, <1>19, <1>24
<1>25. CASE m # "screen"
  <2>1. {"cpu", "disk", "net", "vm"} \subseteq Data \ {"mem"}  BY DEF Data
  <2>2. StartDb(m) = d0  BY <1>3, <1>25
  <2> QED  BY <1>20, <1>22, <1>23, <2>1, <2>2
<1> QED  BY <1>24, <1>25

\* The invariant holds at start-up: a recording's first interval has all its
\* previous samples.
LEMMA InitInv == Init => Inv
<1> SUFFICES ASSUME Init PROVE Inv
  OBVIOUS
<1>1. /\ session \in Sessions /\ missing = session.missing /\ late = FALSE
      /\ was = {} /\ now = {} /\ errNow = 0 /\ show_neterror = 0 /\ rows = {} /\ rep = NoRep
      /\ pc = "begin" /\ cpus \in session.cpus /\ old_cpus = cpus /\ max_cpus = cpus
      /\ db = Switcher(StartDb(mode))
      /\ shown = IF mode = "screen" THEN session.options \ {"dgroup"}
                 ELSE session.options \cup Background
      /\ heads = IF mode = "file" THEN Header(shown, cpus) ELSE {}
      /\ first = {"smp", "wide", "util", "vm", "nfs", "disk", "top", "proc", "huge"}
  BY DEF Init
<1>2. /\ missing \subseteq {"vmstat", "nfs"} /\ session.options \subseteq Sections
      /\ MaxErr \in Nat
  BY <1>1, NmonLoopAssumption
<1> DEFINE d == StartDb(mode)
<1>3. /\ DbInv(d) /\ Unsampled(d)
      /\ d.buf[d.p]["cpu"] = 0 /\ d.buf[d.p]["disk"] = 0 /\ d.buf[d.p]["net"] = 0
      /\ mode # "screen" /\ "vmstat" \notin missing => d.buf[d.p]["vm"] = 0
  BY <1>1, <1>2, StartFacts
<1>4. db = Switcher(d)  BY <1>1
<1> HIDE DEF d
<1>5. d \in Database /\ d.p \in Half  BY <1>3 DEF DbInv, Database
<1>6. /\ db \in Database /\ db.p = Other(d.p) /\ Other(db.p) = d.p /\ db.read = {}
      /\ \A h \in Half, x \in Data : db.buf[h][x] = Older(d.buf[h][x])
  BY <1>4, <1>5, SwitchFacts
<1>7. Older(0) = 1 /\ Older(Never) = Never  BY DEF Older, Never
<1>8. Data = {"cpu", "mem", "vm", "nfs", "net", "disk", "procs"}  BY DEF Data
<1>9. DbInv(db)
  <2>1. \A h \in Half : db.buf[h]["nfs"] = Never  BY <1>3, <1>6, <1>7, <1>8 DEF Unsampled
  <2> QED  BY <1>2, <1>6, <2>1 DEF DbInv
<1>10. pc \notin Steps  BY <1>1, Around
<1>11. DoneInv /\ ShownInv  BY <1>10 DEF DoneInv, ShownInv
<1>12. PrevInv
  <2>1. \A x \in Data : db.buf[Other(db.p)][x] = Older(d.buf[d.p][x])  BY <1>5, <1>6
  <2> DEFINE prev == db.buf[Other(db.p)]
  <2>2. d.buf[d.p]["procs"] = Never /\ d.buf[d.p]["nfs"] = Never
    BY <1>3, <1>5 DEF Unsampled
  <2>3. /\ prev["cpu"] = 1 /\ prev["disk"] = 1 /\ prev["net"] = 1
        /\ prev["procs"] = Never /\ prev["nfs"] = Never
        /\ mode # "screen" /\ "vmstat" \notin missing => prev["vm"] = 1
    BY <1>3, <1>7, <1>8, <2>1, <2>2
  <2>4. mode = "screen" => Due = {}  BY <1>1 DEF Due
  <2> HIDE DEF prev, Due
  <2>5. /\ Due \cap CpuSections # {} => prev["cpu"] <= 1
        /\ "net" \in Due => prev["net"] <= 1
        /\ Due \cap DiskSections # {} => prev["disk"] <= 1
        /\ "top" \in Due => prev["procs"] \in {0, 1, Never}
        /\ "nfs" \in Due => prev["nfs"] \in {0, 1, Never}
        /\ "vm" \in Due /\ "vmstat" \notin missing => prev["vm"] <= 1
    BY <2>3, <2>4
  <2> QED  BY <2>5 DEF PrevInv, PrevOf, prev
<1>13. HeadInv
  <2>1. CASE mode # "file"  BY <1>1, <2>1 DEF HeadInv
  <2>2. CASE mode = "file"
    <3>1. ~ Passed("cpuread")  BY <1>10 DEF Passed
    <3>2. heads = Header(shown, cpus)  BY <1>1, <2>2
    <3>3. /\ {"CPU"} \X (1 .. max_cpus) \subseteq heads
          /\ {"CPU_ALL", "MEM", "PROC", "NET", "DISK", "JFSFILE"} \X {0} \subseteq heads
      BY <1>1, <3>2 DEF Header
    <3>4. /\ "mhz" \in shown => <<"MHZ", 0>> \in heads
          /\ "dgroup" \in shown => <<"DG", 0>> \in heads
          /\ "top" \in shown => <<"TOP", 0>> \in heads
      BY <3>2 DEF Header
    <3>5. {"vm", "util", "huge", "nfs"} \subseteq first  BY <1>1
    <3> QED  BY <1>1, <2>2, <3>1, <3>3, <3>4, <3>5 DEF HeadInv
  <2> QED  BY <2>1, <2>2
<1>14. TypeOK
  <2>1. Background \subseteq Sections  BY Kinds DEF Background
  <2>2. shown \in SUBSET Sections  BY <1>1, <1>2, <2>1
  <2>3. missing \subseteq File  BY <1>2 DEF File
  <2>4. rep \in [sec : Sections \cup {"none"}, new : Age, old : Age]
    BY <1>1 DEF NoRep, Age, Never
  <2>5. errNow \in 0 .. MaxErr /\ show_neterror \in 0 .. 3  BY <1>1, <1>2
  <2> QED  BY <1>1, <1>6, <2>2, <2>3, <2>4, <2>5 DEF TypeOK, Database
<1>15. RateIsOfInterval
  <2>1. rep.sec = "none"  BY <1>1 DEF NoRep
  <2> QED  BY <1>14, <2>1 DEF RateIsOfInterval
<1> QED  BY <1>9, <1>11, <1>12, <1>13, <1>15 DEF Inv

-----------------------------------------------------------------------------
(* Theorems                                                                 *)

\* The invariant is kept by every step.
LEMMA NextInv == Inv /\ [Next]_vars => Inv'
<1> SUFFICES ASSUME Inv, [Next]_vars PROVE Inv'
  OBVIOUS
<1>1. CASE Begin  BY <1>1, BeginStep
<1>2. CASE SectionStep
  BY <1>2, PlainSections, CpuSectionsStep, CounterSections, DiskSectionsStep DEF SectionStep
<1>3. CASE Switch  BY <1>3, SwitchStep
<1>4. CASE \E s \in Sections : Press(s)  BY <1>4, PressStep
<1>5. CASE UNCHANGED vars
  <2>1. UNCHANGED <<session, missing, late, shown, now, was, first, pc, db, cpus, old_cpus,
                    max_cpus, errNow, show_neterror, heads, rows, rep>>
    BY <1>5 DEF vars, flagVars, cpuVars, netVars, fileVars
  <2>2. mode' = mode  BY <2>1 DEF mode
  <2>3. RateIsOfInterval'
    BY <2>1, <2>2 DEF Inv, RateIsOfInterval, TypeOK, NoPrevious
  <2>4. DbInv(db)'  BY <2>1 DEF Inv, DbInv
  <2>5. DoneInv'  BY <2>1 DEF Inv, DoneInv, Passed, Sampled
  <2>6. ShownInv'  BY <2>1, <2>2 DEF Inv, ShownInv
  <2>7. PrevInv'
    <3>1. Due' = Due  BY <2>1, <2>2 DEF Due
    <3> QED  BY <2>1, <3>1 DEF Inv, PrevInv, PrevOf
  <2>8. HeadInv'  BY <2>1, <2>2 DEF Inv, HeadInv, Passed, Excused
  <2> QED  BY <2>3, <2>4, <2>5, <2>6, <2>7, <2>8 DEF Inv
<1> QED  BY <1>1, <1>2, <1>3, <1>4, <1>5 DEF Next

\* The sampling loop of nmon keeps its invariant.
THEOREM NmonInvariant == Spec => []Inv
BY InitInv, NextInv, PTL DEF Spec

\* Whatever the options, the keys and the files that are there, a recording
\* contains the change over the last interval from its first interval on, and a
\* screen does from the second loop a section is on, although sections share
\* samples, /proc texts and first-time flags.
THEOREM RatesAreOfInterval == Spec => []RateIsOfInterval
<1>1. Inv => RateIsOfInterval  BY DEF Inv
<1> QED  BY <1>1, NmonInvariant, PTL

\* Every row of a recording comes after its heading, whatever sections are
\* recorded and however many CPUs are added while nmon runs, but for VM without
\* /proc/vmstat, NFS that starts late and, of the CPUUTIL rows, those of CPU 0 and
\* of CPUs that are not there all the time.
THEOREM HeadingsComeFirst == Spec => []HeadingBeforeRow
<1>1. Inv => HeadingBeforeRow
  <2> SUFFICES ASSUME Inv PROVE HeadingBeforeRow
    OBVIOUS
  <2>1. CASE mode = "file"  BY <2>1 DEF Inv, HeadInv, HeadingBeforeRow
  <2>2. CASE mode # "file"  BY <2>2 DEF Inv, HeadInv, HeadingBeforeRow
  <2> QED  BY <2>1, <2>2
<1> QED  BY <1>1, NmonInvariant, PTL

-----------------------------------------------------------------------------
(* Processes                                                                *)

ProcsType ==
    /\ live \subseteq Procs!All /\ Nmon \in live
    /\ procs \in [{1, 2} -> SUBSET Procs!All]
    /\ records \in [{1, 2} -> Nat \ {0}]
    /\ topper_size \in Nat /\ topper \subseteq Procs!All
    /\ p \in {1, 2} /\ step \in {"count", "details"}
    /\ todo \subseteq Procs!All /\ count \in Nat

\* While details are read, the table holds as many processes as were counted
\* into it, none of them is still to come, and the reading goes on only as
\* long as there is room.
Reading ==
    step = "details" =>
        /\ procs[p] \cap todo = {}
        /\ Cardinality(procs[p]) = count
        /\ todo # {} => count < records[p]

ProcsInv == ProcsType /\ Procs!TablesInBounds /\ Reading

\* NmonProcs counts with the Cardinality of FiniteSets.
LEMMA SameCardinality == \A S : Procs!Cardinality(S) = Cardinality(S)
BY DEF Procs!Cardinality, Cardinality

\* Every set of processes is finite.
LEMMA ProcessesFinite ==
    /\ IsFiniteSet(Procs!All)
    /\ \A S \in SUBSET Procs!All : IsFiniteSet(S) /\ Cardinality(S) \in Nat
<1>1. IsFiniteSet(Procs!All)  BY ProcsAssumption, FS_AddElement DEF Procs!All
<1> QED  BY <1>1, FS_Subset, FS_CardinalityType

\* The table is never empty: nmon itself is alive.
LEMMA LiveCounted ==
    ASSUME ProcsType
    PROVE  Cardinality(live) \in Nat \ {0}
<1>1. IsFiniteSet(live) /\ Cardinality(live) \in Nat  BY ProcessesFinite DEF ProcsType
<1>2. Cardinality(live) # 0  BY <1>1, FS_EmptySet DEF ProcsType
<1> QED  BY <1>1, <1>2

LEMMA ProcsInit == Procs!Init => ProcsInv
<1> SUFFICES ASSUME Procs!Init PROVE ProcsInv
  OBVIOUS
<1>1. live \subseteq Procs!All /\ Nmon \in live  BY DEF Procs!Init, Procs!All
<1>2. Cardinality(live) \in Nat /\ Cardinality(live) # 0
  <2>1. IsFiniteSet(live) /\ Cardinality(live) \in Nat  BY <1>1, ProcessesFinite
  <2> QED  BY <1>1, <2>1, FS_EmptySet
<1>3. Cardinality(live) + Growth \in Nat \ {0}  BY <1>2, ProcsAssumption
<1>4. records \in [{1, 2} -> Nat \ {0}]  BY <1>3, SameCardinality DEF Procs!Init
<1>5. ProcsType  BY <1>1, <1>4 DEF Procs!Init, ProcsType
<1>6. Cardinality({}) = 0  BY FS_EmptySet
<1>7. \A h \in {1, 2} : Cardinality(procs[h]) <= records[h]
  <2> SUFFICES ASSUME NEW h \in {1, 2} PROVE Cardinality(procs[h]) <= records[h]
    OBVIOUS
  <2>1. procs[h] = {}  BY DEF Procs!Init
  <2>2. records[h] \in Nat  BY <1>4
  <2> QED  BY <1>6, <2>1, <2>2
<1> QED  BY <1>5, <1>6, <1>7, SameCardinality DEF Procs!Init, ProcsInv, Reading, Procs!TablesInBounds

LEMMA CountStep == ASSUME ProcsInv, Procs!Count PROVE ProcsInv'
<1>1. /\ ProcsType /\ Procs!TablesInBounds
      /\ procs' = [procs EXCEPT ![p] = {}] /\ count' = 0 /\ step' = "details"
      /\ UNCHANGED <<live, topper_size, topper, p>> /\ todo' = Procs!All
  BY DEF ProcsInv, Procs!Count
<1>2. Cardinality(live) \in Nat \ {0} /\ Cardinality(live) + Growth \in Nat \ {0}
  BY <1>1, LiveCounted, ProcsAssumption
<1>3. records' \in [{1, 2} -> Nat \ {0}] /\ \A h \in {1, 2} : h # p => records'[h] = records[h]
  BY <1>1, <1>2, SameCardinality DEF ProcsType, Procs!Count
<1>4. ProcsType'  BY <1>1, <1>3 DEF ProcsType, Procs!All
<1>5. Cardinality({}) = 0  BY FS_EmptySet
<1>6. procs'[p] = {} /\ \A h \in {1, 2} : h # p => procs'[h] = procs[h]
  BY <1>1 DEF ProcsType
<1>7. records'[p] \in Nat \ {0}  BY <1>1, <1>3 DEF ProcsType
<1>8. \A h \in {1, 2} : Cardinality(procs'[h]) <= records'[h]
  <2> SUFFICES ASSUME NEW h \in {1, 2} PROVE Cardinality(procs'[h]) <= records'[h]
    OBVIOUS
  <2>1. CASE h = p  BY <1>5, <1>6, <1>7, <2>1
  <2>2. CASE h # p  BY <1>1, <1>3, <1>6, <2>2, SameCardinality DEF Procs!TablesInBounds
  <2> QED  BY <2>1, <2>2
<1>9. Reading'  BY <1>1, <1>5, <1>6, <1>7 DEF Reading
<1> QED  BY <1>1, <1>4, <1>5, <1>6, <1>8, <1>9, SameCardinality DEF ProcsInv, Procs!TablesInBounds

LEMMA ReadProcStep == ASSUME ProcsInv, Procs!ReadProc PROVE ProcsInv'
<1>1. /\ ProcsType /\ Procs!TablesInBounds
      /\ UNCHANGED <<live, records, topper_size, topper, p, step>> /\ step = "details"
      /\ procs[p] \cap todo = {} /\ Cardinality(procs[p]) = count /\ count < records[p]
  BY DEF ProcsInv, Procs!ReadProc, Reading
<1>2. PICK n \in todo :
        IF n \in live
        THEN /\ procs' = [procs EXCEPT ![p] = @ \cup {n}]
             /\ count' = count + 1
             /\ todo' = IF count + 1 = records[p] THEN {} ELSE todo \ {n}
        ELSE todo' = todo \ {n} /\ UNCHANGED <<procs, count>>
  BY DEF Procs!ReadProc
<1>3. /\ count \in Nat /\ records[p] \in Nat /\ p \in {1, 2} /\ procs[p] \subseteq Procs!All
      /\ n \notin procs[p] /\ n \in Procs!All
  BY <1>1 DEF ProcsType
<1>4. CASE n \in live
  <2>1. procs'[p] = procs[p] \cup {n} /\ \A h \in {1, 2} : h # p => procs'[h] = procs[h]
    BY <1>1, <1>2, <1>4 DEF ProcsType
  <2>2. Cardinality(procs[p] \cup {n}) = count + 1
    BY <1>1, <1>3, ProcessesFinite, FS_AddElement
  <2>3. ProcsType'  BY <1>1, <1>2, <1>3, <1>4 DEF ProcsType, Procs!All
  <2>4. count + 1 <= records[p] /\ count' = count + 1  BY <1>1, <1>2, <1>3, <1>4
  <2>5. \A h \in {1, 2} : Cardinality(procs'[h]) <= records[h]
    <3> SUFFICES ASSUME NEW h \in {1, 2} PROVE Cardinality(procs'[h]) <= records[h]
      OBVIOUS
    <3>1. CASE h = p  BY <2>1, <2>2, <2>4, <3>1
    <3>2. CASE h # p  BY <1>1, <2>1, <3>2, SameCardinality DEF Procs!TablesInBounds
    <3> QED  BY <3>1, <3>2
  <2>6. todo' = {} \/ (todo' = todo \ {n} /\ count + 1 # records[p])
    BY <1>2, <1>4
  <2>7. todo' # {} => count' < records[p]  BY <1>3, <2>4, <2>6
  <2>8. procs'[p] \cap todo' = {}  BY <1>1, <2>1, <2>6
  <2>9. Reading'  BY <1>1, <2>1, <2>2, <2>4, <2>7, <2>8 DEF Reading
  <2> QED  BY <1>1, <2>1, <2>2, <2>3, <2>4, <2>5, <2>9, SameCardinality DEF ProcsInv, Procs!TablesInBounds
<1>5. CASE n \notin live
  <2>1. todo' = todo \ {n} /\ UNCHANGED <<procs, count>>  BY <1>2, <1>5
  <2>2. ProcsType'  BY <1>1, <2>1 DEF ProcsType, Procs!All
  <2>3. Reading'  BY <1>1, <2>1 DEF Reading
  <2> QED  BY <1>1, <2>1, <2>2, <2>3, SameCardinality DEF ProcsInv, Procs!TablesInBounds
<1> QED  BY <1>4, <1>5

LEMMA SortStep == ASSUME ProcsInv, Procs!Sort PROVE ProcsInv'
<1>1. /\ ProcsType /\ Procs!TablesInBounds
      /\ UNCHANGED <<live, procs, records, todo, count>> /\ step' = "count"
      /\ Cardinality(procs[p]) = count /\ topper' = procs[p] \cap procs[3 - p]
      /\ topper_size' = (IF topper_size < count THEN count ELSE topper_size)
      /\ p' = 3 - p
  BY DEF ProcsInv, Procs!Sort, Reading, Procs!q
<1>2. p' \in {1, 2} /\ count \in Nat /\ topper_size \in Nat /\ procs[p] \subseteq Procs!All
  BY <1>1 DEF ProcsType
<1>3. topper_size' \in Nat /\ count <= topper_size'  BY <1>1, <1>2
<1>4. ProcsType'  BY <1>1, <1>2, <1>3 DEF ProcsType, Procs!All
<1>5. Cardinality(topper') <= count /\ Cardinality(topper') \in Nat
  <2>1. IsFiniteSet(procs[p]) /\ topper' \subseteq procs[p]  BY <1>1, <1>2, ProcessesFinite
  <2>2. IsFiniteSet(topper') /\ Cardinality(topper') <= Cardinality(procs[p])
    BY <2>1, FS_Subset
  <2> QED  BY <1>1, <2>2, FS_CardinalityType
<1>6. Cardinality(topper') <= topper_size'  BY <1>2, <1>3, <1>5
<1> QED  BY <1>1, <1>4, <1>6, SameCardinality DEF ProcsInv, Procs!TablesInBounds, Reading

\* The invariant of the processes is kept by every step.
LEMMA ProcsStep == ASSUME ProcsInv, Procs!Next PROVE ProcsInv'
<1>1. CASE Procs!Processes
  <2>1. /\ UNCHANGED <<procs, records, topper_size, topper, p, step, todo, count>>
        /\ live' \subseteq Procs!All /\ Nmon \in live'
    BY <1>1, ProcsAssumption
    DEF Procs!Processes, Procs!Start, Procs!End, Procs!tableVars, ProcsInv, ProcsType, Procs!All
  <2>2. ProcsType'  BY <2>1 DEF ProcsInv, ProcsType, Procs!All
  <2> QED  BY <2>1, <2>2, SameCardinality DEF ProcsInv, Procs!TablesInBounds, Reading
<1> QED  BY <1>1, CountStep, ReadProcStep, SortStep DEF Procs!Next

\* However many processes start and end while nmon counts them and reads their
\* details, no table of processes is overrun.
THEOREM ProcessTablesInBounds == AllSpec => []ProcsInBounds
<1> DEFINE I == part = "procs" => ProcsInv
<1>1. AllInit => I  BY ProcsInit DEF AllInit
<1>2. I /\ [AllNext]_all => I'
  <2> SUFFICES ASSUME I, [AllNext]_all, part' = "procs" PROVE ProcsInv'
    OBVIOUS
  <2>1. CASE UNCHANGED all
    <3>1. part = "procs" /\ UNCHANGED <<live, procs, records, topper_size, topper, p, step, todo, count>>
      BY <2>1 DEF all, procsOnly
    <3> QED  BY <3>1, SameCardinality DEF ProcsInv, ProcsType, Reading, Procs!TablesInBounds, Procs!All
  <2>2. CASE AllNext
    <3>1. part = "procs" /\ Procs!Next
      BY <2>2 DEF AllNext, InLoop, InKeys, InDisks, InProcs, InSignals
    <3> QED  BY <3>1, ProcsStep
  <2> QED  BY <2>1, <2>2
<1>3. I => ProcsInBounds  BY DEF ProcsInBounds, ProcsInv
<1> QED  BY <1>1, <1>2, <1>3, PTL DEF AllSpec

-----------------------------------------------------------------------------
(* Signals and children                                                     *)

SignalsType ==
    /\ child \in [Signals!Child -> {"free", "run", "zombie", "gone"}]
    /\ snapPid \in (1 .. MaxSnap) \cup {-1}

\* The commands of NMON_SNAP are started in the order of their numbers.
Started(k) == \A c \in 1 .. MaxSnap : child[c] # "free" <=> c <= k

\* The number that is to be stored is that of an unreaped child, or the child
\* was reaped early.
ForkedIsChild(k) ==
    step = "forked" => /\ k > 0
                       /\ child[k] \in {"run", "zombie"} \/ k \in early

SignalsInv ==
    /\ SignalsType /\ Signals!KillsItsChild
    /\ snapPid # -1 => child[snapPid] # "free"
    /\ \E k \in 0 .. MaxSnap : Started(k) /\ ForkedIsChild(k)

\* The newest command and the next free one.
LEMMA NewestStarted ==
    ASSUME NEW k \in 1 .. MaxSnap, Started(k)
    PROVE  Signals!Newest = k
<1> DEFINE S == {c \in 1 .. MaxSnap : child[c] # "free"}
<1>1. k \in S /\ \A y \in S : y <= k  BY SignalsAssumption DEF Started
<1>2. \A x \in S : x \in Int  BY SignalsAssumption
<1> HIDE DEF S
<1>3. \A x \in S : (\A y \in S : x >= y) => x = k  BY <1>1, <1>2
<1>4. (CHOOSE x \in S : \A y \in S : x >= y) = k  BY <1>1, <1>2, <1>3
<1>5. Signals!Newest = CHOOSE x \in S : \A y \in S : x >= y
  BY DEF S, Signals!Newest, Signals!Max
<1> QED  BY <1>4, <1>5

LEMMA NextFree ==
    ASSUME NEW k \in 0 .. MaxSnap, Started(k), SignalsType,
           Signals!In("free") \cap (1 .. MaxSnap) # {}
    PROVE  k + 1 \in 1 .. MaxSnap /\ Signals!Min(Signals!In("free") \cap (1 .. MaxSnap)) = k + 1
<1> DEFINE S == Signals!In("free") \cap (1 .. MaxSnap)
<1>1. S = {c \in 1 .. MaxSnap : child[c] = "free"}
  BY DEF Signals!In, Signals!Child, Signals!Commands
<1>2. \A x \in S : x \in Int /\ x >= k + 1 /\ x <= MaxSnap  BY <1>1, SignalsAssumption DEF Started
<1>3. S # {}  OBVIOUS
<1>4. k + 1 \in 1 .. MaxSnap  
  <2> HIDE DEF S
  <2> QED  BY <1>2, <1>3, SignalsAssumption
<1>5. k + 1 \in S  BY <1>1, <1>4, SignalsAssumption DEF Started
<1>6. Signals!Min(S) = CHOOSE x \in S : \A y \in S : x =< y  BY DEF Signals!Min
<1> HIDE DEF S
<1>7. \A x \in S : (\A y \in S : x =< y) => x = k + 1  BY <1>2, <1>5
<1>8. (CHOOSE x \in S : \A y \in S : x =< y) = k + 1  BY <1>2, <1>5, <1>7
<1> QED  BY <1>4, <1>6, <1>8 DEF S

\* A step in which commands at most end keeps the invariant.
LEMMA ChildrenAtMostEnd ==
    ASSUME SignalsInv, SignalsType', UNCHANGED <<snapPid, early>>,
           step' = "forked" => step = "forked",
           \A c \in 1 .. MaxSnap :
             child'[c] = child[c] \/ (child[c] = "run" /\ child'[c] = "zombie")
    PROVE  SignalsInv'
<1>1. PICK k \in 0 .. MaxSnap : Started(k) /\ ForkedIsChild(k)  BY DEF SignalsInv
<1>2. SignalsType /\ Signals!KillsItsChild /\ (snapPid # -1 => child[snapPid] # "free")
  BY DEF SignalsInv
<1>3. Started(k)'  BY <1>1 DEF Started
<1>4. k > 0 => k \in 1 .. MaxSnap  BY SignalsAssumption
<1>5. ForkedIsChild(k)'  BY <1>1, <1>4 DEF ForkedIsChild
<1>6. Signals!KillsItsChild' /\ (snapPid' # -1 => child'[snapPid'] # "free")
  BY <1>2 DEF SignalsType, Signals!KillsItsChild, Signals!NoPid
<1> QED  BY <1>3, <1>5, <1>6 DEF SignalsInv

\* child_start kills a command that runs, and nothing else.
LEMMA KilledType ==
    ASSUME SignalsType
    PROVE  /\ Signals!Killed \in [Signals!Child -> {"free", "run", "zombie", "gone"}]
           /\ \A c \in 1 .. MaxSnap :
                Signals!Killed[c] = child[c] \/ (child[c] = "run" /\ Signals!Killed[c] = "zombie")
BY DEF SignalsType, Signals!Killed, Signals!Child, Signals!Commands

LEMMA ForkStep == ASSUME SignalsInv, Signals!Fork PROVE SignalsInv'
<1>1. PICK k \in 0 .. MaxSnap : Started(k) /\ ForkedIsChild(k)  BY DEF SignalsInv
<1>2. SignalsType /\ Signals!KillsItsChild /\ (snapPid # -1 => child[snapPid] # "free")
  BY DEF SignalsInv
<1>3. /\ Signals!In("free") \cap (1 .. MaxSnap) # {} /\ UNCHANGED <<snapPid, early>>
      /\ child' = [Signals!Killed EXCEPT ![Signals!Min(Signals!In("free") \cap (1 .. MaxSnap))] = "run"]
  BY DEF Signals!Fork
<1>4. k + 1 \in 1 .. MaxSnap /\ child' = [Signals!Killed EXCEPT ![k + 1] = "run"]
  BY <1>1, <1>2, <1>3, NextFree
<1> DEFINE K == Signals!Killed
<1>5. /\ K \in [Signals!Child -> {"free", "run", "zombie", "gone"}]
      /\ \A c \in 1 .. MaxSnap : K[c] = child[c] \/ (child[c] = "run" /\ K[c] = "zombie")
  BY <1>2, KilledType
<1>6. k + 1 \in Signals!Child  BY <1>4 DEF Signals!Child, Signals!Commands
<1> HIDE DEF K
<1>7. /\ child' \in [Signals!Child -> {"free", "run", "zombie", "gone"}]
      /\ child'[k + 1] = "run" /\ \A c \in 1 .. MaxSnap : c # k + 1 => child'[c] = K[c]
  BY <1>4, <1>5, <1>6 DEF K, Signals!Child, Signals!Commands
<1>8. SignalsType'  BY <1>2, <1>3, <1>7 DEF SignalsType, Signals!Child, Signals!Commands
<1>9. Started(k + 1)'
  <2> SUFFICES ASSUME NEW c \in 1 .. MaxSnap PROVE child'[c] # "free" <=> c <= k + 1
    BY DEF Started
  <2>1. CASE c = k + 1  BY <1>7, <2>1
  <2>2. CASE c # k + 1
    <3>1. child'[c] # "free" <=> child[c] # "free"  BY <1>5, <1>7, <2>2
    <3>2. child[c] # "free" <=> c <= k  BY <1>1 DEF Started
    <3>3. c <= k <=> c <= k + 1  BY <2>2
    <3> QED  BY <3>1, <3>2, <3>3
  <2> QED  BY <2>1, <2>2
<1>10. ForkedIsChild(k + 1)'  BY <1>7 DEF ForkedIsChild
<1>11. child[k + 1] = "free"  BY <1>1, <1>4 DEF Started
<1>12. Signals!KillsItsChild' /\ (snapPid' # -1 => child'[snapPid'] # "free")
  <2> SUFFICES ASSUME snapPid # -1
               PROVE  /\ child'[snapPid] \in {"run", "zombie"} \/ snapPid \in early
                      /\ child'[snapPid] # "free"
    BY <1>3 DEF Signals!KillsItsChild, Signals!NoPid
  <2>1. snapPid \in 1 .. MaxSnap /\ snapPid # k + 1  BY <1>2, <1>11 DEF SignalsType
  <2>2. child'[snapPid] = child[snapPid] \/ (child[snapPid] = "run" /\ child'[snapPid] = "zombie")
    BY <1>5, <1>7, <2>1
  <2> QED  BY <1>2, <2>2 DEF Signals!KillsItsChild, Signals!NoPid
<1> QED  BY <1>4, <1>8, <1>9, <1>10, <1>12 DEF SignalsInv

\* The handler forgets the number of the command it reaps.
LEMMA ReapStep ==
    ASSUME SignalsInv, NEW c \in Signals!In("zombie"), Signals!Reap(c), step' = step
    PROVE  SignalsInv'
<1>1. PICK k \in 0 .. MaxSnap : Started(k) /\ ForkedIsChild(k)  BY DEF SignalsInv
<1>2. SignalsType /\ Signals!KillsItsChild /\ (snapPid # -1 => child[snapPid] # "free")
  BY DEF SignalsInv
<1>3. /\ child' = [child EXCEPT ![c] = "gone"] /\ c \in Signals!Child /\ child[c] = "zombie"
      /\ snapPid' = IF c = snapPid THEN -1 ELSE snapPid
      /\ early' = IF step = "forked" /\ c = Signals!Newest THEN early \cup {c} ELSE early
  BY DEF Signals!Reap, Signals!In, Signals!NoPid
<1>4. SignalsType'  BY <1>2, <1>3 DEF SignalsType, Signals!Child, Signals!Commands
<1>5. /\ child'[c] = "gone" /\ \A d \in 1 .. MaxSnap : d # c => child'[d] = child[d]
      /\ early \subseteq early'
  BY <1>2, <1>3 DEF SignalsType, Signals!Child, Signals!Commands
<1>6. Started(k)'  BY <1>1, <1>3, <1>5 DEF Started
<1>7. ForkedIsChild(k)'
  <2> SUFFICES ASSUME step = "forked"
               PROVE  k > 0 /\ (child'[k] \in {"run", "zombie"} \/ k \in early')
    BY DEF ForkedIsChild
  <2>1. k \in 1 .. MaxSnap /\ (child[k] \in {"run", "zombie"} \/ k \in early)
    BY <1>1, SignalsAssumption DEF ForkedIsChild
  <2>2. CASE c = k
    <3>1. Signals!Newest = c  BY <1>1, <2>1, <2>2, NewestStarted
    <3> QED  BY <1>3, <2>1, <2>2, <3>1
  <2>3. CASE c # k  BY <1>5, <2>1, <2>3
  <2> QED  BY <2>2, <2>3
<1>8. Signals!KillsItsChild' /\ (snapPid' # -1 => child'[snapPid'] # "free")
  <2> SUFFICES ASSUME snapPid' # -1
               PROVE  /\ child'[snapPid'] \in {"run", "zombie"} \/ snapPid' \in early'
                      /\ child'[snapPid'] # "free"
    BY DEF Signals!KillsItsChild, Signals!NoPid
  <2>1. snapPid' = snapPid /\ snapPid # c /\ snapPid \in 1 .. MaxSnap
    BY <1>2, <1>3 DEF SignalsType
  <2> QED  BY <1>2, <1>5, <2>1 DEF Signals!KillsItsChild, Signals!NoPid
<1> QED  BY <1>4, <1>6, <1>7, <1>8 DEF SignalsInv

LEMMA StorePidStep == ASSUME SignalsInv, Signals!StorePid PROVE SignalsInv'
<1>1. PICK k \in 0 .. MaxSnap : Started(k) /\ ForkedIsChild(k)  BY DEF SignalsInv
<1>2. /\ step = "forked" /\ step' = "work" /\ snapPid' = Signals!Newest /\ UNCHANGED <<child, early>>
      /\ SignalsType
  BY DEF Signals!StorePid, Signals!At, SignalsInv
<1>3. k \in 1 .. MaxSnap /\ (child[k] \in {"run", "zombie"} \/ k \in early)
  BY <1>1, <1>2, SignalsAssumption DEF ForkedIsChild
<1>4. snapPid' = k  BY <1>1, <1>2, <1>3, NewestStarted
<1>5. SignalsType'  BY <1>2, <1>3, <1>4 DEF SignalsType, Signals!Child, Signals!Commands
<1>6. child[k] # "free"  BY <1>1, <1>3 DEF Started
<1>7. Started(k)' /\ ForkedIsChild(k)'  BY <1>1, <1>2 DEF Started, ForkedIsChild
<1>8. Signals!KillsItsChild'  BY <1>2, <1>3, <1>4 DEF Signals!KillsItsChild
<1> QED  BY <1>2, <1>4, <1>5, <1>6, <1>7, <1>8 DEF SignalsInv

LEMMA SignalsInit == Signals!Init => SignalsInv
<1> SUFFICES ASSUME Signals!Init PROVE SignalsInv
  OBVIOUS
<1>1. /\ child = [c \in Signals!Child |-> "free"] /\ snapPid = -1 /\ step = "header"
  BY DEF Signals!Init, Signals!NoPid
<1>2. SignalsType  BY <1>1 DEF SignalsType
<1>3. 0 \in 0 .. MaxSnap  BY SignalsAssumption
<1>4. Started(0)  BY <1>1, SignalsAssumption DEF Started, Signals!Child, Signals!Commands
<1>5. ForkedIsChild(0)  BY <1>1 DEF ForkedIsChild
<1> QED  BY <1>1, <1>2, <1>3, <1>4, <1>5 DEF SignalsInv, Signals!KillsItsChild, Signals!NoPid

LEMMA SignalsStep == ASSUME SignalsInv, Signals!Next PROVE SignalsInv'
<1> USE DEF Signals!childVars
<1>0. SignalsType  BY DEF SignalsInv
<1>1. CASE Signals!Header \/ Signals!Popen \/ Signals!Pclose
  <2>1. /\ UNCHANGED <<snapPid, early>> /\ step' # "forked"
        /\ \E c \in {0, -2}, s \in {"run", "gone"} :
              child' = child \/ child' = [child EXCEPT ![c] = s]
    BY <1>1
    DEF Signals!Header, Signals!Popen, Signals!Pclose, Signals!Reading, Signals!At,
        Signals!First, Signals!Ps
  <2>2. SignalsType'  BY <1>0, <2>1 DEF SignalsType, Signals!Child, Signals!Commands
  <2>3. \A c \in 1 .. MaxSnap : child'[c] = child[c]
    BY <1>0, <2>1 DEF SignalsType, Signals!Child, Signals!Commands
  <2> QED  BY <2>1, <2>2, <2>3, ChildrenAtMostEnd
<1>2. CASE Signals!NoFork
  <2>1. /\ UNCHANGED <<snapPid, early>> /\ step' = "work"
        /\ child' = child \/ child' = Signals!Killed
    BY <1>2 DEF Signals!NoFork, Signals!At
  <2>2. SignalsType'
    BY <1>0, <2>1, KilledType DEF SignalsType, Signals!Child, Signals!Commands
  <2>3. \A c \in 1 .. MaxSnap :
          child'[c] = child[c] \/ (child[c] = "run" /\ child'[c] = "zombie")
    BY <1>0, <2>1, KilledType
  <2> QED  BY <2>1, <2>2, <2>3, ChildrenAtMostEnd
<1>3. CASE \/ Signals!HeaderEnd \/ Signals!Sleep \/ Signals!Tick \/ Signals!Redo \/ Signals!Test
           \/ Signals!NextLoop \/ Signals!Usr \/ Signals!Int_
  <2>1. UNCHANGED <<child, snapPid, early>> /\ (step' = "forked" => step = "forked")
    BY <1>3
    DEF Signals!HeaderEnd, Signals!Sleep, Signals!Tick, Signals!Redo, Signals!Test,
        Signals!NextLoop, Signals!Usr, Signals!Int_, Signals!At
  <2>2. SignalsType'  BY <1>0, <2>1 DEF SignalsType, Signals!Child, Signals!Commands
  <2> QED  BY <2>1, <2>2, ChildrenAtMostEnd
<1>4. ASSUME NEW c \in Signals!Child, Signals!Ends(c) PROVE SignalsInv'
  <2>1. /\ UNCHANGED <<snapPid, early, step>> /\ child' = [child EXCEPT ![c] = "zombie"]
        /\ child[c] = "run"
    BY <1>4 DEF Signals!Ends
  <2>2. SignalsType'  BY <1>0, <2>1 DEF SignalsType, Signals!Child, Signals!Commands
  <2>3. \A d \in 1 .. MaxSnap :
          child'[d] = child[d] \/ (child[d] = "run" /\ child'[d] = "zombie")
    BY <1>0, <2>1 DEF SignalsType, Signals!Child, Signals!Commands
  <2> QED  BY <2>1, <2>2, <2>3, ChildrenAtMostEnd
<1>5. CASE Signals!Interrupt \/ Signals!InterruptEnds
  <2>1. /\ step' = step
        /\ (\E c \in Signals!In("zombie") : Signals!Reap(c)) \/ UNCHANGED <<child, snapPid, early>>
    BY <1>5 DEF Signals!Interrupt, Signals!InterruptEnds
  <2>2. CASE UNCHANGED <<child, snapPid, early>>
    <3>1. SignalsType'  BY <1>0, <2>2 DEF SignalsType, Signals!Child, Signals!Commands
    <3> QED  BY <2>1, <2>2, <3>1, ChildrenAtMostEnd
  <2> QED  BY <2>1, <2>2, ReapStep
<1> QED
  BY <1>1, <1>2, <1>3, <1>4, <1>5, ForkStep, StorePidStep DEF Signals!Next, Signals!Main

\* child_start never kills a process that is not its own unreaped child, in
\* whatever order children end, signals arrive and commands are started, except
\* for a child that ended before its number was stored.
THEOREM SnapKilledIsChild == AllSpec => []SnapKilled
<1> DEFINE I == part = "signals" => SignalsInv
<1>1. AllInit => I  BY SignalsInit DEF AllInit
<1>2. I /\ [AllNext]_all => I'
  <2> SUFFICES ASSUME I, [AllNext]_all, part' = "signals" PROVE SignalsInv'
    OBVIOUS
  <2>1. CASE UNCHANGED all
    <3>1. part = "signals" /\ UNCHANGED <<child, snapPid, step, early>>
      BY <2>1 DEF all, signalsOnly
    <3>2. SignalsType'  BY <3>1 DEF SignalsInv, SignalsType, Signals!Child, Signals!Commands
    <3> QED  BY <3>1, <3>2, ChildrenAtMostEnd
  <2>2. CASE AllNext
    <3>1. part = "signals" /\ Signals!Next
      BY <2>2 DEF AllNext, InLoop, InKeys, InDisks, InProcs, InSignals
    <3> QED  BY <3>1, SignalsStep
  <2> QED  BY <2>1, <2>2
<1>3. I => SnapKilled  BY DEF SnapKilled, SignalsInv
<1> QED  BY <1>1, <1>2, <1>3, PTL DEF AllSpec

-----------------------------------------------------------------------------
(* Keys and their tables                                                    *)

\* Descriptors: while the file systems are displayed, jfs_load has run and
\* every mounted entry has an open descriptor, so that Unload closes those and
\* never 0.
JfsInv ==
    /\ Keys!JfsDescriptors
    /\ "j" \in flag => jfs_loaded /\ \A m \in mounted : fd[m] = 3

\* The ring of the long-term graph.
SnapInv ==
    /\ snap \in [0 .. (MAX_SNAPS - 1) -> Nat] /\ next_cpu_snap \in 0 .. (MAX_SNAPS - 1)
    /\ saved \in Seq(Nat) /\ cpu_snap_all \in BOOLEAN
    /\ Keys!Window = saved

\* The command lines: the entries of processes come first, and they are those
\* that ps listed last.
ArgsInv ==
    /\ arglist \in [0 .. (ARGSMAX - 1) -> Listed \cup {0, -1}]
    /\ loaded \subseteq Listed
    /\ \A a \in 0 .. (ARGSMAX - 1) : arglist[a] \in Listed =>
            /\ arglist[a] \in loaded
            /\ \A b \in 0 .. (ARGSMAX - 1) : b < a => arglist[b] \in Listed
    /\ \A n \in loaded : \E a \in 0 .. (ARGSMAX - 1) : arglist[a] = n

KeysInv == JfsInv /\ SnapInv /\ ArgsInv

\* The key j alone switches the display of the file systems.
LEMMA FlagOfJ ==
    ASSUME NEW k, Keys!Setting(k)
    PROVE  "j" \in flag' <=> IF k = "j" THEN "j" \notin flag ELSE "j" \in flag
<1>1. flag' = CASE k \in Keys!Plain \cup {"j"} -> Keys!SymDiff(flag, {k})
                [] k = "h" -> IF "h" \in flag THEN flag \ {"h"} ELSE (flag \cup {"h"}) \ {"v"}
                [] k = "t" -> Keys!SymDiff(flag, {"T"})
                [] k \in {"1", "3", "4", "5"} \/ (k = "u" /\ ~ opt.args) -> flag \cup {"T"}
                [] k = "." -> Keys!SymDiff(flag, {"all"})
                [] OTHER -> flag
  BY DEF Keys!Setting
<1>2. CASE k = "j"
  <2>1. flag' = Keys!SymDiff(flag, {k})  BY <1>1, <1>2 DEF Keys!Plain
  <2> QED  BY <1>2, <2>1 DEF Keys!SymDiff
<1>3. CASE k # "j"  BY <1>1, <1>3 DEF Keys!Plain, Keys!SymDiff
<1> QED  BY <1>2, <1>3

\* The descriptors after a key.
LEMMA JfsOfKey ==
    ASSUME JfsInv, NEW k, Keys!Setting(k),
           CASE k = "j" /\ "j" \notin flag -> Keys!Load
             [] k = "j" /\ "j" \in flag -> Keys!Unload
             [] OTHER -> UNCHANGED Keys!jfsVars
    PROVE  JfsInv'
<1>0. /\ ~ closed0 /\ open = (IF "j" \in flag THEN mounted ELSE {})
      /\ "j" \in flag => jfs_loaded /\ \A m \in mounted : fd[m] = 3
  BY DEF JfsInv, Keys!JfsDescriptors
<1>1. CASE k = "j" /\ "j" \notin flag
  <2>1. Keys!Load /\ "j" \in flag'  BY <1>1, FlagOfJ
  <2>2. PICK there \in SUBSET Mount, opens \in SUBSET Mount :
          /\ fd' = [m \in Mount |-> IF m \in there THEN (IF m \in opens THEN 3 ELSE -1) ELSE fd[m]]
          /\ mounted' = there \cap opens
          /\ open' = open \cup (there \cap opens)
    BY <2>1 DEF Keys!Load
  <2>3. jfs_loaded' /\ closed0' = closed0  BY <2>1 DEF Keys!Load
  <2>4. \A m \in mounted' : fd'[m] = 3  BY <2>2
  <2> QED  BY <1>0, <1>1, <2>1, <2>2, <2>3, <2>4 DEF JfsInv, Keys!JfsDescriptors
<1>2. CASE k = "j" /\ "j" \in flag
  <2>1. Keys!Unload /\ "j" \notin flag'  BY <1>2, FlagOfJ
  <2>2. /\ open' = open \ {m \in mounted : fd[m] = 3}
        /\ closed0' = (closed0 \/ \E m \in mounted : fd[m] = 0)
    BY <1>0, <1>2, <2>1 DEF Keys!Unload
  <2>3. open' = {}  BY <1>0, <1>2, <2>2
  <2>4. ~ closed0'
    <3>1. ~ (closed0 \/ \E m \in mounted : fd[m] = 0)  BY <1>0, <1>2
    <3> QED  BY <2>2, <3>1, Zenon
  <2> QED  BY <2>1, <2>3, <2>4 DEF JfsInv, Keys!JfsDescriptors
<1>3. CASE k # "j"
  <2>1. UNCHANGED Keys!jfsVars /\ ("j" \in flag' <=> "j" \in flag)  BY <1>3, FlagOfJ
  <2> QED  BY <1>0, <2>1 DEF JfsInv, Keys!JfsDescriptors, Keys!jfsVars
<1> QED  BY <1>1, <1>2, <1>3

-----------------------------------------------------------------------------
LEMMA SmallMod ==
    ASSUME NEW n \in Nat \ {0}, NEW x \in 0 .. (n - 1)
    PROVE  x % n = x /\ (x + n) % n = x
OBVIOUS

\* What is in the ring, entry by entry.
LEMMA RingEntries ==
    ASSUME SnapInv
    PROVE  /\ ~ cpu_snap_all => /\ Len(saved) = next_cpu_snap
                                /\ \A n \in 1 .. next_cpu_snap : saved[n] = snap[n - 1]
           /\ cpu_snap_all =>
                /\ Len(saved) = MAX_SNAPS
                /\ \A n \in 1 .. MAX_SNAPS : saved[n] = snap[(next_cpu_snap + n - 1) % MAX_SNAPS]
<1>1. saved \in Seq(Nat) /\ Keys!Window = saved /\ next_cpu_snap \in Nat /\ MAX_SNAPS \in Nat
  BY KeysAssumption DEF SnapInv
<1>2. CASE ~ cpu_snap_all
  <2>1. saved = [n \in 1 .. next_cpu_snap |-> snap[n - 1]]  BY <1>1, <1>2 DEF Keys!Window
  <2>2. DOMAIN saved = 1 .. next_cpu_snap  BY <2>1
  <2>3. Len(saved) = next_cpu_snap  BY <1>1, <2>2
  <2> QED  BY <1>2, <2>1, <2>3
<1>3. CASE cpu_snap_all
  <2>1. saved = [n \in 1 .. MAX_SNAPS |-> snap[(next_cpu_snap + n - 1) % MAX_SNAPS]]
    BY <1>1, <1>3 DEF Keys!Window
  <2>2. DOMAIN saved = 1 .. MAX_SNAPS  BY <2>1
  <2>3. Len(saved) = MAX_SNAPS  BY <1>1, <2>2
  <2> QED  BY <1>3, <2>1, <2>3
<1> QED  BY <1>2, <1>3

\* The converse: a sequence with these entries is the window.
LEMMA EntriesRing ==
    ASSUME NEW sv \in Seq(Nat), NEW nx \in Nat, NEW sn, NEW full \in BOOLEAN,
           ~ full => Len(sv) = nx /\ \A n \in 1 .. nx : sv[n] = sn[n - 1],
           full => /\ Len(sv) = MAX_SNAPS
                   /\ \A n \in 1 .. MAX_SNAPS : sv[n] = sn[(nx + n - 1) % MAX_SNAPS]
    PROVE  (IF full THEN [n \in 1 .. MAX_SNAPS |-> sn[(nx + n - 1) % MAX_SNAPS]]
            ELSE [n \in 1 .. nx |-> sn[n - 1]]) = sv
<1>1. sv = [n \in 1 .. Len(sv) |-> sv[n]]  OBVIOUS
<1>2. CASE ~ full  BY <1>1, <1>2
<1>3. CASE full  BY <1>1, <1>3
<1> QED  BY <1>2, <1>3

\* A sample is saved.
LEMMA SaveSnapStep ==
    ASSUME SnapInv, NEW v \in Nat, Keys!SaveSnap(v)
    PROVE  SnapInv'
<1> DEFINE M == MAX_SNAPS
           c == next_cpu_snap
           s == Append(saved, v)
<1>1. /\ M \in Nat \ {0} /\ c \in 0 .. (M - 1) /\ snap \in [0 .. (M - 1) -> Nat]
      /\ saved \in Seq(Nat) /\ cpu_snap_all \in BOOLEAN
  BY KeysAssumption DEF SnapInv
<1>2. /\ snap' = [snap EXCEPT ![c] = v] /\ next_cpu_snap' = (c + 1) % M
      /\ cpu_snap_all' = (cpu_snap_all \/ c + 1 >= M)
      /\ saved' = IF Len(s) > M THEN Tail(s) ELSE s
  BY DEF Keys!SaveSnap
<1>3. /\ snap' \in [0 .. (M - 1) -> Nat] /\ snap'[c] = v
      /\ \A e \in 0 .. (M - 1) : e # c => snap'[e] = snap[e]
  BY <1>1, <1>2
<1>4. /\ s \in Seq(Nat) /\ Len(s) = Len(saved) + 1 /\ s[Len(saved) + 1] = v
      /\ Len(saved) \in Nat /\ \A n \in 1 .. Len(saved) : s[n] = saved[n]
  BY <1>1
<1>5. /\ c + 1 < M => (c + 1) % M = c + 1
      /\ c + 1 = M => (c + 1) % M = 0
  <2>1. c + 1 < M => c + 1 \in 0 .. (M - 1)  BY <1>1
  <2>2. 0 \in 0 .. (M - 1) /\ (0 + M) % M = 0 /\ 0 + M = M  BY <1>1, SmallMod
  <2> QED  BY <1>1, <2>1, <2>2, SmallMod
<1>6. next_cpu_snap' \in 0 .. (M - 1)  BY <1>1, <1>2, <1>5
<1>7. CASE ~ cpu_snap_all
  <2>1. Len(saved) = c /\ \A n \in 1 .. c : saved[n] = snap[n - 1]  BY <1>7, RingEntries
  <2> HIDE DEF s
  <2>2. saved' = s /\ Len(saved') = c + 1
    <3>1. Len(s) = c + 1 /\ ~ (c + 1 > M)  BY <1>1, <1>4, <2>1
    <3> QED  BY <1>2, <3>1
  <2>3. \A n \in 1 .. (c + 1) : s[n] = snap'[n - 1]
    <3> SUFFICES ASSUME NEW n \in 1 .. (c + 1) PROVE s[n] = snap'[n - 1]
      OBVIOUS
    <3>1. CASE n = c + 1  BY <1>1, <1>3, <1>4, <2>1, <3>1
    <3>2. CASE n # c + 1
      <4>1. n \in 1 .. c /\ n - 1 \in 0 .. (M - 1) /\ n - 1 # c  BY <1>1, <3>2
      <4> QED  BY <1>3, <1>4, <2>1, <4>1
    <3> QED  BY <3>1, <3>2
  <2>4. CASE c + 1 < M
    <3>0. ~ (cpu_snap_all \/ c + 1 >= M) /\ (c + 1) % M = c + 1  BY <1>1, <1>5, <1>7, <2>4
    <3>1. cpu_snap_all' = FALSE /\ next_cpu_snap' = c + 1  BY <1>2, <3>0
    <3>2. Keys!Window' = saved'
      <4>1. saved' \in Seq(Nat) /\ next_cpu_snap' \in Nat  BY <1>1, <1>4, <2>2, <3>1
      <4>2. \A n \in 1 .. next_cpu_snap' : saved'[n] = snap'[n - 1]  BY <2>2, <2>3, <3>1
      <4> QED  BY <2>2, <3>1, <4>1, <4>2, EntriesRing DEF Keys!Window
    <3> QED  BY <1>3, <1>4, <1>6, <2>2, <3>1, <3>2 DEF SnapInv
  <2>5. CASE c + 1 = M
    <3>0. c + 1 >= M /\ (c + 1) % M = 0  BY <1>1, <1>5, <2>5
    <3>1. cpu_snap_all' = TRUE /\ next_cpu_snap' = 0  BY <1>2, <3>0
    <3>2. Keys!Window' = saved'
      <4>1. saved' \in Seq(Nat) /\ Len(saved') = M  BY <1>4, <2>2, <2>5
      <4>2. \A n \in 1 .. M : saved'[n] = snap'[(0 + n - 1) % M]
        <5> SUFFICES ASSUME NEW n \in 1 .. M PROVE saved'[n] = snap'[(0 + n - 1) % M]
          OBVIOUS
        <5>1. n - 1 \in 0 .. (M - 1)  BY <1>1
        <5>2. (n - 1) % M = n - 1  BY <1>1, <5>1, SmallMod
        <5> QED  BY <1>1, <2>2, <2>3, <2>5, <5>2
      <4> QED  BY <3>1, <4>1, <4>2, EntriesRing DEF Keys!Window
    <3> QED  BY <1>3, <1>4, <1>6, <2>2, <3>1, <3>2 DEF SnapInv
  <2> QED  BY <1>1, <2>4, <2>5
<1>8. CASE cpu_snap_all
  <2>1. Len(saved) = M /\ \A n \in 1 .. M : saved[n] = snap[(c + n - 1) % M]
    BY <1>8, RingEntries
  <2>0. Len(s) = M + 1 /\ M + 1 > M  BY <1>1, <1>4, <2>1
  <2>2. saved' = Tail(s) /\ cpu_snap_all' = TRUE  BY <1>2, <1>8, <2>0
  <2>3. saved' \in Seq(Nat) /\ Len(saved') = M /\ \A n \in 1 .. M : saved'[n] = s[n + 1]
    <3> HIDE DEF s
    <3>1. s # <<>> /\ s \in Seq(Nat)  BY <1>1, <1>4, <2>0
    <3>2. Len(Tail(s)) = M /\ Tail(s) \in Seq(Nat)  BY <1>1, <2>0, <3>1
    <3>3. \A n \in 1 .. M : Tail(s)[n] = s[n + 1]  BY <1>1, <2>0, <3>1
    <3> QED  BY <2>2, <3>2, <3>3
  <2> HIDE DEF s
  <2>4. \A n \in 1 .. M : saved'[n] = snap'[(next_cpu_snap' + n - 1) % M]
    <3> SUFFICES ASSUME NEW n \in 1 .. M PROVE saved'[n] = snap'[(next_cpu_snap' + n - 1) % M]
      OBVIOUS
    <3> DEFINE r == next_cpu_snap'
    <3>1. r \in 0 .. (M - 1) /\ (r = c + 1 \/ (r = 0 /\ c + 1 = M))
      BY <1>1, <1>2, <1>5, <1>6
    <3> HIDE DEF r
    <3>2. CASE n = M
      <4>1. (r + n - 1) % M = c
        <5>1. CASE r = 0  
          <6>1. r + n - 1 = c /\ c \in 0 .. (M - 1)  BY <1>1, <3>1, <3>2, <5>1
          <6> QED  BY <1>1, <6>1, SmallMod
        <5>2. CASE r = c + 1
          <6>1. r + n - 1 = c + M  BY <1>1, <3>2, <5>2
          <6> QED  BY <1>1, <6>1, SmallMod
        <5> QED  BY <3>1, <5>1, <5>2
      <4> QED  BY <1>3, <1>4, <2>1, <2>3, <3>2, <4>1 DEF r
    <3>3. CASE n # M
      <4>1. n + 1 \in 1 .. M /\ c + (n + 1) - 1 = c + n  BY <1>1, <3>3
      <4>2. saved'[n] = snap[(c + n) % M]
        <5>1. saved'[n] = s[n + 1] /\ s[n + 1] = saved[n + 1]  BY <1>4, <2>1, <2>3, <4>1
        <5> QED  BY <2>1, <4>1, <5>1
      <4>3. /\ (r + n - 1) % M = (c + n) % M /\ (c + n) % M \in 0 .. (M - 1)
            /\ (c + n) % M # c
        <5>1. CASE c + n < M
          <6>1. c + n \in 0 .. (M - 1) /\ r = c + 1 /\ r + n - 1 = c + n
            BY <1>1, <3>1, <5>1
          <6>2. (c + n) % M = c + n  BY <1>1, <6>1, SmallMod
          <6> QED  BY <1>1, <6>1, <6>2
        <5>2. CASE ~ (c + n < M)
          <6>1. c + n - M \in 0 .. (M - 1) /\ c + n = (c + n - M) + M /\ c + n - M # c
            BY <1>1, <3>3, <5>2
          <6>2. (c + n) % M = c + n - M  
            <7> DEFINE x == c + n - M
            <7>1. x \in 0 .. (M - 1) /\ c + n = x + M  BY <6>1
            <7> HIDE DEF x
            <7>2. (x + M) % M = x  BY <1>1, <7>1, SmallMod
            <7> QED  BY <7>1, <7>2 DEF x
          <6>3. CASE r = c + 1
            <7>1. r + n - 1 = c + n  BY <1>1, <6>3
            <7> QED  BY <6>1, <6>2, <7>1
          <6>4. CASE r = 0 /\ c + 1 = M
            <7>1. r + n - 1 = c + n - M  BY <1>1, <6>4
            <7>2. (r + n - 1) % M = c + n - M  
              <8> DEFINE x == c + n - M
              <8>1. x \in 0 .. (M - 1) /\ r + n - 1 = x  BY <6>1, <7>1
              <8> HIDE DEF x
              <8>2. x % M = x  BY <1>1, <8>1, SmallMod
              <8> QED  BY <8>1, <8>2 DEF x
            <7> QED  BY <6>1, <6>2, <7>2
          <6> QED  BY <3>1, <6>3, <6>4
        <5> QED  BY <5>1, <5>2
      <4> QED  BY <1>3, <4>2, <4>3 DEF r
    <3> QED  BY <3>2, <3>3
  <2>5. Keys!Window' = saved'
    <3>1. next_cpu_snap' \in Nat  BY <1>1, <1>6
    <3> DEFINE sv == saved'
               nx == next_cpu_snap'
               sn == snap'
    <3>2. sv \in Seq(Nat) /\ nx \in Nat /\ Len(sv) = M  BY <2>3, <3>1
    <3>3. \A n \in 1 .. M : sv[n] = sn[(nx + n - 1) % M]  BY <2>4
    <3> HIDE DEF sv, nx, sn
    <3>4. sv = [n \in 1 .. M |-> sn[(nx + n - 1) % M]]  BY <3>2, <3>3, EntriesRing
    <3> QED  BY <2>2, <3>4 DEF Keys!Window, sv, nx, sn
  <2> QED  BY <1>3, <1>6, <2>2, <2>3, <2>5 DEF SnapInv
<1> QED  BY <1>1, <1>7, <1>8

LEMMA SnapClearStep == ASSUME Keys!SnapClear PROVE SnapInv'
<1>1. /\ snap' = [e \in 0 .. (MAX_SNAPS - 1) |-> 0] /\ next_cpu_snap' = 0
      /\ cpu_snap_all' = FALSE /\ saved' = <<>>
  BY DEF Keys!SnapClear, Keys!Slots
<1>2. Keys!Window' = saved'  BY <1>1, EntriesRing DEF Keys!Window
<1> QED  BY <1>1, <1>2, KeysAssumption DEF SnapInv

-----------------------------------------------------------------------------
\* A list that is cleared names no process any more.
LEMMA ClearedNames ==
    ASSUME ArgsInv
    PROVE  /\ \A a \in 0 .. (ARGSMAX - 1) : Keys!Cleared[a] \in {0, -1}
           /\ Keys!Cleared \in [0 .. (ARGSMAX - 1) -> {0, -1}]
<1> DEFINE A == 0 .. (ARGSMAX - 1)
           Stops(a) == \E e \in {x \in A : arglist[x] = -1} : e <= a
           C == [a \in A |-> IF Stops(a) \/ arglist[a] = 0 THEN arglist[a] ELSE -1]
<1>1. Keys!Cleared = C  BY DEF Keys!Cleared, Keys!Args
<1>2. ASSUME NEW a \in A PROVE C[a] \in {0, -1}
  <2>1. arglist[a] \in Listed \cup {0, -1}  BY DEF ArgsInv
  <2>2. CASE arglist[a] \in {0, -1}  BY <2>2
  <2>3. CASE arglist[a] \in Listed
    <3>1. arglist[a] \in Nat \ {0}  BY <2>3, KeysAssumption
    <3>2. ~ Stops(a)
      <4> SUFFICES ASSUME NEW e \in A, arglist[e] = -1, e <= a PROVE FALSE
        OBVIOUS
      <4>1. e # a  BY <3>1
      <4>2. e < a  BY <4>1, KeysAssumption
      <4>3. arglist[e] \in Listed  BY <2>3, <4>2 DEF ArgsInv
      <4> QED  BY <4>3, KeysAssumption
    <3> HIDE DEF Stops
    <3> QED  BY <3>1, <3>2
  <2> QED  BY <2>1, <2>2, <2>3
<1> HIDE DEF C
<1>3. \A a \in A : C[a] \in {0, -1}  BY <1>2
<1>4. C \in [A -> {0, -1}]
  <2>1. C = [a \in A |-> C[a]]  BY DEF C
  <2> QED  BY <1>3, <2>1
<1> QED  BY <1>1, <1>3, <1>4

\* After args_load the first entries are the processes listed, and no other
\* entry names a process.
LEMMA ArgsLoadStep == ASSUME ArgsInv, Keys!ArgsLoad PROVE ArgsInv'
<1> DEFINE A == 0 .. (ARGSMAX - 1)
<1>1. PICK n \in 0 .. Keys!Cardinality(Listed) : \E ps \in [1 .. n -> Listed] :
        LET m == IF n > ARGSMAX THEN ARGSMAX ELSE n
        IN  /\ arglist' = [a \in A |-> IF a < m THEN ps[a + 1] ELSE Keys!Cleared[a]]
            /\ loaded' = {ps[j] : j \in 1 .. m}
  BY DEF Keys!ArgsLoad, Keys!Args
<1>2. PICK ps \in [1 .. n -> Listed] :
        LET m == IF n > ARGSMAX THEN ARGSMAX ELSE n
        IN  /\ arglist' = [a \in A |-> IF a < m THEN ps[a + 1] ELSE Keys!Cleared[a]]
            /\ loaded' = {ps[j] : j \in 1 .. m}
  BY <1>1
<1>3. n \in Nat
  <2>1. Keys!Cardinality(Listed) = Cardinality(Listed)  BY DEF Keys!Cardinality, Cardinality
  <2>2. Cardinality(Listed) \in Nat  BY KeysAssumption, FS_CardinalityType
  <2> QED  BY <2>1, <2>2
<1> DEFINE m == IF n > ARGSMAX THEN ARGSMAX ELSE n
<1>4. m \in Nat /\ m <= n /\ m <= ARGSMAX /\ ARGSMAX \in Nat  BY <1>3, KeysAssumption
<1>5. /\ arglist' = [a \in A |-> IF a < m THEN ps[a + 1] ELSE Keys!Cleared[a]]
      /\ loaded' = {ps[j] : j \in 1 .. m}
  BY <1>2
<1> HIDE DEF m
<1>6. \A a \in A : a < m => arglist'[a] = ps[a + 1] /\ a + 1 \in 1 .. m /\ ps[a + 1] \in Listed
  BY <1>3, <1>4, <1>5
<1>7. \A a \in A : ~ (a < m) => arglist'[a] \in {0, -1}
  BY <1>5, ClearedNames
<1>8. arglist' \in [A -> Listed \cup {0, -1}]
  <2>1. arglist' = [a \in A |-> arglist'[a]]  BY <1>5
  <2>2. \A a \in A : arglist'[a] \in Listed \cup {0, -1}  BY <1>6, <1>7
  <2> QED  BY <2>1, <2>2
<1>9. loaded' \subseteq Listed  BY <1>3, <1>4, <1>5
<1>10. ASSUME NEW a \in A, arglist'[a] \in Listed
       PROVE  arglist'[a] \in loaded' /\ \A b \in A : b < a => arglist'[b] \in Listed
  <2>1. a < m
    <3>1. arglist'[a] \notin {0, -1}  BY <1>10, KeysAssumption
    <3> QED  BY <1>7, <3>1
  <2>2. arglist'[a] \in loaded'  BY <1>5, <1>6, <2>1
  <2>3. ASSUME NEW b \in A, b < a PROVE arglist'[b] \in Listed
    <3>1. b < m  BY <1>4, <2>1, <2>3
    <3> QED  BY <1>6, <3>1
  <2> QED  BY <2>2, <2>3
<1>11. ASSUME NEW x \in loaded' PROVE \E a \in A : arglist'[a] = x
  <2>1. PICK j \in 1 .. m : x = ps[j]  BY <1>5
  <2>2. j - 1 \in A /\ j - 1 < m /\ (j - 1) + 1 = j  BY <1>4
  <2> QED  BY <1>6, <2>1, <2>2
<1> QED  BY <1>8, <1>9, <1>10, <1>11 DEF ArgsInv

\* What the list promises its readers.
LEMMA LookupFindsLoaded ==
    ASSUME ArgsInv, NEW pid \in Listed
    PROVE  Keys!ArgsLookup(pid) <=> pid \in loaded
<1> DEFINE A == 0 .. (ARGSMAX - 1)
<1>1. Keys!ArgsLookup(pid) <=> \E a \in A : /\ arglist[a] = pid
                                            /\ \A b \in A : b < a => arglist[b] # -1
  BY DEF Keys!ArgsLookup, Keys!Args
<1>2. ASSUME Keys!ArgsLookup(pid) PROVE pid \in loaded  BY <1>1, <1>2 DEF ArgsInv
<1>3. ASSUME pid \in loaded PROVE Keys!ArgsLookup(pid)
  <2>1. PICK a \in A : arglist[a] = pid  BY <1>3 DEF ArgsInv
  <2>2. ASSUME NEW b \in A, b < a PROVE arglist[b] # -1
    <3>1. arglist[b] \in Listed  BY <2>1, <2>2 DEF ArgsInv
    <3> QED  BY <3>1, KeysAssumption
  <2> QED  BY <1>1, <2>1, <2>2
<1> QED  BY <1>2, <1>3

-----------------------------------------------------------------------------
LEMMA KeysInit == Keys!Init => KeysInv
<1> SUFFICES ASSUME Keys!Init PROVE KeysInv
  OBVIOUS
<1>1. JfsInv  BY DEF Keys!Init, JfsInv, Keys!JfsDescriptors
<1>2. SnapInv
  <2>1. /\ snap = [e \in 0 .. (MAX_SNAPS - 1) |-> 0] /\ next_cpu_snap = 0
        /\ cpu_snap_all = FALSE /\ saved = <<>>
    BY DEF Keys!Init, Keys!Slots
  <2>2. Keys!Window = saved  BY <2>1, EntriesRing DEF Keys!Window
  <2>3. snap \in [0 .. (MAX_SNAPS - 1) -> Nat] /\ saved \in Seq(Nat)  BY <2>1
  <2>4. next_cpu_snap \in 0 .. (MAX_SNAPS - 1)  BY <2>1, KeysAssumption
  <2>5. cpu_snap_all \in BOOLEAN  BY <2>1
  <2> QED  BY <2>2, <2>3, <2>4, <2>5 DEF SnapInv
<1>3. ArgsInv
  <2>1. arglist = [a \in 0 .. (ARGSMAX - 1) |-> 0] /\ loaded = {}  BY DEF Keys!Init, Keys!Args
  <2>2. 0 \notin Listed  BY KeysAssumption
  <2> QED  BY <2>1, <2>2 DEF ArgsInv
<1> QED  BY <1>1, <1>2, <1>3 DEF KeysInv

LEMMA KeysStep == ASSUME KeysInv, Keys!Next PROVE KeysInv'
<1>0. JfsInv /\ SnapInv /\ ArgsInv  BY DEF KeysInv
<1>a. ASSUME UNCHANGED Keys!snapVars PROVE SnapInv'
  BY <1>0, <1>a DEF SnapInv, Keys!snapVars, Keys!Window
<1>b. ASSUME UNCHANGED Keys!argVars PROVE ArgsInv'
  BY <1>0, <1>b DEF ArgsInv, Keys!argVars
<1>c. ASSUME UNCHANGED Keys!jfsVars, flag' = flag PROVE JfsInv'
  BY <1>0, <1>c DEF JfsInv, Keys!jfsVars, Keys!JfsDescriptors
<1>1. CASE Keys!Draw
  <2>1. /\ UNCHANGED Keys!jfsVars /\ UNCHANGED Keys!argVars /\ flag' = flag
        /\ (\E v \in {1, 2} : Keys!SaveSnap(v)) \/ UNCHANGED Keys!snapVars
    BY <1>1 DEF Keys!Draw
  <2>2. SnapInv'  BY <1>0, <1>a, <2>1, SaveSnapStep
  <2> QED  BY <1>b, <1>c, <2>1, <2>2 DEF KeysInv
<1>2. CASE Keys!Check \/ Keys!Scanned
  <2>1. /\ UNCHANGED Keys!jfsVars /\ UNCHANGED Keys!argVars /\ flag' = flag
        /\ UNCHANGED Keys!snapVars
    BY <1>2 DEF Keys!Check, Keys!Scanned, Keys!settingVars
  <2> QED  BY <1>a, <1>b, <1>c, <2>1 DEF KeysInv
<1>3. CASE Keys!Key
  <2> DEFINE k == buf[i + 1]
  <2>1. /\ Keys!Setting(k)
        /\ CASE k = "j" /\ "j" \notin flag -> Keys!Load
             [] k = "j" /\ "j" \in flag -> Keys!Unload
             [] OTHER -> UNCHANGED Keys!jfsVars
        /\ Keys!SnapClear \/ UNCHANGED Keys!snapVars
        /\ Keys!ArgsLoad \/ UNCHANGED Keys!argVars
    BY <1>3, Zenon DEF Keys!Key
  <2> HIDE DEF k
  <2>2. JfsInv'  BY <1>0, <2>1, JfsOfKey
  <2>3. SnapInv'  BY <1>a, <2>1, SnapClearStep
  <2>4. ArgsInv'  BY <1>0, <1>b, <2>1, ArgsLoadStep
  <2> QED  BY <2>2, <2>3, <2>4 DEF KeysInv
<1> QED  BY <1>1, <1>2, <1>3 DEF Keys!Next

\* After any sequence of keys: jfs_load has the displayed mount points open and
\* has not closed standard input, the long-term graph is of the last samples,
\* and args_lookup finds what the last args_load listed.
THEOREM TablesAreWhatKeysAsk == AllSpec => []KeysTables
<1> DEFINE I == part = "keys" => KeysInv
<1>1. AllInit => I  BY KeysInit DEF AllInit
<1>2. I /\ [AllNext]_all => I'
  <2> SUFFICES ASSUME I, [AllNext]_all, part' = "keys" PROVE KeysInv'
    OBVIOUS
  <2>1. CASE UNCHANGED all
    <3>1. /\ part = "keys"
          /\ UNCHANGED <<flag, fd, mounted, jfs_loaded, open, closed0, snap, next_cpu_snap,
                         cpu_snap_all, saved, arglist, loaded>>
      BY <2>1 DEF all, keysOnly
    <3> QED
      BY <3>1 DEF KeysInv, JfsInv, SnapInv, ArgsInv, Keys!JfsDescriptors, Keys!Window
  <2>2. CASE AllNext
    <3>1. part = "keys" /\ Keys!Next
      BY <2>2 DEF AllNext, InLoop, InKeys, InDisks, InProcs, InSignals
    <3> QED  BY <3>1, KeysStep
  <2> QED  BY <2>1, <2>2
<1>3. I => KeysTables
  <2> SUFFICES ASSUME KeysInv PROVE Keys!TablesFollowKeys
    BY DEF KeysTables
  <2> QED  BY LookupFindsLoaded DEF KeysInv, JfsInv, SnapInv, Keys!TablesFollowKeys
<1> QED  BY <1>1, <1>2, <1>3, PTL DEF AllSpec

-----------------------------------------------------------------------------
(* Disks.  A table is described by the mode, the disks that had transfers   *)
(* when it was read, and the lines read.                                    *)

\* line k is kept, and the entries that lines 1 .. k fill
IsKept(md, s, k) == md = "partitions" \/ Lines[k] \in s
Kept(md, s, k) == {l \in 1 .. k : IsKept(md, s, l)}
Pos(md, s, k) == Cardinality(Kept(md, s, k))

\* Every kept line is in the table, if there is room, behind the kept lines
\* before it; and every entry in use is such a line.
Filled(tab, md, s, n) ==
    \A k \in 1 .. n : IsKept(md, s, k) /\ Pos(md, s, k) <= DISKMAX
                        => tab[Pos(md, s, k) - 1] = Lines[k]
Entries(tab, md, s, u) ==
    \A j \in 0 .. (u - 1) :
        \E k \in 1 .. Len(Lines) :
            IsKept(md, s, k) /\ Pos(md, s, k) = j + 1 /\ tab[j] = Lines[k]

\* a position stored for a word is that of the word's line at the start
Stored(md, s, word, at) ==
    \/ at = -1
    \/ /\ at \in 0 .. (DISKMAX - 1)
       /\ \E k \in 1 .. Len(Lines) :
            Lines[k] = word /\ IsKept(md, s, k) /\ Pos(md, s, k) = at + 1

\* what an entry can hold
Names == DiskTables!Disk \cup {DiskTables!None}

DisksType ==
    /\ moved \subseteq Names /\ seen \in [{1, 2} -> SUBSET Names] /\ group \in Groups
    /\ dk \in [{1, 2} -> [0 .. (DISKMAX - 1) -> Names]]
    /\ p \in {1, 2} /\ phase \in {"first", "idle", "lines", "shown"}
    /\ line \in 0 .. Len(Lines) /\ used \in 0 .. DISKMAX /\ disks \in 0 .. DISKMAX

\* the table that is being read
BeingRead ==
    phase \in {"first", "lines"} =>
        /\ used = Pos(disk_mode, seen[p], line)
        /\ Filled(dk[p], disk_mode, seen[p], line)
        /\ Entries(dk[p], disk_mode, seen[p], used)

\* the tables that have been read
WasRead ==
    /\ phase = "first" => p = 1 /\ seen[1] = start /\ seen[2] = start
    /\ phase # "first" => Filled(dk[3 - p], disk_mode, seen[3 - p], Len(Lines))
    /\ phase \in {"idle", "shown"} => Filled(dk[p], disk_mode, seen[p], Len(Lines))
    /\ phase = "shown" => Entries(dk[p], disk_mode, seen[p], disks)

GroupStored ==
    /\ phase = "first" => data = <<>>
    /\ phase # "first" => /\ DOMAIN data = DOMAIN group
                          /\ \A w \in DOMAIN group : Stored(disk_mode, start, group[w], data[w])

DisksInv == DisksType /\ BeingRead /\ WasRead /\ GroupStored

\* Kept lines are finitely many.
LEMMA PosType ==
    ASSUME NEW md, NEW s, NEW k \in Nat
    PROVE  IsFiniteSet(Kept(md, s, k)) /\ Pos(md, s, k) \in Nat
<1>1. IsFiniteSet(1 .. k)  BY FS_Interval
<1>2. Kept(md, s, k) \subseteq 1 .. k  BY DEF Kept
<1> QED  BY <1>1, <1>2, FS_Subset, FS_CardinalityType DEF Pos

\* One more line.
LEMMA PosNext ==
    ASSUME NEW md, NEW s, NEW k \in Nat
    PROVE  /\ Pos(md, s, 0) = 0
           /\ IsKept(md, s, k + 1) => Pos(md, s, k + 1) = Pos(md, s, k) + 1
           /\ ~ IsKept(md, s, k + 1) => Pos(md, s, k + 1) = Pos(md, s, k)
<1>1. Kept(md, s, 0) = {}  BY DEF Kept
<1>2. Pos(md, s, 0) = 0  BY <1>1, FS_EmptySet DEF Pos
<1>3. IsFiniteSet(Kept(md, s, k)) /\ k + 1 \notin Kept(md, s, k)
  <2>1. k + 1 \notin 1 .. k  OBVIOUS
  <2> QED  BY <2>1, PosType DEF Kept
<1>4. 1 .. (k + 1) = (1 .. k) \cup {k + 1}  OBVIOUS
<1>5. IsKept(md, s, k + 1) => Kept(md, s, k + 1) = Kept(md, s, k) \cup {k + 1}
  BY <1>4 DEF Kept
<1>6. ~ IsKept(md, s, k + 1) => Kept(md, s, k + 1) = Kept(md, s, k)
  BY <1>4 DEF Kept
<1> QED  BY <1>2, <1>3, <1>5, <1>6, FS_AddElement DEF Pos

\* A later kept line has a later position.
LEMMA PosGrows ==
    ASSUME NEW md, NEW s, NEW k \in Nat, NEW n \in Nat, k <= n
    PROVE  /\ Pos(md, s, k) <= Pos(md, s, n)
           /\ k < n /\ IsKept(md, s, n) => Pos(md, s, k) < Pos(md, s, n)
<1>1. ASSUME NEW a \in Nat, NEW b \in Nat, a <= b PROVE Pos(md, s, a) <= Pos(md, s, b)
  <2>1. Kept(md, s, a) \subseteq Kept(md, s, b)  BY <1>1 DEF Kept
  <2>2. IsFiniteSet(Kept(md, s, b))  BY PosType
  <2> QED  BY <2>1, <2>2, FS_Subset DEF Pos
<1>2. ASSUME k < n, IsKept(md, s, n) PROVE Pos(md, s, k) < Pos(md, s, n)
  <2>1. n - 1 \in Nat /\ k <= n - 1 /\ (n - 1) + 1 = n  BY <1>2
  <2>2. Pos(md, s, k) <= Pos(md, s, n - 1)  BY <1>1, <2>1
  <2>3. Pos(md, s, n) = Pos(md, s, n - 1) + 1  BY <1>2, <2>1, PosNext
  <2>4. Pos(md, s, k) \in Nat /\ Pos(md, s, n - 1) \in Nat  BY <2>1, PosType
  <2> QED  BY <2>2, <2>3, <2>4
<1> QED  BY <1>1, <1>2

\* A kept line has a position.
LEMMA PosPositive ==
    ASSUME NEW md, NEW s, NEW k \in Nat \ {0}, IsKept(md, s, k)
    PROVE  Pos(md, s, k) \in Nat \ {0}
<1>1. Pos(md, s, 0) < Pos(md, s, k)  BY PosGrows
<1>2. Pos(md, s, 0) = 0 /\ Pos(md, s, k) \in Nat  BY PosNext, PosType
<1> QED  BY <1>1, <1>2

\* Lines are named by their disks.
LEMMA LinesDiffer ==
    /\ Len(Lines) \in Nat /\ DOMAIN Lines = 1 .. Len(Lines)
    /\ \A k, n \in 1 .. Len(Lines) : Lines[k] = Lines[n] => k = n
    /\ \A k \in 1 .. Len(Lines) : Lines[k] \in Names
BY DisksAssumption DEF IsInjective, Names, DiskTables!Disk, DiskTables!Range

\* Two readings that agree up to a disk put it at the same place.
LEMMA SamePlace ==
    ASSUME NEW s, NEW t, NEW k \in 1 .. Len(Lines), DiskTables!Same(s, t, Lines[k])
    PROVE  /\ IsKept(disk_mode, s, k) <=> IsKept(disk_mode, t, k)
           /\ Pos(disk_mode, s, k) = Pos(disk_mode, t, k)
<1> DEFINE U == {Lines[n] : n \in 1 .. k}
<1>1. DiskTables!UpTo(Lines[k]) = U
  <2>1. (CHOOSE n \in DOMAIN Lines : Lines[n] = Lines[k]) = k  BY LinesDiffer
  <2> QED  BY <2>1 DEF DiskTables!UpTo
<1>2. disk_mode = "partitions" \/ s \cap U = t \cap U  BY <1>1 DEF DiskTables!Same
<1>3. \A l \in 1 .. k : IsKept(disk_mode, s, l) <=> IsKept(disk_mode, t, l)
  <2> SUFFICES ASSUME NEW l \in 1 .. k
               PROVE  IsKept(disk_mode, s, l) <=> IsKept(disk_mode, t, l)
    OBVIOUS
  <2>1. Lines[l] \in U  OBVIOUS
  <2> HIDE DEF U
  <2> QED  BY <1>2, <2>1 DEF IsKept
<1>4. Kept(disk_mode, s, k) = Kept(disk_mode, t, k)  BY <1>3 DEF Kept
<1>5. k \in 1 .. k  BY LinesDiffer
<1> QED  BY <1>3, <1>4, <1>5 DEF Pos

-----------------------------------------------------------------------------
LEMMA DisksInit == DiskTables!Init => DisksInv
<1> SUFFICES ASSUME DiskTables!Init PROVE DisksInv
  OBVIOUS
<1>1. /\ dk = <<DiskTables!NoDisks, DiskTables!NoDisks>> /\ seen = <<moved, moved>>
      /\ start = moved /\ p = 1 /\ phase = "first" /\ line = 0 /\ used = 0 /\ data = <<>> /\ disks = 0
      /\ group \in Groups /\ moved \in SUBSET DiskTables!Disk
  BY DEF DiskTables!Init
<1>2. moved \subseteq Names
  BY <1>1 DEF Names
<1>3. DiskTables!NoDisks \in [0 .. (DISKMAX - 1) -> Names]
  BY DEF DiskTables!NoDisks, Names
<1>4. DisksType
  <2>1. line \in 0 .. Len(Lines) /\ used \in 0 .. DISKMAX /\ disks \in 0 .. DISKMAX
    BY <1>1, LinesDiffer, DisksAssumption
  <2>2. seen \in [{1, 2} -> SUBSET Names]
    <3>1. moved \in SUBSET Names /\ seen = <<moved, moved>>  BY <1>1, <1>2
    <3> QED  BY <3>1
  <2>3. dk \in [{1, 2} -> [0 .. (DISKMAX - 1) -> Names]]  BY <1>1, <1>3
  <2> QED  BY <1>1, <1>2, <2>1, <2>2, <2>3 DEF DisksType
<1>5. BeingRead
  <2>1. used = Pos(disk_mode, seen[p], line)  BY <1>1, PosNext
  <2>2. Filled(dk[p], disk_mode, seen[p], line)  BY <1>1 DEF Filled
  <2>3. Entries(dk[p], disk_mode, seen[p], used)  BY <1>1 DEF Entries
  <2> QED  BY <2>1, <2>2, <2>3 DEF BeingRead
<1>6. WasRead  BY <1>1 DEF WasRead
<1>7. GroupStored  BY <1>1 DEF GroupStored
<1> QED  BY <1>4, <1>5, <1>6, <1>7 DEF DisksInv

\* proc_disk reads a line into the table p, at the end of what it has kept.
LEMMA ReadLineStep == ASSUME DisksInv, DiskTables!ReadLine PROVE DisksInv'
<1>0. DisksType /\ BeingRead /\ WasRead /\ GroupStored  BY DEF DisksInv
<1> DEFINE md == disk_mode
           s == seen[p]
           d == Lines[line + 1]
           tab == dk[p]
<1>1. /\ phase \in {"first", "lines"} /\ used < DISKMAX /\ line < Len(Lines)
      /\ dk' = [dk EXCEPT ![p][used] = d]
      /\ used' = IF IsKept(md, s, line + 1) THEN used + 1 ELSE used
      /\ line' = line + 1
      /\ UNCHANGED <<disk_mode, moved, disks, seen, start, group, data, p, phase>>
  BY DEF DiskTables!ReadLine, DiskTables!Keep, IsKept
<1>2. /\ p \in {1, 2} /\ used \in 0 .. (DISKMAX - 1) /\ line \in Nat /\ DISKMAX \in Nat
      /\ line + 1 \in 1 .. Len(Lines) /\ d \in Names
      /\ tab \in [0 .. (DISKMAX - 1) -> Names]
  <2>1. /\ p \in {1, 2} /\ used \in 0 .. DISKMAX /\ line \in 0 .. Len(Lines)
        /\ tab \in [0 .. (DISKMAX - 1) -> Names]
    BY <1>0 DEF DisksType
  <2>2. /\ used \in 0 .. (DISKMAX - 1) /\ line \in Nat /\ DISKMAX \in Nat
        /\ line + 1 \in 1 .. Len(Lines)
    BY <1>1, <2>1, LinesDiffer, DisksAssumption
  <2>3. d \in Names  BY <2>2, LinesDiffer
  <2> QED  BY <2>1, <2>2, <2>3
<1>3. /\ dk' \in [{1, 2} -> [0 .. (DISKMAX - 1) -> Names]]
      /\ dk'[3 - p] = dk[3 - p]
      /\ dk'[p] = [tab EXCEPT ![used] = d]
  <2> DEFINE new == [tab EXCEPT ![used] = d]
  <2>1. dk' = [dk EXCEPT ![p] = new]  BY <1>1
  <2>2. new \in [0 .. (DISKMAX - 1) -> Names]  BY <1>2
  <2>3. dk \in [{1, 2} -> [0 .. (DISKMAX - 1) -> Names]] /\ 3 - p \in {1, 2} /\ 3 - p # p
    BY <1>0, <1>2 DEF DisksType
  <2> HIDE DEF new
  <2>4. dk' \in [{1, 2} -> [0 .. (DISKMAX - 1) -> Names]] /\ dk'[3 - p] = dk[3 - p] /\ dk'[p] = new
    BY <1>2, <2>1, <2>2, <2>3
  <2> QED  BY <2>4 DEF new
<1>4. dk'[p][used] = d /\ \A j \in 0 .. (DISKMAX - 1) : j # used => dk'[p][j] = tab[j]
  BY <1>2, <1>3
<1>5. line' \in 0 .. Len(Lines) /\ used' \in 0 .. DISKMAX
  BY <1>1, <1>2, LinesDiffer
<1>6. DisksType'  BY <1>0, <1>1, <1>3, <1>5 DEF DisksType
<1>7. /\ used = Pos(md, s, line) /\ Filled(tab, md, s, line) /\ Entries(tab, md, s, used)
  BY <1>0, <1>1 DEF BeingRead
<1> HIDE DEF md, s, d, tab
<1>8. used' = Pos(md, s, line + 1)  BY <1>1, <1>2, <1>7, PosNext
<1>9. Filled(dk'[p], md, s, line + 1)
  <2> SUFFICES ASSUME NEW k \in 1 .. (line + 1), IsKept(md, s, k), Pos(md, s, k) <= DISKMAX
               PROVE  dk'[p][Pos(md, s, k) - 1] = Lines[k]
    BY DEF Filled
  <2>1. CASE k = line + 1
    <3>1. Pos(md, s, k) = used + 1  BY <1>2, <1>7, <2>1, PosNext
    <3>2. Pos(md, s, k) - 1 = used  BY <1>2, <3>1
    <3> QED  BY <1>4, <2>1, <3>2 DEF d
  <2>2. CASE k # line + 1
    <3>1. k \in 1 .. line /\ k \in Nat \ {0} /\ k <= line  BY <1>2, <2>2
    <3>2. tab[Pos(md, s, k) - 1] = Lines[k]  BY <1>7, <3>1 DEF Filled
    <3>3. Pos(md, s, k) <= used /\ Pos(md, s, k) \in Nat \ {0}
      BY <1>2, <1>7, <3>1, PosGrows, PosPositive
    <3>4. Pos(md, s, k) - 1 \in 0 .. (DISKMAX - 1) /\ Pos(md, s, k) - 1 # used
      BY <1>2, <3>3
    <3> QED  BY <1>4, <3>2, <3>4
  <2> QED  BY <2>1, <2>2
<1>10. Entries(dk'[p], md, s, used')
  <2> SUFFICES ASSUME NEW j \in 0 .. (used' - 1)
               PROVE  \E k \in 1 .. Len(Lines) :
                        IsKept(md, s, k) /\ Pos(md, s, k) = j + 1 /\ dk'[p][j] = Lines[k]
    BY DEF Entries
  <2>1. CASE j = used
    <3>1. IsKept(md, s, line + 1)  BY <1>1, <1>2, <2>1
    <3>2. Pos(md, s, line + 1) = j + 1  BY <1>2, <1>7, <2>1, <3>1, PosNext
    <3> QED  BY <1>2, <1>4, <2>1, <3>1, <3>2 DEF d
  <2>2. CASE j # used
    <3>1. j \in 0 .. (used - 1) /\ j \in 0 .. (DISKMAX - 1)  BY <1>1, <1>2, <2>2
    <3>2. dk'[p][j] = tab[j]  BY <1>4, <2>2, <3>1
    <3> QED  BY <1>7, <3>1, <3>2 DEF Entries
  <2> QED  BY <2>1, <2>2
<1>11. BeingRead'  BY <1>1, <1>8, <1>9, <1>10 DEF BeingRead, md, s
<1>12. WasRead'  BY <1>0, <1>1, <1>3 DEF WasRead
<1>13. GroupStored'  BY <1>0, <1>1 DEF GroupStored
<1> QED  BY <1>6, <1>11, <1>12, <1>13 DEF DisksInv

\* When proc_disk stops reading, every line it left out finds no room.
LEMMA ReadToTheEnd ==
    ASSUME DisksInv, phase \in {"first", "lines"}, DiskTables!AllRead
    PROVE  Filled(dk[p], disk_mode, seen[p], Len(Lines))
<1>1. /\ used = Pos(disk_mode, seen[p], line) /\ Filled(dk[p], disk_mode, seen[p], line)
      /\ line \in 0 .. Len(Lines) /\ Len(Lines) \in Nat /\ DISKMAX \in Nat
  BY LinesDiffer, DisksAssumption DEF DisksInv, DisksType, BeingRead
<1> SUFFICES ASSUME NEW k \in 1 .. Len(Lines), IsKept(disk_mode, seen[p], k),
                    Pos(disk_mode, seen[p], k) <= DISKMAX
             PROVE  dk[p][Pos(disk_mode, seen[p], k) - 1] = Lines[k]
  BY DEF Filled
<1>2. CASE k <= line
  <2>1. k \in 1 .. line  BY <1>1, <1>2
  <2> QED  BY <1>1, <2>1 DEF Filled
<1>3. CASE ~ (k <= line)
  <2>1. line < k /\ k \in Nat /\ line \in Nat /\ line # Len(Lines)  BY <1>1, <1>3
  <2>2. Pos(disk_mode, seen[p], line) < Pos(disk_mode, seen[p], k)  BY <2>1, PosGrows
  <2>3. used = DISKMAX  BY <2>1 DEF DiskTables!AllRead
  <2>4. Pos(disk_mode, seen[p], k) \in Nat  BY <2>1, PosType
  <2> QED  BY <1>1, <2>2, <2>3, <2>4
<1> QED  BY <1>2, <1>3

\* What load_dgroup stores for a word.
LEMMA LoadDgroupStores ==
    ASSUME DisksInv, phase = "first", NEW w \in DOMAIN group
    PROVE  Stored(disk_mode, seen[p], group[w], DiskTables!LoadDgroup(group)[w])
<1> DEFINE at == {j \in 0 .. (used - 1) : dk[p][j] = group[w]}
<1>1. DiskTables!LoadDgroup(group)[w] = IF at = {} THEN -1 ELSE DiskTables!Min(at)
  BY DEF DiskTables!LoadDgroup
<1>2. Entries(dk[p], disk_mode, seen[p], used) /\ used \in 0 .. DISKMAX /\ DISKMAX \in Nat
  BY DisksAssumption DEF DisksInv, DisksType, BeingRead
<1>3. ASSUME NEW j \in at
      PROVE  /\ j \in 0 .. (DISKMAX - 1)
             /\ \E k \in 1 .. Len(Lines) :
                  /\ Lines[k] = group[w] /\ IsKept(disk_mode, seen[p], k)
                  /\ Pos(disk_mode, seen[p], k) = j + 1
  <2>1. j \in 0 .. (used - 1) /\ dk[p][j] = group[w] /\ j \in Nat  BY <1>2
  <2>2. j \in 0 .. (DISKMAX - 1)  BY <1>2, <2>1
  <2>3. PICK k \in 1 .. Len(Lines) :
          /\ IsKept(disk_mode, seen[p], k) /\ Pos(disk_mode, seen[p], k) = j + 1
          /\ dk[p][j] = Lines[k]
    BY <1>2, <2>1 DEF Entries
  <2> QED  BY <2>1, <2>2, <2>3
<1>4. \A j, e \in at : j = e /\ j \in Nat
  <2> SUFFICES ASSUME NEW j \in at, NEW e \in at PROVE j = e /\ j \in Nat
    OBVIOUS
  <2>0. j \in Nat /\ e \in Nat  BY <1>2
  <2> HIDE DEF at
  <2>1. PICK k \in 1 .. Len(Lines) : Lines[k] = group[w] /\ Pos(disk_mode, seen[p], k) = j + 1
    BY <1>3
  <2>2. PICK n \in 1 .. Len(Lines) : Lines[n] = group[w] /\ Pos(disk_mode, seen[p], n) = e + 1
    BY <1>3
  <2>3. k = n  BY <2>1, <2>2, LinesDiffer
  <2> QED  BY <2>0, <2>1, <2>2, <2>3
<1> HIDE DEF at
<1>5. at # {} => DiskTables!Min(at) \in at
  <2> SUFFICES ASSUME NEW j \in at PROVE DiskTables!Min(at) \in at
    OBVIOUS
  <2>1. \A e \in at : j =< e  BY <1>4
  <2> QED  BY <2>1 DEF DiskTables!Min
<1> QED  BY <1>1, <1>3, <1>5 DEF Stored

\* The end of start-up: the other table gets what is in use.
LEMMA StartedStep == ASSUME DisksInv, DiskTables!Started PROVE DisksInv'
<1>0. DisksType /\ BeingRead /\ WasRead /\ GroupStored  BY DEF DisksInv
<1>1. /\ phase = "first" /\ DiskTables!AllRead /\ phase' = "idle" /\ p' = 3 - p /\ p = 1
      /\ dk' = [dk EXCEPT ![3 - p] = [j \in 0 .. (DISKMAX - 1) |->
                                        IF j < used THEN dk[p][j] ELSE dk[3 - p][j]]]
      /\ data' = DiskTables!LoadDgroup(group) /\ disks' = used
      /\ UNCHANGED <<disk_mode, moved, seen, start, group, line, used>>
  BY <1>0 DEF DiskTables!Started, DiskTables!q, WasRead, DisksType
<1>2. /\ dk' \in [{1, 2} -> [0 .. (DISKMAX - 1) -> Names]] /\ dk'[1] = dk[1]
      /\ \A j \in 0 .. (DISKMAX - 1) : j < used => dk'[2][j] = dk[1][j]
      /\ p' = 2
  <2> DEFINE new == [j \in 0 .. (DISKMAX - 1) |-> IF j < used THEN dk[1][j] ELSE dk[2][j]]
  <2>1. dk' = [dk EXCEPT ![2] = new] /\ p' = 2  BY <1>1
  <2>2. dk \in [{1, 2} -> [0 .. (DISKMAX - 1) -> Names]]  BY <1>0 DEF DisksType
  <2>3. new \in [0 .. (DISKMAX - 1) -> Names]  BY <2>2
  <2>4. \A j \in 0 .. (DISKMAX - 1) : j < used => new[j] = dk[1][j]  OBVIOUS
  <2> HIDE DEF new
  <2> QED  BY <2>1, <2>2, <2>3, <2>4
<1>3. DisksType'  BY <1>0, <1>1, <1>2 DEF DisksType
<1>4. Filled(dk[1], disk_mode, seen[1], Len(Lines))  BY <1>1, ReadToTheEnd
<1>5. seen[1] = start /\ seen[2] = start  BY <1>0, <1>1 DEF WasRead
<1>6. Filled(dk'[2], disk_mode, seen[2], Len(Lines))
  <2> SUFFICES ASSUME NEW k \in 1 .. Len(Lines), IsKept(disk_mode, start, k),
                      Pos(disk_mode, start, k) <= DISKMAX
               PROVE  dk'[2][Pos(disk_mode, start, k) - 1] = Lines[k]
    BY <1>5 DEF Filled
  <2>1. dk[1][Pos(disk_mode, start, k) - 1] = Lines[k]  BY <1>4, <1>5 DEF Filled
  <2>2. used = Pos(disk_mode, start, line) /\ line \in Nat /\ DISKMAX \in Nat /\ used \in Nat
    BY <1>0, <1>1, <1>5, LinesDiffer, DisksAssumption DEF BeingRead, DisksType
  <2>3. k \in Nat \ {0} /\ Pos(disk_mode, start, k) \in Nat \ {0}
    BY LinesDiffer, PosPositive
  <2>4. Pos(disk_mode, start, k) <= used
    <3>1. CASE k <= line  BY <2>2, <2>3, <3>1, PosGrows
    <3>2. CASE ~ (k <= line)
      <4>0. k <= Len(Lines) /\ Len(Lines) \in Nat  BY LinesDiffer
      <4>1. line # Len(Lines)  BY <2>2, <2>3, <3>2, <4>0
      <4>2. used = DISKMAX  BY <1>1, <4>1 DEF DiskTables!AllRead
      <4> QED  BY <4>2
    <3> QED  BY <3>1, <3>2
  <2>5. Pos(disk_mode, start, k) - 1 \in 0 .. (DISKMAX - 1) /\ Pos(disk_mode, start, k) - 1 < used
    BY <2>2, <2>3, <2>4
  <2> QED  BY <1>2, <2>1, <2>5
<1>7. WasRead'  BY <1>1, <1>2, <1>4, <1>6 DEF WasRead
<1>8. GroupStored'
  <2>1. DOMAIN data' = DOMAIN group  BY <1>1 DEF DiskTables!LoadDgroup
  <2>2. \A w \in DOMAIN group : Stored(disk_mode, start, group[w], data'[w])
    BY <1>1, <1>5, LoadDgroupStores
  <2> QED  BY <1>1, <2>1, <2>2 DEF GroupStored
<1>9. BeingRead'  BY <1>1 DEF BeingRead
<1> QED  BY <1>3, <1>7, <1>8, <1>9 DEF DisksInv

LEMMA DisksStep == ASSUME DisksInv, DiskTables!Next PROVE DisksInv'
<1>0. DisksType /\ BeingRead /\ WasRead /\ GroupStored  BY DEF DisksInv
<1>1. CASE DiskTables!DiskSection
  <2>1. /\ phase = "idle" /\ phase' = "lines" /\ seen' = [seen EXCEPT ![p] = moved]
        /\ line' = 0 /\ used' = 0
        /\ UNCHANGED <<disk_mode, moved, dk, disks, start, group, data, p>>
    BY <1>1 DEF DiskTables!DiskSection
  <2>2. DisksType'  BY <1>0, <2>1, LinesDiffer, DisksAssumption DEF DisksType
  <2>3. BeingRead'
    <3>1. used' = Pos(disk_mode, seen'[p], 0)  BY <2>1, PosNext
    <3> QED  BY <2>1, <3>1 DEF BeingRead, Filled, Entries
  <2>4. seen'[3 - p] = seen[3 - p]  BY <1>0, <2>1 DEF DisksType
  <2>5. WasRead' /\ GroupStored'  BY <1>0, <2>1, <2>4 DEF WasRead, GroupStored
  <2> QED  BY <2>2, <2>3, <2>5 DEF DisksInv
<1>2. CASE DiskTables!Show
  <2>1. /\ phase = "lines" /\ phase' = "shown" /\ disks' = used /\ DiskTables!AllRead
        /\ UNCHANGED <<disk_mode, moved, dk, seen, start, group, data, p, line, used>>
    BY <1>2 DEF DiskTables!Show
  <2>2. Filled(dk[p], disk_mode, seen[p], Len(Lines))  BY <2>1, ReadToTheEnd
  <2>3. Entries(dk[p], disk_mode, seen[p], used)  BY <1>0, <2>1 DEF BeingRead
  <2>4. DisksType' /\ BeingRead'  BY <1>0, <2>1 DEF DisksType, BeingRead
  <2>5. WasRead' /\ GroupStored'  BY <1>0, <2>1, <2>2, <2>3 DEF WasRead, GroupStored
  <2> QED  BY <2>4, <2>5 DEF DisksInv
<1>3. CASE DiskTables!Switch
  <2>1. /\ phase = "shown" /\ phase' = "idle" /\ p' = 3 - p
        /\ UNCHANGED <<disk_mode, moved, dk, disks, seen, start, group, data, line, used>>
    BY <1>3 DEF DiskTables!Switch, DiskTables!q
  <2>2. p' \in {1, 2} /\ 3 - p' = p  BY <1>0, <2>1 DEF DisksType
  <2>3. DisksType' /\ BeingRead'  BY <1>0, <2>1, <2>2 DEF DisksType, BeingRead
  <2>4. WasRead' /\ GroupStored'  BY <1>0, <2>1, <2>2 DEF WasRead, GroupStored
  <2> QED  BY <2>3, <2>4 DEF DisksInv
<1>4. CASE DiskTables!FirstTransfer
  <2>1. /\ UNCHANGED <<disk_mode, dk, disks, seen, start, group, data, p, phase, line, used>>
        /\ \E e \in DiskTables!Disk : moved' = moved \cup {e}
    BY <1>4 DEF DiskTables!FirstTransfer
  <2>2. moved' \subseteq Names
    BY <1>0, <2>1 DEF DisksType, Names
  <2>3. DisksType' /\ BeingRead'  BY <1>0, <2>1, <2>2 DEF DisksType, BeingRead
  <2>4. WasRead' /\ GroupStored'  BY <1>0, <2>1 DEF WasRead, GroupStored
  <2> QED  BY <2>3, <2>4 DEF DisksInv
<1> QED  BY <1>1, <1>2, <1>3, <1>4, ReadLineStep, StartedStep DEF DiskTables!Next

-----------------------------------------------------------------------------
\* Found words without a gap are the first ones.
LEMMA NoGap ==
    ASSUME DisksInv, ~ DiskTables!Gap
    PROVE  DiskTables!ListDgroup = DiskTables!Found
<1> DEFINE F == DiskTables!Found
<1>1. PICK n \in Nat : DOMAIN data = 1 .. n
  <2>1. phase # "first" => DOMAIN data = 1 .. Len(group) /\ Len(group) \in Nat
    BY DisksAssumption DEF DisksInv, DisksType, GroupStored
  <2>2. phase = "first" => DOMAIN data = 1 .. 0  BY DEF DisksInv, GroupStored
  <2> QED  BY <2>1, <2>2
<1>2. F \subseteq 1 .. n /\ \A v, w \in 1 .. n : v < w /\ w \in F => v \in F
  BY <1>1 DEF DiskTables!Found, DiskTables!Gap
<1>3. DiskTables!ListDgroup = {w \in F : w <= DiskTables!Cardinality(F)}
  BY DEF DiskTables!ListDgroup
<1>4. DiskTables!Cardinality(F) = Cardinality(F)  BY DEF DiskTables!Cardinality, Cardinality
<1> HIDE DEF F
<1>5. IsFiniteSet(F) /\ Cardinality(F) \in Nat
  <2>1. IsFiniteSet(1 .. n)  BY FS_Interval
  <2> QED  BY <1>2, <2>1, FS_Subset, FS_CardinalityType
<1>6. ASSUME NEW w \in F PROVE w <= Cardinality(F)
  <2>1. w \in 1 .. n /\ w \in Nat /\ w >= 1  BY <1>2
  <2>2. 1 .. w \subseteq F  BY <1>2, <2>1
  <2>3. Cardinality(1 .. w) <= Cardinality(F)  BY <1>5, <2>2, FS_Subset
  <2>4. Cardinality(1 .. w) = w  
    <3>1. Cardinality(1 .. w) = IF 1 > w THEN 0 ELSE w - 1 + 1  BY <2>1, FS_Interval
    <3> QED  BY <2>1, <3>1
  <2> QED  BY <2>3, <2>4
<1>7. DiskTables!ListDgroup = F  BY <1>3, <1>4, <1>6
<1> QED  BY <1>7 DEF F

\* A disk at a place both tables agree on is found in both.
LEMMA DisksInvPairs == DisksInv => DiskTables!DisksPairUp
<1> SUFFICES ASSUME DisksInv PROVE DiskTables!DisksPairUp
  OBVIOUS
<1>0. DisksType /\ WasRead /\ GroupStored /\ p \in {1, 2}  BY DEF DisksInv, DisksType
<1>1. ASSUME phase = "shown", NEW j \in 0 .. (disks - 1),
             DiskTables!Same(seen[1], seen[2], dk[p][j])
      PROVE  dk[3 - p][j] = dk[p][j]
  <2>1. /\ Entries(dk[p], disk_mode, seen[p], disks)
        /\ Filled(dk[3 - p], disk_mode, seen[3 - p], Len(Lines))
        /\ Filled(dk[p], disk_mode, seen[p], Len(Lines))
    BY <1>0, <1>1 DEF WasRead
  <2>2. PICK k \in 1 .. Len(Lines) :
          IsKept(disk_mode, seen[p], k) /\ Pos(disk_mode, seen[p], k) = j + 1 /\ dk[p][j] = Lines[k]
    BY <2>1 DEF Entries
  <2>3. /\ IsKept(disk_mode, seen[1], k) <=> IsKept(disk_mode, seen[2], k)
        /\ Pos(disk_mode, seen[1], k) = Pos(disk_mode, seen[2], k)
    BY <1>1, <2>2, SamePlace
  <2>4. IsKept(disk_mode, seen[3 - p], k) /\ Pos(disk_mode, seen[3 - p], k) = j + 1
    <3>1. CASE p = 1  BY <2>2, <2>3, <3>1
    <3>2. CASE p = 2  BY <2>2, <2>3, <3>2
    <3> QED  BY <1>0, <3>1, <3>2
  <2>5. j + 1 <= DISKMAX /\ j + 1 - 1 = j  BY <1>0, DisksAssumption DEF DisksType
  <2> QED  BY <2>1, <2>2, <2>4, <2>5 DEF Filled
<1>2. ASSUME phase \in {"idle", "shown"}, NEW w \in DiskTables!Found,
             DiskTables!Same(start, seen[p], group[w])
      PROVE  dk[p][data[w]] = group[w]
  <2>1. /\ Filled(dk[p], disk_mode, seen[p], Len(Lines)) /\ w \in DOMAIN group
        /\ Stored(disk_mode, start, group[w], data[w]) /\ data[w] # -1
    BY <1>0, <1>2 DEF WasRead, GroupStored, DiskTables!Found
  <2>2. PICK k \in 1 .. Len(Lines) :
          /\ Lines[k] = group[w] /\ IsKept(disk_mode, start, k)
          /\ Pos(disk_mode, start, k) = data[w] + 1
    BY <2>1 DEF Stored
  <2>3. data[w] \in 0 .. (DISKMAX - 1)  BY <2>1 DEF Stored
  <2>4. IsKept(disk_mode, seen[p], k) /\ Pos(disk_mode, seen[p], k) = data[w] + 1
    BY <1>2, <2>2, SamePlace
  <2>5. data[w] + 1 <= DISKMAX /\ data[w] \in Int  BY <2>3, DisksAssumption
  <2>6. dk[p][Pos(disk_mode, seen[p], k) - 1] = Lines[k]  BY <2>1, <2>4, <2>5 DEF Filled
  <2>7. Pos(disk_mode, seen[p], k) - 1 = data[w]  BY <2>4, <2>5
  <2>8. dk[p][data[w]] = Lines[k]  BY <2>6, <2>7
  <2> QED  BY <2>2, <2>8
<1>3. DiskTables!q = 3 - p  BY DEF DiskTables!q
<1> QED  BY <1>1, <1>2, <1>3, NoGap DEF DiskTables!DisksPairUp

\* Whatever disks see their first transfer, between two readings or during one,
\* a disk is compared with itself, and a disk group keeps its disks, with the
\* exceptions the property names.
THEOREM DisksAreCompared == AllSpec => []DisksCompared
<1> DEFINE I == part = "disks" => DisksInv
<1>1. AllInit => I  BY DisksInit DEF AllInit
<1>2. I /\ [AllNext]_all => I'
  <2> SUFFICES ASSUME I, [AllNext]_all, part' = "disks" PROVE DisksInv'
    OBVIOUS
  <2>1. CASE UNCHANGED all
    <3>1. /\ part = "disks"
          /\ UNCHANGED <<disk_mode, moved, dk, disks, seen, start, group, data, p, phase, line, used>>
      BY <2>1 DEF all, disksOnly
    <3> QED  BY <3>1 DEF DisksInv, DisksType, BeingRead, WasRead, GroupStored
  <2>2. CASE AllNext
    <3>1. part = "disks" /\ DiskTables!Next
      BY <2>2 DEF AllNext, InLoop, InKeys, InDisks, InProcs, InSignals
    <3> QED  BY <3>1, DisksStep
  <2> QED  BY <2>1, <2>2
<1>3. I => DisksCompared  BY DisksInvPairs DEF DisksCompared
<1> QED  BY <1>1, <1>2, <1>3, PTL DEF AllSpec
=============================================================================
