------------------------------ MODULE NmonLoop ------------------------------
(***************************************************************************)
(* The sampling loop of the program nmon (app/lmon16f.c): the two halves   *)
(* p (current) and q (previous) of the database, the /proc files that are  *)
(* read at most once per interval, the sections that are switched on and   *)
(* off, and what a section shows or records.                               *)
(*                                                                         *)
(* A sample is abstracted to its age in loops.  A rate is the difference   *)
(* of two samples divided by `elapsed', the time between the last two      *)
(* loops, so it is right when the samples are of this and of the last      *)
(* loop.  Start-up counts as the loop before the first.                    *)
(***************************************************************************)
EXTENDS Integers, Sequences, Functions

CONSTANTS
    Sessions,   \* ways nmon is used: mode; sections the user toggles; sections
                \* the options switch on; /proc files missing; numbers of CPUs
    MaxErr      \* bound of the network error counter

VARIABLES
    session,    \* how nmon is used this time
    missing,    \* /proc files that do not exist
    late,       \* the NFS counters appeared while nmon runs
    shown,      \* the show_ flags that are set
    now, was,   \* shown, at the start of this and of the previous loop
    first,      \* the _first_time flags still set
    pc,         \* next section of the loop
    db,         \* the database and the /proc texts
    cpus, old_cpus, max_cpus,
    errNow,     \* error counter of the network interfaces
    show_neterror,
    heads, rows,\* headings recorded so far, rows recorded in this loop
    rep         \* ages of the two samples of the rate just shown

flagVars == <<shown, now, was, first>>
cpuVars == <<cpus, old_cpus, max_cpus>>
netVars == <<errNow, show_neterror>>
fileVars == <<heads, rows>>
vars == <<session, missing, late, flagVars, pc, db, cpuVars, netVars, fileVars, rep>>

mode == session.mode    \* "screen" (cursed), "file" (spreadsheet) or "rrd"

\* the four classes of age
Older(a) == IF a < 2 THEN a + 1 ELSE a
Never == 3
Age == 0 .. Never

File == {"cpuinfo", "stat", "version", "meminfo", "uptime", "loadavg", "nfs", "vmstat"}
Data == {"cpu", "mem", "vm", "nfs", "net", "disk", "procs"}
Half == {0, 1}
Other(h) == 1 - h

Order == <<"help", "res", "longterm", "cpuread", "smp", "wide", "util", "mhz", "memory",
           "large", "vm", "kernel", "nfs", "net", "neterr", "jfs", "diskread", "diskmap",
           "verbose", "disk", "dgroup", "top", "end">>
Sections == Range(Order) \ {"cpuread", "neterr", "diskread", "end"}

ASSUME NmonLoopAssumption ==
    /\ \A s \in Sessions : /\ s.mode \in {"screen", "file", "rrd"}
                           /\ s.mode # "screen" => s.keys = {}
                           /\ s.options \subseteq Sections
                           /\ s.missing \subseteq {"vmstat", "nfs"}
                           /\ s.cpus \subseteq Nat \ {0} /\ s.cpus # {}
    /\ MaxErr \in Nat

\* what is executed in a loop, given the flags
Active(s, sh) ==
    \/ s \in sh \cup {"neterr", "end"}
    \/ s = "cpuread" /\ sh \cap {"smp", "verbose", "wide"} # {}
    \/ s = "diskread" /\ sh \cap {"disk", "verbose", "diskmap", "dgroup"} # {}

FirstActive(from, sh) ==
    Order[CHOOSE i \in from .. Len(Order) :
            Active(Order[i], sh) /\ \A j \in from .. (i - 1) : ~ Active(Order[j], sh)]
IndexOf(s) == CHOOSE i \in 1 .. Len(Order) : Order[i] = s
Follow(s, sh) == FirstActive(IndexOf(s) + 1, sh)

NoRep == [sec |-> "none", new |-> 0, old |-> 0]

-----------------------------------------------------------------------------
(* Readers.  Each takes the database and returns it updated.               *)

\* a file already read in this interval, or missing, is not read
ProcRead(d, f) ==
    IF f \in d.read \cup missing THEN d
    ELSE [d EXCEPT !.text[f] = 0, !.read = @ \cup {f}, !.cpu_done = @ /\ f # "stat"]

Put(d, x, age) == [d EXCEPT !.buf[d.p][x] = age]
CopyToPrevious(d, x) == [d EXCEPT !.buf[Other(d.p)][x] = d.buf[d.p][x]]

\* runs once per reading of /proc/stat; a changed number of CPUs makes it
\* copy the sample to the previous half
ProcCpu(d) ==
    IF d.cpu_done THEN d
    ELSE LET e == [Put(d, "cpu", d.text["stat"]) EXCEPT !.cpu_done = TRUE] IN
         IF old_cpus # cpus THEN CopyToPrevious(e, "cpu") ELSE e

ReadCpu(d) == ProcCpu(ProcRead(d, "stat"))

ProcMem(d) == Put(d, "mem", d.text["meminfo"])

VmFails(d) == "vmstat" \notin ProcRead(d, "vmstat").read
ReadVmstat(d) ==
    LET e == ProcRead(d, "vmstat") IN
    IF VmFails(d) THEN e ELSE Put(e, "vm", e.text["vmstat"])

\* the counters are left alone when the file is not there
NfsFound == "nfs" \notin missing
ProcNfs(d) ==
    LET e == ProcRead(d, "nfs") IN IF NfsFound THEN Put(e, "nfs", e.text["nfs"]) ELSE e

ProcNet(d) == [Put(d, "net", 0) EXCEPT !.err[d.p] = errNow]
ProcDisk(d) == Put(d, "disk", 0)
GetProcs(d) == Put(d, "procs", 0)

\* mutants: the cached texts are kept; the halves stay
SwitcherKeepsRead(d) ==
    [d EXCEPT !.p = Other(@), !.text = [f \in File |-> Older(@[f])],
              !.buf = [h \in Half |-> [x \in Data |-> Older(@[h][x])]]]
SwitcherSame(d) ==
    [d EXCEPT !.read = {}, !.text = [f \in File |-> Older(@[f])],
              !.buf = [h \in Half |-> [x \in Data |-> Older(@[h][x])]]]

Switcher(d) ==
    [d EXCEPT !.p = Other(@), !.read = {},
              !.text = [f \in File |-> Older(@[f])],
              !.buf = [h \in Half |-> [x \in Data |-> Older(@[h][x])]]]

-----------------------------------------------------------------------------
(* Start-up                                                                 *)

\* go_background: what a recording contains
Background == {"res", "smp", "disk", "jfs", "memory", "large", "kernel", "net", "vm"}

EmptyDb ==
    [p |-> 0, read |-> {}, cpu_done |-> FALSE,
     text |-> [f \in File |-> Never],
     buf |-> [h \in Half |-> [x \in Data |-> Never]],
     err |-> [h \in Half |-> 0]]

\* the samples taken before the first loop
StartDb(m) ==
    LET cpu == [ProcRead(ProcRead(ProcRead(EmptyDb, "stat"), "uptime"), "loadavg")
                  EXCEPT !.buf = [h \in Half |-> [@[h] EXCEPT !["cpu"] = 0]],
                         !.cpu_done = TRUE]
        net == CopyToPrevious(ProcNet(CopyToPrevious(ProcDisk(cpu), "disk")), "net")
    IN  IF m = "screen" THEN net ELSE ProcMem(ReadVmstat(net))

\* the header of the spreadsheet
Header(sh, n) ==
    ({"CPU"} \X (1 .. n)) \cup ({"CPU_ALL", "MEM", "PROC", "NET", "DISK", "JFSFILE"} \X {0})
      \cup {<<"MHZ", 0>> : s \in sh \cap {"mhz"}}
      \cup {<<"DG", 0>> : s \in sh \cap {"dgroup"}}
      \cup {<<"TOP", 0>> : s \in sh \cap {"top"}}

Init ==
    /\ session \in Sessions
    /\ missing = session.missing
    /\ late = FALSE
    /\ shown = IF mode = "screen" THEN session.options \ {"dgroup"}
               ELSE session.options \cup Background
    /\ was = {} /\ now = {}
    /\ first = {"smp", "wide", "util", "vm", "nfs", "disk", "top", "proc", "huge"}
    /\ cpus \in session.cpus /\ old_cpus = cpus /\ max_cpus = cpus
    /\ errNow = 0 /\ show_neterror = 0
    /\ db = Switcher(StartDb(mode))
    /\ heads = IF mode = "file" THEN Header(shown, cpus) ELSE {}
    /\ rows = {}
    /\ rep = NoRep
    /\ pc = "begin"

-----------------------------------------------------------------------------
(* The loop                                                                 *)

\* top of the loop: time stamps, and get_cpu_cnt, which reads /proc/stat
Begin ==
    /\ pc = "begin"
    /\ old_cpus' = cpus
    /\ cpus' \in session.cpus
    /\ db' = ProcRead(db, "stat")
    /\ missing' \in {missing, missing \ {"nfs"}}
    /\ late' = (late \/ missing' # missing)
    /\ now' = shown /\ was' = now
    /\ errNow' \in {e \in {errNow, errNow + 1} : e <= MaxErr}
    /\ rows' = {}
    /\ rep' = NoRep
    /\ pc' = FirstActive(1, shown)
    /\ UNCHANGED <<session, shown, first, max_cpus, show_neterror, heads>>

\* what every section leaves alone
Frame == UNCHANGED <<session, missing, late, now, was, old_cpus, cpus, errNow>>

At(s) == pc = s /\ pc' = Follow(s, shown) /\ Frame

Rate(d, s, x) ==
    rep' = [sec |-> s, new |-> d.buf[d.p][x], old |-> d.buf[Other(d.p)][x]]

Record(hs, rs) ==
    /\ heads' = IF mode = "file" THEN heads \cup hs ELSE heads
    /\ rows' = IF mode = "file" THEN rows \cup rs ELSE rows

Help ==
    /\ At("help")
    /\ rep' = NoRep
    /\ UNCHANGED <<shown, first, db, max_cpus, show_neterror, fileVars>>

\* the resources are static: only /proc texts are read
Res ==
    /\ At("res")
    /\ db' = IF mode = "screen" THEN ProcRead(ProcRead(db, "cpuinfo"), "version") ELSE db
    /\ rep' = NoRep
    /\ UNCHANGED <<shown, first, max_cpus, show_neterror, fileVars>>

\* the long-term graph is drawn from the first time on
Longterm ==
    /\ At("longterm")
    /\ db' = ReadCpu(db)
    /\ Rate(db', "longterm", "cpu")
    /\ UNCHANGED <<shown, first, max_cpus, show_neterror, fileVars>>

\* mutant: no headings for new CPUs
CpuReadNoHeading ==
    /\ At("cpuread")
    /\ db' = ReadCpu(db)
    /\ rep' = NoRep
    /\ UNCHANGED <<shown, first, max_cpus, show_neterror, fileVars>>

\* sample for smp, wide and verbose; a recording gets headings of new CPUs
CpuRead ==
    /\ At("cpuread")
    /\ db' = ReadCpu(db)
    /\ IF cpus > max_cpus /\ mode # "screen"
       THEN max_cpus' = cpus /\ Record({"CPU"} \X ((max_cpus + 1) .. cpus), {})
       ELSE UNCHANGED <<max_cpus, fileVars>>
    /\ rep' = NoRep
    /\ UNCHANGED <<shown, first, show_neterror>>

Smp ==
    /\ At("smp")
    /\ IF "smp" \in first /\ mode = "screen" THEN rep' = NoRep ELSE Rate(db, "smp", "cpu")
    /\ first' = first \ {"smp"}
    /\ Record({}, ({"CPU"} \X (1 .. cpus)) \cup {<<"CPU_ALL", 0>>})
    /\ UNCHANGED <<shown, db, max_cpus, show_neterror>>

Wide ==
    /\ At("wide")
    /\ IF "wide" \in first THEN rep' = NoRep ELSE Rate(db, "wide", "cpu")
    /\ first' = first \ {"wide"}
    /\ db' = ReadCpu(db)
    /\ UNCHANGED <<shown, max_cpus, show_neterror, fileVars>>

\* The headings are written once, for the CPUs there are then and numbered from
\* 1; the rows are numbered from 0.
Util ==
    /\ At("util")
    /\ db' = ReadCpu(db)
    /\ IF "util" \in first /\ mode = "screen" THEN rep' = NoRep ELSE Rate(db', "util", "cpu")
    /\ Record(IF "util" \in first THEN {<<"CPUUTIL_ALL", 0>>} \cup ({"CPUUTIL"} \X (1 .. cpus))
                                  ELSE {},
              {<<"CPUUTIL_ALL", 0>>} \cup ({"CPUUTIL"} \X (0 .. (cpus - 1))))
    /\ first' = first \ {"util"}
    /\ UNCHANGED <<shown, max_cpus, show_neterror>>

Mhz ==
    /\ At("mhz")
    /\ db' = ProcRead(db, "cpuinfo")
    /\ Record({}, {<<"MHZ", 0>>})
    /\ rep' = NoRep
    /\ UNCHANGED <<shown, first, max_cpus, show_neterror>>

\* memory figures are counts, not rates: only the current half is used
Memory ==
    /\ At("memory")
    /\ db' = ProcMem(ProcRead(db, "meminfo"))
    /\ rep' = [sec |-> "memory", new |-> db'.buf[db.p]["mem"], old |-> 0]
    /\ Record({}, {<<"MEM", 0>>})
    /\ UNCHANGED <<shown, first, max_cpus, show_neterror>>

Large ==
    /\ At("large")
    /\ db' = ProcMem(ProcRead(db, "meminfo"))
    /\ \E hugetotal \in {0, 1} :
         IF hugetotal > 0 /\ mode # "screen"
         THEN /\ Record({<<"HUGEPAGES", 0>> : f \in first \cap {"huge"}}, {<<"HUGEPAGES", 0>>})
              /\ first' = first \ {"huge"}
         ELSE UNCHANGED <<fileVars, first>>
    /\ rep' = NoRep
    /\ UNCHANGED <<shown, max_cpus, show_neterror>>

\* a screen waits the first time, a recording writes the heading; without
\* /proc/vmstat a recording writes one row and switches the section off
Vm ==
    /\ At("vm")
    /\ db' = ReadVmstat(db)
    /\ first' = IF VmFails(db) THEN first ELSE first \ {"vm"}
    /\ shown' = IF VmFails(db) /\ mode # "screen" THEN shown \ {"vm"} ELSE shown
    /\ Record({<<"VM", 0>> : f \in (first \ first') \cap {"vm"}}, {<<"VM", 0>>})
    /\ IF VmFails(db) \/ ("vm" \in first /\ mode = "screen")
       THEN rep' = NoRep
       ELSE Rate(db', "vm", "vm")
    /\ UNCHANGED <<max_cpus, show_neterror>>

\* a recording equates the two samples the first time
Kernel ==
    /\ At("kernel")
    /\ LET d == ProcRead(ProcRead(ReadCpu(db), "uptime"), "loadavg")
           copied == mode # "screen" /\ "proc" \in first
       IN  /\ db' = d
           /\ IF copied
              THEN rep' = [sec |-> "kernel", new |-> d.buf[d.p]["cpu"], old |-> 0]
              ELSE Rate(d, "kernel", "cpu")
           /\ first' = IF copied THEN first \ {"proc"} ELSE first
    /\ Record({}, {<<"PROC", 0>>})
    /\ UNCHANGED <<shown, max_cpus, show_neterror>>

\* the first time the sample is copied to the previous half, and the
\* headings of what is found are written; not so for rrd
Nfs ==
    /\ At("nfs")
    /\ LET d == ProcNfs(db)
           start == "nfs" \in first /\ mode # "rrd"
       IN  /\ db' = IF start THEN CopyToPrevious(d, "nfs") ELSE d
           /\ first' = IF start THEN first \ {"nfs"} ELSE first
           /\ IF NfsFound
              THEN /\ Rate(db', "nfs", "nfs")
                   /\ Record({<<"NFS", 0>> : s \in {"nfs"} \cap {f \in first : start}},
                             {<<"NFS", 0>>})
              ELSE rep' = NoRep /\ UNCHANGED fileVars
    /\ UNCHANGED <<shown, max_cpus, show_neterror>>

Net ==
    /\ At("net")
    /\ db' = ProcNet(db)
    /\ Rate(db', "net", "net")
    /\ Record({}, {<<"NET", 0>>})
    /\ UNCHANGED <<shown, first, max_cpus, show_neterror>>

\* executed in every loop: new errors show the counters for three loops
NetError ==
    /\ At("neterr")
    /\ LET n == IF db.err[0] # db.err[1] THEN 3 ELSE show_neterror
       IN  show_neterror' = IF n > 0 THEN n - 1 ELSE n
    /\ rep' = NoRep
    /\ UNCHANGED <<shown, first, db, max_cpus, fileVars>>

Jfs ==
    /\ At("jfs")
    /\ Record({}, {<<"JFSFILE", 0>>})
    /\ rep' = NoRep
    /\ UNCHANGED <<shown, first, db, max_cpus, show_neterror>>

DiskRead ==
    /\ At("diskread")
    /\ db' = ProcDisk(ProcRead(db, "stat"))
    /\ rep' = NoRep
    /\ UNCHANGED <<shown, first, max_cpus, show_neterror, fileVars>>

\* disk_first_time is shared by the map, the disks and the disk groups
Waits == "disk" \in first /\ mode = "screen"
DiskRate(s) == IF Waits THEN rep' = NoRep ELSE Rate(db, s, "disk")
Waited == IF mode = "screen" THEN first \ {"disk"} ELSE first

Diskmap ==
    /\ At("diskmap")
    /\ DiskRate("diskmap")
    /\ first' = Waited
    /\ UNCHANGED <<shown, db, max_cpus, show_neterror, fileVars>>

Verbose ==
    /\ At("verbose")
    /\ Rate(db, "verbose", "disk")
    /\ UNCHANGED <<shown, first, db, max_cpus, show_neterror, fileVars>>

Disk ==
    /\ At("disk")
    /\ DiskRate("disk")
    /\ first' = Waited
    /\ Record({}, {<<"DISK", 0>>})
    /\ UNCHANGED <<shown, db, max_cpus, show_neterror>>

\* a screen started without -g has no groups to show
Dgroup ==
    /\ At("dgroup")
    /\ IF "dgroup" \in session.options
       THEN DiskRate("dgroup") /\ first' = Waited
       ELSE rep' = NoRep /\ UNCHANGED first
    /\ Record({}, {<<"DG", 0>>})
    /\ UNCHANGED <<shown, db, max_cpus, show_neterror>>

\* a process is listed when both tables have it
Top ==
    /\ At("top")
    /\ db' = GetProcs(db)
    /\ IF ("top" \in first /\ mode = "screen") \/ db.buf[Other(db.p)]["procs"] = Never
       THEN rep' = NoRep /\ UNCHANGED fileVars
       ELSE Rate(db', "top", "procs") /\ Record({}, {<<"TOP", 0>>})
    /\ first' = IF mode = "screen" THEN first \ {"top"} ELSE first
    /\ UNCHANGED <<shown, max_cpus, show_neterror>>

\* keys typed while the screen waits
Flip(s) == IF s \in shown THEN shown \ {s} ELSE shown \cup {s}
Press(s) ==
    /\ pc = "end"
    /\ s \in session.keys
    /\ shown' \in CASE s = "help" /\ s \notin shown -> {Flip(s) \ {"verbose"}}
                    [] s \in {"nfs", "mhz", "disk"} /\ s \in shown -> {shown, Flip(s)}
                    [] OTHER -> {Flip(s)}
    /\ show_neterror' = IF s = "net" THEN (IF s \in shown THEN 0 ELSE 3) ELSE show_neterror
    /\ rep' = NoRep
    /\ UNCHANGED <<session, missing, late, now, was, first, pc, db, cpuVars, errNow, fileVars>>

\* end of the wait: the halves change places
Switch ==
    /\ pc = "end"
    /\ db' = Switcher(db)
    /\ pc' = "begin"
    /\ rep' = NoRep
    /\ UNCHANGED <<session, missing, late, flagVars, cpuVars, netVars, fileVars>>

SectionStep ==
    \/ Help \/ Res \/ Longterm \/ CpuRead \/ Smp \/ Wide \/ Util \/ Mhz \/ Memory \/ Large
    \/ Vm \/ Kernel \/ Nfs \/ Net \/ NetError \/ Jfs \/ DiskRead \/ Diskmap \/ Verbose
    \/ Disk \/ Dgroup \/ Top

Next == Begin \/ SectionStep \/ Switch \/ \E s \in Sections : Press(s)

Spec == Init /\ [][Next]_vars

\* the loop runs for ever; a user need not press anything
FairSpec == Spec /\ WF_vars(Begin \/ SectionStep \/ Switch)

-----------------------------------------------------------------------------
(* Properties                                                               *)

TypeOK ==
    /\ session \in Sessions
    /\ missing \subseteq File /\ late \in BOOLEAN
    /\ shown \subseteq Sections /\ now \subseteq Sections /\ was \subseteq Sections
    /\ pc \in Range(Order) \cup {"begin"}
    /\ db \in [p : Half, read : SUBSET File, cpu_done : BOOLEAN, text : [File -> Age],
               buf : [Half -> [Data -> Age]], err : [Half -> 0 .. MaxErr]]
    /\ {cpus, old_cpus, max_cpus} \subseteq session.cpus
    /\ errNow \in 0 .. MaxErr /\ show_neterror \in 0 .. 3
    /\ rep \in [sec : Sections \cup {"none"}, new : Age, old : Age]

\* counters of a file that appeared late have no previous sample
NoPrevious == rep.sec = "nfs" /\ rep.old = Never

\* What a recording contains is the change over the last interval, from its
\* first interval on: the comment at app/lmon16f.c:4727 (initialise all data
\* sets "so we do not get incorrect data for the first reported interval").
\* What the screen shows is always a sample of this loop, and from the second
\* loop after a section is switched on the change over the last interval,
\* although sections share samples, /proc texts and first-time flags.
RateIsOfInterval ==
    /\ TypeOK
    /\ rep.sec # "none" =>
        rep.new = 0 /\ (mode # "screen" \/ rep.sec \in was => rep.old <= 1 \/ NoPrevious)

\* Rows that come without a heading: VM when /proc/vmstat is missing, NFS when
\* it starts late, and CPUUTIL of CPU 0, which the headings leave out, and of the
\* CPUs that are not there all the time.
Excused(r) ==
    \/ r = <<"VM", 0>> /\ "vmstat" \in missing
    \/ r = <<"NFS", 0>> /\ late
    \/ r[1] = "CPUUTIL" /\ (r[2] = 0 \/ \E n \in session.cpus : n < r[2])

\* Any other row of a recording comes after its heading: the CPU%03d row of a
\* CPU that is added while nmon runs too, and the rows whose headings are only
\* written with the first of them.
HeadingBeforeRow == \A r \in rows : r \in heads \/ Excused(r)

\* While the network section is on, the error counters that appear with new
\* errors go away again.
ErrorsFade == <>[]("net" \in shown) => []<>(show_neterror = 0)
=============================================================================
