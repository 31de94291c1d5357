--------------------------- MODULE LoadSystemProofs ---------------------------
(* Proofs about LoadSystem, for any number of interfaces and any readings.  *)
EXTENDS LoadSystem, TLAPS

-----------------------------------------------------------------------------
(* The inductive invariants.                                                *)

\* The points of system_net_proc before its loop, and those of the loop from
\* the exchange of the buffers on.
Starting == {"s_net", "s_cpu", "s_mem"}
InInterval == {"net", "loop", "share", "mem", "total", "free"}

\* Buffer b holds the lines of the reading rx in its first slots.
Holds(b, rx) == \A k \in 1 .. Len(rx) : ifnets[b][k] = rx[k]

\* data_switcher's static is behind p once, before the first exchange, which
\* exchanges nothing; until then both buffers are alike.
SwitchInv ==
    /\ spc \in Starting => which = 1 - p
    /\ spc \in InInterval => which = p
    /\ (spc \in Starting \/ (spc = "sleep" /\ which # p)) => ~sampled

\* The buffer that /proc/net/dev was read into last holds that reading, the
\* other one the reading before.
NetInv ==
    /\ Len(lastRx[2]) = networks
    /\ Len(lastRx[1]) <= NetMax
    /\ spc \in {"s_cpu", "s_mem"} => Holds(0, lastRx[2]) /\ Holds(1, lastRx[2])
    /\ spc = "sleep" => Holds(p, lastRx[2])
    /\ (spc = "sleep" /\ which # p) => Holds(q, lastRx[2])
    /\ spc = "net" => Holds(q, lastRx[2])
    /\ spc \in InInterval \ {"net"} =>
         Holds(p, lastRx[2]) /\ Holds(q, lastRx[1])

\* The rate left by the interfaces that the loop is through with.
RateInv ==
    (spc = "loop" /\ i > 1 /\ i - 1 <= networks
       /\ Len(lastRx[1]) = Len(lastRx[2])) =>
        uplink = IF lastRx[1][i - 1] > lastRx[2][i - 1] THEN 0
                 ELSE lastRx[2][i - 1] - lastRx[1][i - 1]

LoopInv == spc = "loop" => i - 1 <= networks

\* The same for /proc/stat, whose copy may be read again in each interval.
CpuInv ==
    /\ spc \in {"s_net", "s_cpu"} => read = {}
    /\ spc \in {"net", "loop"} => "stat" \notin read
    /\ spc = "s_mem" => \A b \in {0, 1} : cpu_total[b] = lastCpu[2]
    /\ spc = "sleep" => cpu_total[p] = lastCpu[2]
    /\ (spc = "sleep" /\ which # p) => cpu_total[q] = lastCpu[2]
    /\ spc \in {"net", "loop"} => cpu_total[q] = lastCpu[2]
    /\ spc \in {"share", "mem", "total", "free"} =>
         /\ cpu_total[p] = lastCpu[2]
         /\ cpu_total[q] = lastCpu[1]
         /\ lastCpu[1] # lastCpu[2]

\* Once a sample is published the total is, and stays, that of the machine; so
\* is the copy of it of a request that came after.
MemInv ==
    /\ spc = "free" => mem_total = MemTotal
    /\ sampled => mem_total = MemTotal
    /\ (settled /\ hpc = "read") => memtotal = MemTotal


-----------------------------------------------------------------------------
(* Facts about the operators.                                               *)

USE SystemAssumption

\* The rounds of the clock between two of its values are a number below its
\* modulus, and 0 only between a value and itself.
LEMMA SinceRange ==
    ASSUME NEW a \in 0 .. CpuMod - 1, NEW b \in 0 .. CpuMod - 1
    PROVE  Since(a, b) \in Nat /\ (Since(a, b) = 0 => a = b)
<1>1. (a - b) % CpuMod = IF a >= b THEN a - b ELSE a - b + CpuMod
    OBVIOUS
<1> QED
    BY <1>1 DEF Since

\* A number below the modulus is its own remainder.
LEMMA SmallMod ==
    ASSUME NEW n \in Nat, NEW m \in Nat, n < m
    PROVE  n % m = n
OBVIOUS

\* Two readings of the clock differ in one of their counters.
LEMMA TimesDiffer ==
    ASSUME NEW a \in Time, NEW b \in Time, a # b
    PROVE  a.idle # b.idle \/ a.busy # b.busy
<1>1. a = [idle |-> a.idle, busy |-> a.busy] /\ b = [idle |-> b.idle, busy |-> b.busy]
    BY DEF Time
<1> QED
    BY <1>1

\* A first part of a table is a table of that length.
LEMMA Prefix ==
    ASSUME NEW t \in Seq(Nat), NEW n \in 0 .. Len(t)
    PROVE  /\ SubSeq(t, 1, n) \in Seq(Nat)
           /\ Len(SubSeq(t, 1, n)) = n
           /\ \A k \in 1 .. n : SubSeq(t, 1, n)[k] = t[k]
OBVIOUS

\* What reading /proc/net/dev into the buffers bufs does to them.
LEMMA ProcNetFacts ==
    ASSUME TypeOK, NEW bufs \in SUBSET {0, 1}, NEW now \in Tables,
           ProcNet(bufs, now)
    PROVE  /\ networks' \in 0 .. NetMax
           /\ ifnets' \in [{0, 1} -> [Slots -> Nat \cup {Undef}]]
           /\ lastRx' \in Seq(Nat) \X Seq(Nat)
           /\ lastRx'[1] = lastRx[2]
           /\ Len(lastRx'[2]) = networks'
           /\ \A b \in bufs, k \in 1 .. networks' : ifnets'[b][k] = lastRx'[2][k]
           /\ \A b \in {0, 1} \ bufs : ifnets'[b] = ifnets[b]
<1>1. now \in Seq(Nat) /\ Len(now) \in Nat
    OBVIOUS
<1>2. networks' \in 0 .. NetMax /\ networks' \in 0 .. Len(now)
    BY <1>1 DEF ProcNet
<1>3. /\ SubSeq(now, 1, networks') \in Seq(Nat)
      /\ Len(SubSeq(now, 1, networks')) = networks'
      /\ \A k \in 1 .. networks' : SubSeq(now, 1, networks')[k] = now[k]
    BY <1>1, <1>2, Prefix
<1>4. /\ lastRx' = <<lastRx[2], SubSeq(now, 1, networks')>>
      /\ lastRx[2] \in Seq(Nat)
    BY DEF ProcNet, TypeOK
<1>5. \A k \in 1 .. networks' : now[k] \in Nat /\ k \in Slots
    BY <1>1, <1>2 DEF Slots
<1>6. ifnets' = [b \in {0, 1} |-> [k \in Slots |->
                    IF b \in bufs /\ k <= networks' THEN now[k]
                                                    ELSE ifnets[b][k]]]
    BY DEF ProcNet
<1>7. ifnets' \in [{0, 1} -> [Slots -> Nat \cup {Undef}]]
  <2>1. \A k \in Slots : k <= networks' => now[k] \in Nat
      BY <1>5, <1>2 DEF Slots
  <2> QED
      BY <1>6, <2>1 DEF TypeOK
<1>8. \A b \in bufs, k \in 1 .. networks' : ifnets'[b][k] = lastRx'[2][k]
  <2> TAKE b \in bufs, k \in 1 .. networks'
  <2>1. k \in Slots /\ k <= networks' /\ b \in {0, 1}
      BY <1>2, <1>5
  <2>2. ifnets'[b][k] = now[k]
      BY <1>6, <2>1
  <2>3. lastRx'[2][k] = now[k]
      BY <1>3, <1>4
  <2> QED
      BY <2>2, <2>3
<1>9. \A b \in {0, 1} \ bufs : ifnets'[b] = ifnets[b]
    BY <1>6 DEF TypeOK
<1> QED
    BY <1>2, <1>3, <1>4, <1>7, <1>8, <1>9

-----------------------------------------------------------------------------
(* Type correctness.                                                        *)

\* Each step of the sampler and of the handler keeps every variable in its
\* type: the loop stays within the slots, and what it computes with was read.
LEMMA TypeStep ==
    TypeOK /\ NetInv /\ [Next]_vars => TypeOK'
<1> SUFFICES ASSUME TypeOK, NetInv, [Next]_vars PROVE TypeOK'
    OBVIOUS
<1> USE DEF TypeOK, vars, bufVars, fileVars, pubVars, handVars, histVars
<1>1. CASE StartNet
  <2> PICK now \in Tables : ProcNet({0, 1}, now)
      BY <1>1 DEF StartNet
  <2>1. /\ networks' \in 0 .. NetMax
        /\ ifnets' \in [{0, 1} -> [Slots -> Nat \cup {Undef}]]
        /\ lastRx' \in Seq(Nat) \X Seq(Nat)
      BY ProcNetFacts
  <2> QED
      BY <1>1, <2>1 DEF StartNet
<1>2. CASE StartCpu
  <2> PICK now \in Time : ProcCpu({0, 1}, now)
      BY <1>2 DEF StartCpu
  <2>1. /\ stat' \in Time /\ cpu_total' \in [{0, 1} -> Time]
        /\ lastCpu' \in Time \X Time
      BY DEF ProcCpu, ProcRead
  <2> QED
      BY <1>2, <2>1 DEF StartCpu, ProcCpu
<1>3. CASE StartMem
  <2> PICK now \in Memory : ProcMem(now)
      BY <1>3 DEF StartMem
  <2> QED
      BY <1>3 DEF StartMem, ProcMem, ProcRead
<1>4. CASE StartFault
    BY <1>4 DEF StartFault
<1>5. CASE Switch
    BY <1>5 DEF Switch
<1>6. CASE NetRead
  <2> PICK now \in Tables : ProcNet({p}, now)
      BY <1>6 DEF NetRead
  <2>1. /\ networks' \in 0 .. NetMax
        /\ ifnets' \in [{0, 1} -> [Slots -> Nat \cup {Undef}]]
        /\ lastRx' \in Seq(Nat) \X Seq(Nat)
      BY ProcNetFacts
  <2> QED
      BY <1>6, <2>1 DEF NetRead
<1>7. CASE NetStore
  <2>1. ifnets[p][i] \in Nat
    <3>1. i \in 1 .. Len(lastRx[2]) /\ lastRx[2] \in Seq(Nat)
        BY <1>7 DEF NetStore, NetInv
    <3>2. ifnets[p][i] = lastRx[2][i]
        BY <1>7, <3>1 DEF NetStore, NetInv, Holds, InInterval
    <3> QED
        BY <3>1, <3>2
  <2>2. i + 1 \in 1 .. NetMax + 1
      BY <1>7 DEF NetStore
  <2>3. ifnets[q][i] \in Nat \cup {Undef}
    <3>1. i \in Slots /\ q \in {0, 1}
        BY <1>7 DEF NetStore, q, Slots
    <3> QED
        BY <3>1
  <2>4. uplink' \in Nat
      BY <1>7, <2>1, <2>3 DEF NetStore, IfDelta
  <2> QED
      BY <1>7, <2>2, <2>4 DEF NetStore
<1>8. CASE CpuRead
  <2> PICK now \in Time : ProcCpu({p}, now)
      BY <1>8 DEF CpuRead
  <2>1. /\ stat' \in Time /\ cpu_total' \in [{0, 1} -> Time]
        /\ lastCpu' \in Time \X Time
      BY DEF ProcCpu, ProcRead
  <2> QED
      BY <1>8, <2>1 DEF CpuRead, ProcCpu
<1>9. CASE CpuStore
  <2>1. q \in {0, 1}
      BY DEF q
  <2>2. /\ Since(cpu_total[p].idle, cpu_total[q].idle) \in Nat
        /\ Since(cpu_total[p].busy, cpu_total[q].busy) \in Nat
      BY <2>1, SinceRange DEF Time
  <2> QED
      BY <1>9, <2>2, SMTT(40) DEF CpuStore
<1>10. CASE MemRead
  <2> PICK now \in Memory : ProcMem(now)
      BY <1>10 DEF MemRead
  <2> QED
      BY <1>10 DEF MemRead, ProcMem, ProcRead
<1>11. CASE MemTotalStore
    BY <1>11 DEF MemTotalStore
<1>12. CASE MemFreeStore
    BY <1>12 DEF MemFreeStore
<1>13. CASE ReadTotal
    BY <1>13 DEF ReadTotal
<1>14. CASE ReadFree
  <2>1. memtotal - mem_free \in Int
      OBVIOUS
  <2>2. (memtotal - mem_free) % MemMod \in 0 .. MemMod - 1
      BY <2>1
  <2> QED
      BY <1>14, <2>2 DEF ReadFree
<1>15. CASE UNCHANGED vars
    BY <1>15
<1> QED
    BY <1>1, <1>2, <1>3, <1>4, <1>5, <1>6, <1>7, <1>8, <1>9, <1>10, <1>11, <1>12, <1>13, <1>14, <1>15 DEF Next, SystemStep

-----------------------------------------------------------------------------
(* The double buffer.                                                       *)

\* data_switcher's static follows p from the first exchange on.
LEMMA SwitchStep ==
    TypeOK /\ SwitchInv /\ [Next]_vars => SwitchInv'
<1> SUFFICES ASSUME TypeOK, SwitchInv, [Next]_vars PROVE SwitchInv'
    OBVIOUS
<1> USE DEF TypeOK, SwitchInv, Starting, InInterval, vars, bufVars, fileVars, pubVars, handVars, histVars
<1>1. CASE StartNet
    BY <1>1 DEF StartNet
<1>2. CASE StartCpu
    BY <1>2 DEF StartCpu
<1>3. CASE StartMem
    BY <1>3 DEF StartMem
<1>4. CASE StartFault
    BY <1>4 DEF StartFault
<1>5. CASE Switch
    BY <1>5 DEF Switch
<1>6. CASE NetRead
    BY <1>6 DEF NetRead
<1>7. CASE NetStore
    BY <1>7 DEF NetStore
<1>8. CASE CpuRead
    BY <1>8 DEF CpuRead
<1>9. CASE CpuStore
    BY <1>9 DEF CpuStore
<1>10. CASE MemRead
    BY <1>10 DEF MemRead
<1>11. CASE MemTotalStore
    BY <1>11 DEF MemTotalStore
<1>12. CASE MemFreeStore
    BY <1>12 DEF MemFreeStore
<1>13. CASE ReadTotal
    BY <1>13 DEF ReadTotal
<1>14. CASE ReadFree
    BY <1>14 DEF ReadFree
<1>15. CASE UNCHANGED vars
    BY <1>15
<1> QED
    BY <1>1, <1>2, <1>3, <1>4, <1>5, <1>6, <1>7, <1>8, <1>9, <1>10, <1>11, <1>12, <1>13, <1>14, <1>15 DEF Next, SystemStep

\* The two buffers keep holding the last two readings of /proc/net/dev.
LEMMA NetStep ==
    TypeOK /\ SwitchInv /\ NetInv /\ [Next]_vars => NetInv'
<1> SUFFICES ASSUME TypeOK, SwitchInv, NetInv, [Next]_vars PROVE NetInv'
    OBVIOUS
<1> USE DEF TypeOK, SwitchInv, NetInv, Holds, q, Starting, InInterval, vars, bufVars, fileVars, pubVars, handVars, histVars
<1>1. CASE StartNet
  <2> PICK now \in Tables : ProcNet({0, 1}, now)
      BY <1>1 DEF StartNet
  <2>1. /\ lastRx'[1] = lastRx[2] /\ Len(lastRx'[2]) = networks'
        /\ \A b \in {0, 1}, k \in 1 .. networks' : ifnets'[b][k] = lastRx'[2][k]
        /\ \A b \in {0, 1} \ {0, 1} : ifnets'[b] = ifnets[b]
      BY ProcNetFacts
  <2> QED
      BY <1>1, <2>1 DEF StartNet
<1>2. CASE StartCpu
    BY <1>2 DEF StartCpu
<1>3. CASE StartMem
    BY <1>3, SMTT(40) DEF StartMem
<1>4. CASE StartFault
    BY <1>4 DEF StartFault
<1>5. CASE Switch
    BY <1>5 DEF Switch
<1>6. CASE NetRead
  <2> PICK now \in Tables : ProcNet({p}, now)
      BY <1>6 DEF NetRead
  <2>1. /\ lastRx'[1] = lastRx[2] /\ Len(lastRx'[2]) = networks'
        /\ \A b \in {p}, k \in 1 .. networks' : ifnets'[b][k] = lastRx'[2][k]
        /\ \A b \in {0, 1} \ {p} : ifnets'[b] = ifnets[b]
    <3>1. {p} \in SUBSET {0, 1}
        OBVIOUS
    <3> HIDE DEF TypeOK
    <3> QED
        BY <3>1, ProcNetFacts
  <2>2. p' = p /\ q \in {0, 1} \ {p} /\ which = p
      BY <1>6 DEF NetRead
  <2>3. Holds(p, lastRx[2])' /\ Holds(q, lastRx[1])'
      BY <1>6, <2>1, <2>2, SMTT(40) DEF NetRead
  <2>4. networks' \in 0 .. NetMax /\ Len(lastRx[1])' <= NetMax
      BY <1>6, <2>1 DEF ProcNet
  <2> QED
      BY <1>6, <2>1, <2>2, <2>3, <2>4 DEF NetRead
<1>7. CASE NetStore
    BY <1>7 DEF NetStore
<1>8. CASE CpuRead
    BY <1>8 DEF CpuRead
<1>9. CASE CpuStore
    BY <1>9 DEF CpuStore
<1>10. CASE MemRead
    BY <1>10 DEF MemRead
<1>11. CASE MemTotalStore
    BY <1>11 DEF MemTotalStore
<1>12. CASE MemFreeStore
    BY <1>12 DEF MemFreeStore
<1>13. CASE ReadTotal
    BY <1>13 DEF ReadTotal
<1>14. CASE ReadFree
    BY <1>14 DEF ReadFree
<1>15. CASE UNCHANGED vars
    BY <1>15
<1> QED
    BY <1>1, <1>2, <1>3, <1>4, <1>5, <1>6, <1>7, <1>8, <1>9, <1>10, <1>11, <1>12, <1>13, <1>14, <1>15 DEF Next, SystemStep

\* The loop over the interfaces stops behind the last one.
LEMMA LoopStep ==
    TypeOK /\ LoopInv /\ [Next]_vars => LoopInv'
<1> SUFFICES ASSUME TypeOK, LoopInv, [Next]_vars PROVE LoopInv'
    OBVIOUS
<1> USE DEF TypeOK, LoopInv, vars, bufVars, fileVars, pubVars, handVars, histVars
<1>1. CASE StartNet
    BY <1>1 DEF StartNet
<1>2. CASE StartCpu
    BY <1>2 DEF StartCpu
<1>3. CASE StartMem
    BY <1>3 DEF StartMem
<1>4. CASE StartFault
    BY <1>4 DEF StartFault
<1>5. CASE Switch
    BY <1>5 DEF Switch
<1>6. CASE NetRead
  <2> PICK now \in Tables : ProcNet({p}, now)
      BY <1>6 DEF NetRead
  <2>1. networks' \in Nat
    <3>1. now \in Seq(Nat) /\ Len(now) \in Nat
        OBVIOUS
    <3> QED
        BY <3>1 DEF ProcNet
  <2> QED
      BY <1>6, <2>1 DEF NetRead
<1>7. CASE NetStore
    BY <1>7 DEF NetStore
<1>8. CASE CpuRead
    BY <1>8 DEF CpuRead
<1>9. CASE CpuStore
    BY <1>9 DEF CpuStore
<1>10. CASE MemRead
    BY <1>10 DEF MemRead
<1>11. CASE MemTotalStore
    BY <1>11 DEF MemTotalStore
<1>12. CASE MemFreeStore
    BY <1>12 DEF MemFreeStore
<1>13. CASE ReadTotal
    BY <1>13 DEF ReadTotal
<1>14. CASE ReadFree
    BY <1>14 DEF ReadFree
<1>15. CASE UNCHANGED vars
    BY <1>15
<1> QED
    BY <1>1, <1>2, <1>3, <1>4, <1>5, <1>6, <1>7, <1>8, <1>9, <1>10, <1>11, <1>12, <1>13, <1>14, <1>15 DEF Next, SystemStep

\* What the loop over the interfaces stores is the rate of the one it is at.
LEMMA RateStep ==
    TypeOK /\ NetInv /\ RateInv /\ [Next]_vars => RateInv'
<1> SUFFICES ASSUME TypeOK, NetInv, RateInv, [Next]_vars PROVE RateInv'
    OBVIOUS
<1> USE DEF TypeOK, RateInv, vars, bufVars, fileVars, pubVars, handVars, histVars
<1>1. CASE StartNet
    BY <1>1 DEF StartNet
<1>2. CASE StartCpu
    BY <1>2 DEF StartCpu
<1>3. CASE StartMem
    BY <1>3 DEF StartMem
<1>4. CASE StartFault
    BY <1>4 DEF StartFault
<1>5. CASE Switch
    BY <1>5 DEF Switch
<1>6. CASE NetRead
    BY <1>6 DEF NetRead
<1>7. CASE NetStore
  <2>1. /\ i \in 1 .. Len(lastRx[2]) /\ lastRx[2] \in Seq(Nat)
        /\ lastRx[1] \in Seq(Nat)
      BY <1>7 DEF NetStore, NetInv
  <2>2. SUFFICES ASSUME Len(lastRx[1]) = Len(lastRx[2])
                 PROVE  uplink' = IF lastRx[1][i] > lastRx[2][i] THEN 0
                                  ELSE lastRx[2][i] - lastRx[1][i]
      BY <1>7 DEF NetStore
  <2>3. ifnets[p][i] = lastRx[2][i] /\ ifnets[q][i] = lastRx[1][i]
      BY <1>7, <2>1, <2>2 DEF NetStore, NetInv, Holds, InInterval
  <2>4. lastRx[1][i] \in Nat /\ lastRx[1][i] # Undef
      BY <2>1, <2>2, SMTT(40)
  <2> QED
      BY <1>7, <2>3, <2>4 DEF NetStore, IfDelta
<1>8. CASE CpuRead
    BY <1>8 DEF CpuRead
<1>9. CASE CpuStore
    BY <1>9 DEF CpuStore
<1>10. CASE MemRead
    BY <1>10 DEF MemRead
<1>11. CASE MemTotalStore
    BY <1>11 DEF MemTotalStore
<1>12. CASE MemFreeStore
    BY <1>12 DEF MemFreeStore
<1>13. CASE ReadTotal
    BY <1>13 DEF ReadTotal
<1>14. CASE ReadFree
    BY <1>14 DEF ReadFree
<1>15. CASE UNCHANGED vars
    BY <1>15
<1> QED
    BY <1>1, <1>2, <1>3, <1>4, <1>5, <1>6, <1>7, <1>8, <1>9, <1>10, <1>11, <1>12, <1>13, <1>14, <1>15 DEF Next, SystemStep

-----------------------------------------------------------------------------
(* The idle share.                                                          *)

\* The two buffers keep holding the last two readings of /proc/stat, which is
\* read again in each interval.
LEMMA CpuStep ==
    TypeOK /\ SwitchInv /\ CpuInv /\ [Next]_vars => CpuInv'
<1> SUFFICES ASSUME TypeOK, SwitchInv, CpuInv, [Next]_vars PROVE CpuInv'
    OBVIOUS
<1> USE DEF TypeOK, SwitchInv, CpuInv, q, Starting, InInterval, vars, bufVars, fileVars, pubVars, handVars, histVars
<1>1. CASE StartNet
    BY <1>1 DEF StartNet
<1>2. CASE StartCpu
  <2> PICK now \in Time : ProcCpu({0, 1}, now)
      BY <1>2 DEF StartCpu
  <2>1. "stat" \notin read
      BY <1>2 DEF StartCpu
  <2>2. /\ lastCpu'[1] = lastCpu[2] /\ lastCpu'[2] = now
        /\ \A b \in {0, 1} : cpu_total'[b] = now
        /\ \A b \in {0, 1} \ {0, 1} : cpu_total'[b] = cpu_total[b]
      BY <2>1 DEF ProcCpu, ProcRead
  <2> QED
      BY <1>2, <2>2 DEF StartCpu
<1>3. CASE StartMem
  <2> PICK now \in Memory : ProcMem(now)
      BY <1>3 DEF StartMem
  <2> QED
      BY <1>3 DEF StartMem, ProcMem
<1>4. CASE StartFault
    BY <1>4 DEF StartFault
<1>5. CASE Switch
    BY <1>5 DEF Switch
<1>6. CASE NetRead
    BY <1>6 DEF NetRead
<1>7. CASE NetStore
    BY <1>7 DEF NetStore
<1>8. CASE CpuRead
  <2> PICK now \in Time \ {lastCpu[2]} : ProcCpu({p}, now)
      BY <1>8 DEF CpuRead
  <2>1. "stat" \notin read
      BY <1>8 DEF CpuRead
  <2>2. /\ lastCpu'[1] = lastCpu[2] /\ lastCpu'[2] = now
        /\ \A b \in {p} : cpu_total'[b] = now
        /\ \A b \in {0, 1} \ {p} : cpu_total'[b] = cpu_total[b]
      BY <2>1 DEF ProcCpu, ProcRead
  <2> QED
      BY <1>8, <2>2 DEF CpuRead
<1>9. CASE CpuStore
    BY <1>9 DEF CpuStore
<1>10. CASE MemRead
  <2> PICK now \in Memory : ProcMem(now)
      BY <1>10 DEF MemRead
  <2> QED
      BY <1>10 DEF MemRead, ProcMem
<1>11. CASE MemTotalStore
    BY <1>11 DEF MemTotalStore
<1>12. CASE MemFreeStore
    BY <1>12 DEF MemFreeStore
<1>13. CASE ReadTotal
    BY <1>13 DEF ReadTotal
<1>14. CASE ReadFree
    BY <1>14 DEF ReadFree
<1>15. CASE UNCHANGED vars
    BY <1>15
<1> QED
    BY <1>1, <1>2, <1>3, <1>4, <1>5, <1>6, <1>7, <1>8, <1>9, <1>10, <1>11, <1>12, <1>13, <1>14, <1>15 DEF Next, SystemStep

\* The idle share between the last two readings of /proc/stat is published, and
\* its denominator is not 0.
ShareInv ==
    (spc \in {"mem", "total", "free"} \/ (spc = "sleep" /\ sampled)) =>
        LET idle == Since(lastCpu[2].idle, lastCpu[1].idle)
            busy == Since(lastCpu[2].busy, lastCpu[1].busy)
        IN  cpu_idle = [idle |-> idle, sum |-> idle + busy]
            /\ cpu_idle.sum > 0

\* The share is computed from the two readings and published before the next.
LEMMA ShareStep ==
    TypeOK /\ SwitchInv /\ CpuInv /\ ShareInv /\ [Next]_vars => ShareInv'
<1> SUFFICES ASSUME TypeOK, SwitchInv, CpuInv, ShareInv, [Next]_vars PROVE ShareInv'
    OBVIOUS
<1> USE DEF TypeOK, SwitchInv, ShareInv, Starting, vars, bufVars, fileVars, pubVars, handVars, histVars
<1>1. CASE StartNet
    BY <1>1 DEF StartNet
<1>2. CASE StartCpu
    BY <1>2 DEF StartCpu
<1>3. CASE StartMem
    BY <1>3 DEF StartMem
<1>4. CASE StartFault
    BY <1>4 DEF StartFault
<1>5. CASE Switch
    BY <1>5 DEF Switch
<1>6. CASE NetRead
    BY <1>6 DEF NetRead
<1>7. CASE NetStore
    BY <1>7 DEF NetStore
<1>8. CASE CpuRead
    BY <1>8 DEF CpuRead
<1>9. CASE CpuStore
  <2> DEFINE idle == Since(lastCpu[2].idle, lastCpu[1].idle)
             busy == Since(lastCpu[2].busy, lastCpu[1].busy)
  <2>1. /\ lastCpu[1] \in Time /\ lastCpu[2] \in Time
        /\ lastCpu[1] # lastCpu[2]
      BY <1>9 DEF CpuStore, CpuInv
  <2>2. idle \in Nat /\ busy \in Nat
      BY <2>1, SinceRange DEF Time
  <2>3. \/ lastCpu[1].idle # lastCpu[2].idle
        \/ lastCpu[1].busy # lastCpu[2].busy
      BY <2>1, TimesDiffer
  <2>4. idle # 0 \/ busy # 0
      BY <2>1, <2>3, SinceRange DEF Time
  <2>5. cpu_idle' = [idle |-> idle, sum |-> idle + busy]
      BY <1>9 DEF CpuStore, CpuInv
  <2>6. cpu_idle'.sum > 0
    <3> HIDE DEF idle, busy
    <3> QED
        BY <2>2, <2>4, <2>5
  <2>7. lastCpu' = lastCpu
      BY <1>9 DEF CpuStore
  <2> QED
      BY <2>5, <2>6, <2>7
<1>10. CASE MemRead
    BY <1>10 DEF MemRead
<1>11. CASE MemTotalStore
    BY <1>11 DEF MemTotalStore
<1>12. CASE MemFreeStore
    BY <1>12 DEF MemFreeStore
<1>13. CASE ReadTotal
    BY <1>13 DEF ReadTotal
<1>14. CASE ReadFree
    BY <1>14 DEF ReadFree
<1>15. CASE UNCHANGED vars
    BY <1>15
<1> QED
    BY <1>1, <1>2, <1>3, <1>4, <1>5, <1>6, <1>7, <1>8, <1>9, <1>10, <1>11, <1>12, <1>13, <1>14, <1>15 DEF Next, SystemStep

-----------------------------------------------------------------------------
(* The memory that is reported.                                             *)

\* The total is never taken back.
LEMMA MemStep ==
    TypeOK /\ SwitchInv /\ MemInv /\ [Next]_vars => MemInv'
<1> SUFFICES ASSUME TypeOK, SwitchInv, MemInv, [Next]_vars PROVE MemInv'
    OBVIOUS
<1> USE DEF TypeOK, SwitchInv, MemInv, Starting, vars, bufVars, fileVars, pubVars, handVars, histVars
<1>1. CASE StartNet
    BY <1>1 DEF StartNet
<1>2. CASE StartCpu
    BY <1>2 DEF StartCpu
<1>3. CASE StartMem
    BY <1>3 DEF StartMem
<1>4. CASE StartFault
    BY <1>4 DEF StartFault
<1>5. CASE Switch
    BY <1>5 DEF Switch
<1>6. CASE NetRead
    BY <1>6 DEF NetRead
<1>7. CASE NetStore
    BY <1>7 DEF NetStore
<1>8. CASE CpuRead
    BY <1>8 DEF CpuRead
<1>9. CASE CpuStore
    BY <1>9 DEF CpuStore
<1>10. CASE MemRead
    BY <1>10 DEF MemRead
<1>11. CASE MemTotalStore
    BY <1>11 DEF MemTotalStore
<1>12. CASE MemFreeStore
    BY <1>12 DEF MemFreeStore
<1>13. CASE ReadTotal
    BY <1>13 DEF ReadTotal
<1>14. CASE ReadFree
    BY <1>14 DEF ReadFree
<1>15. CASE UNCHANGED vars
    BY <1>15
<1> QED
    BY <1>1, <1>2, <1>3, <1>4, <1>5, <1>6, <1>7, <1>8, <1>9, <1>10, <1>11, <1>12, <1>13, <1>14, <1>15 DEF Next, SystemStep

\* Whatever moment the free memory is read at, it is at most the total.
LEMMA AnswerStep ==
    TypeOK /\ MemInv /\ AnswerWithinTotal /\ [Next]_vars => AnswerWithinTotal'
<1> SUFFICES ASSUME TypeOK, MemInv, AnswerWithinTotal, [Next]_vars PROVE AnswerWithinTotal'
    OBVIOUS
<1> USE DEF TypeOK, MemInv, AnswerWithinTotal, vars, bufVars, fileVars, pubVars, handVars, histVars
<1>1. CASE StartNet
    BY <1>1 DEF StartNet
<1>2. CASE StartCpu
    BY <1>2 DEF StartCpu
<1>3. CASE StartMem
    BY <1>3 DEF StartMem
<1>4. CASE StartFault
    BY <1>4 DEF StartFault
<1>5. CASE Switch
    BY <1>5 DEF Switch
<1>6. CASE NetRead
    BY <1>6 DEF NetRead
<1>7. CASE NetStore
    BY <1>7 DEF NetStore
<1>8. CASE CpuRead
    BY <1>8 DEF CpuRead
<1>9. CASE CpuStore
    BY <1>9 DEF CpuStore
<1>10. CASE MemRead
    BY <1>10 DEF MemRead
<1>11. CASE MemTotalStore
    BY <1>11 DEF MemTotalStore
<1>12. CASE MemFreeStore
    BY <1>12 DEF MemFreeStore
<1>13. CASE ReadTotal
    BY <1>13 DEF ReadTotal
<1>14. CASE ReadFree
  <2>1. mem_free \in 0 .. MemTotal
      OBVIOUS
  <2>2. settled => memory' = (MemTotal - mem_free) % MemMod
      BY <1>14 DEF ReadFree
  <2>3. MemTotal - mem_free \in Nat /\ MemTotal - mem_free <= MemTotal
      BY <2>1
  <2>4. (MemTotal - mem_free) % MemMod = MemTotal - mem_free
    <3> DEFINE n == MemTotal - mem_free
    <3>1. n \in Nat /\ n < MemMod
        BY <2>3
    <3> HIDE DEF n
    <3>2. n % MemMod = n
        BY <3>1, SmallMod
    <3> QED
        BY <3>2 DEF n
  <2> QED
      BY <1>14, <2>2, <2>3, <2>4 DEF ReadFree
<1>15. CASE UNCHANGED vars
    BY <1>15
<1> QED
    BY <1>1, <1>2, <1>3, <1>4, <1>5, <1>6, <1>7, <1>8, <1>9, <1>10, <1>11, <1>12, <1>13, <1>14, <1>15 DEF Next, SystemStep

-----------------------------------------------------------------------------
(* The theorems.                                                            *)

Inv == /\ TypeOK /\ SwitchInv /\ NetInv /\ LoopInv /\ RateInv
       /\ CpuInv /\ ShareInv /\ MemInv /\ AnswerWithinTotal

\* All of the above holds throughout.
LEMMA Invariants == Spec => []Inv
<1>1. Init => Inv
  <2> SUFFICES ASSUME Init PROVE Inv
      OBVIOUS
  <2>1. TypeOK
    <3>1. Zero \in Time
        BY DEF Zero, Time
    <3>2. /\ ifnets \in [{0, 1} -> [Slots -> Nat \cup {Undef}]]
          /\ cpu_total \in [{0, 1} -> Time] /\ stat \in Time
          /\ lastCpu \in Time \X Time
        BY <3>1 DEF Init
    <3>3. lastRx \in Seq(Nat) \X Seq(Nat)
      <4> DEFINE none == <<>>
      <4>1. none \in Seq(Nat) /\ lastRx = <<none, none>>
          BY DEF Init
      <4> HIDE DEF none
      <4> QED
          BY <4>1
    <3>4. /\ lastFree \in (Memory \cup {0}) \X (Memory \cup {0})
          /\ cpu_idle \in [idle : Nat, sum : Nat]
        BY DEF Init
    <3>5. memory \in 0 .. MemMod - 1 /\ networks \in 0 .. NetMax
          /\ i \in 1 .. NetMax + 1
        BY DEF Init
    <3> QED
        BY <3>2, <3>3, <3>4, <3>5 DEF Init, TypeOK
  <2>2. SwitchInv /\ CpuInv /\ ShareInv
      BY DEF Init, SwitchInv, CpuInv, ShareInv, Starting, InInterval
  <2>3. NetInv /\ LoopInv /\ RateInv
      BY DEF Init, NetInv, LoopInv, RateInv, InInterval
  <2>4. MemInv /\ AnswerWithinTotal
      BY DEF Init, MemInv, AnswerWithinTotal
  <2> QED
      BY <2>1, <2>2, <2>3, <2>4 DEF Inv
<1>2. Inv /\ [Next]_vars => Inv'
    BY TypeStep, SwitchStep, NetStep, LoopStep, RateStep, CpuStep, ShareStep,
       MemStep, AnswerStep DEF Inv
<1> QED
    BY <1>1, <1>2, PTL DEF Spec

\* The idle share that system_net_proc publishes is that of the time between
\* the last two readings of /proc/stat, whatever the kernel answers, and can
\* be computed.
THEOREM ShareOfInterval == Spec => []CpuOfInterval
<1>1. Inv => CpuOfInterval
    BY DEF Inv, CpuOfInterval, ShareInv
<1> QED
    BY <1>1, Invariants, PTL

\* With any number of interfaces the rate the loop leaves is that of the last
\* one since the previous reading of /proc/net/dev.
THEOREM RateOfInterval == Spec => []TrafficOfInterval
<1>1. Inv => TrafficOfInterval
  <2> SUFFICES ASSUME Inv, spc = "loop", i > networks, networks > 0,
                      Len(lastRx[1]) = Len(lastRx[2])
               PROVE  uplink = IF lastRx[1][networks] > lastRx[2][networks] THEN 0
                               ELSE lastRx[2][networks] - lastRx[1][networks]
      BY DEF TrafficOfInterval
  <2>1. networks = i - 1 /\ i > 1
      BY DEF Inv, LoopInv, TypeOK
  <2> QED
      BY <2>1 DEF Inv, RateInv
<1> QED
    BY <1>1, Invariants, PTL

\* sc_node_state_func reports no more memory than there is, at whatever moments
\* of the sampler its two readings fall.
THEOREM AnswerBounded == Spec => []AnswerWithinTotal
BY Invariants, PTL DEF Inv
=============================================================================
