---------------------------- MODULE FramingProofs ----------------------------
(* Proofs about Framing, for messages of any length and any cutting of the  *)
(* stream.                                                                   *)
EXTENDS Framing, TLAPS

-----------------------------------------------------------------------------
(* Runs of bytes.  bd is the length of the body of each message.            *)

Bytes == Seq(Nat \X Nat)

\* The byte that follows c on the stream.
Succ(bd, c) == IF c[2] < Hdr + bd[c[1]] THEN <<c[1], c[2] + 1>>
                                        ELSE <<c[1] + 1, 1>>

\* The bytes of s follow each other: whatever follows a byte within its message
\* is of that message, and then the next one begins.  (Said of all pairs and
\* not of neighbours alone, so that nothing below needs an induction.)
Run(bd, s) ==
    \A k \in 1 .. Len(s) :
        /\ s[k][1] \in 1 .. Len(bd)
        /\ s[k][2] \in 1 .. Hdr + bd[s[k][1]]
        /\ \A l \in k .. Len(s) :
             /\ s[k][2] + (l - k) <= Hdr + bd[s[k][1]] =>
                  s[l] = <<s[k][1], s[k][2] + (l - k)>>
             /\ s[k][2] + (l - k) = Hdr + bd[s[k][1]] + 1 =>
                  s[l] = <<s[k][1] + 1, 1>>

\* s carries the stream from the byte a up to, and without, the byte b.
Carries(bd, s, a, b) ==
    /\ Run(bd, s)
    /\ s = <<>> => a = b
    /\ s # <<>> => a = s[1] /\ b = Succ(bd, s[Len(s)])

\* Between the peer and xdr->proc are the messages from the first that was not
\* handed over to the last that was written: whole ones in generic_read_cb and
\* in dst, whole but for the end in src, the rest on the wire.
StreamInv ==
    conn = "up" =>
        \E x \in Nat, y \in Nat, w \in Nat \X Nat :
            /\ Carries(body, msg, <<Len(done) + 1, 1>>, <<x, 1>>)
            /\ Carries(body, dst, <<x, 1>>, <<y, 1>>)
            /\ Carries(body, src, <<y, 1>>, w)
            /\ Carries(body, wire, w, <<Len(body) + 1, 1>>)

\* Outside generic_read_cb's loop nothing has been read and not handed over; a
\* connection that ended has nothing more to deliver.
IdleInv ==
    /\ pc # "overrun"
    /\ pc # "loop" => msg = <<>>
    /\ conn = "freed" => pc = "idle" /\ wire = <<>>

USE FramingAssumption

\* A concatenation, byte by byte.
LEMMA Joined ==
    ASSUME NEW s \in Bytes, NEW t \in Bytes
    PROVE  /\ s \o t \in Bytes
           /\ Len(s \o t) = Len(s) + Len(t)
           /\ Len(s) \in Nat /\ Len(t) \in Nat
           /\ \A k \in 1 .. Len(s) : (s \o t)[k] = s[k]
           /\ \A k \in Len(s) + 1 .. Len(s) + Len(t) :
                (s \o t)[k] = t[k - Len(s)]
BY DEF Bytes

\* The two parts of a sequence, byte by byte.
LEMMA Parts ==
    ASSUME NEW s \in Bytes, NEW n \in 0 .. Len(s)
    PROVE  /\ First(s, n) \in Bytes /\ Rest(s, n) \in Bytes
           /\ Len(s) \in Nat
           /\ Len(First(s, n)) = n /\ Len(Rest(s, n)) = Len(s) - n
           /\ \A k \in 1 .. n : First(s, n)[k] = s[k]
           /\ \A k \in 1 .. Len(s) - n : Rest(s, n)[k] = s[k + n]
BY DEF Bytes, First, Rest

\* A byte is the pair of its message and its place.
LEMMA ByteOf ==
    ASSUME NEW s \in Bytes, NEW k \in 1 .. Len(s)
    PROVE  s[k] = <<s[k][1], s[k][2]>> /\ s[k][1] \in Nat /\ s[k][2] \in Nat
<1>1. s[k] \in Nat \X Nat
    BY DEF Bytes
<1> QED
    BY <1>1

\* Only the empty sequence has no byte.
LEMMA EmptyLen ==
    ASSUME NEW s \in Bytes
    PROVE  Len(s) \in Nat /\ (s = <<>> <=> Len(s) = 0)
BY DEF Bytes

\* Within a run the neighbour of a byte is the one that follows it.
LEMMA Neighbour ==
    ASSUME NEW bd \in Seq(Nat), NEW s \in Bytes, Run(bd, s),
           NEW k \in 1 .. Len(s), k < Len(s)
    PROVE  s[k + 1] = Succ(bd, s[k])
<1>1. /\ s[k][1] \in 1 .. Len(bd) /\ s[k][2] \in 1 .. Hdr + bd[s[k][1]]
      /\ s[k][2] + 1 <= Hdr + bd[s[k][1]] => s[k + 1] = <<s[k][1], s[k][2] + 1>>
      /\ s[k][2] + 1 = Hdr + bd[s[k][1]] + 1 => s[k + 1] = <<s[k][1] + 1, 1>>
  <2>1. k + 1 \in k .. Len(s) /\ (k + 1) - k = 1
      BY EmptyLen
  <2> QED
      BY <2>1 DEF Run
<1>2. Hdr + bd[s[k][1]] \in Nat /\ s[k][2] \in Nat
    BY <1>1, SMTT(40)
<1>3. CASE s[k][2] < Hdr + bd[s[k][1]]
  <2>1. s[k][2] + 1 <= Hdr + bd[s[k][1]]
      BY <1>2, <1>3
  <2> QED
      BY <1>1, <1>3, <2>1 DEF Succ
<1>4. CASE ~(s[k][2] < Hdr + bd[s[k][1]])
  <2>1. s[k][2] = Hdr + bd[s[k][1]]
      BY <1>1, <1>2, <1>4, SMTT(40)
  <2> QED
      BY <1>1, <1>4, <2>1 DEF Succ
<1> QED
    BY <1>3, <1>4

\* A part of a run is a run.
LEMMA RunPart ==
    ASSUME NEW bd \in Seq(Nat), NEW s \in Bytes, Run(bd, s),
           NEW t \in Bytes, NEW n \in Nat, Len(t) + n <= Len(s),
           \A k \in 1 .. Len(t) : t[k] = s[k + n]
    PROVE  Run(bd, t)
<1> SUFFICES ASSUME NEW k \in 1 .. Len(t)
             PROVE  /\ t[k][1] \in 1 .. Len(bd)
                    /\ t[k][2] \in 1 .. Hdr + bd[t[k][1]]
                    /\ \A l \in k .. Len(t) :
                         /\ t[k][2] + (l - k) <= Hdr + bd[t[k][1]] =>
                              t[l] = <<t[k][1], t[k][2] + (l - k)>>
                         /\ t[k][2] + (l - k) = Hdr + bd[t[k][1]] + 1 =>
                              t[l] = <<t[k][1] + 1, 1>>
    BY DEF Run
<1>1. k + n \in 1 .. Len(s) /\ t[k] = s[k + n]
    BY EmptyLen
<1>2. t[k][1] \in 1 .. Len(bd) /\ t[k][2] \in 1 .. Hdr + bd[t[k][1]]
    BY <1>1 DEF Run
<1>3. ASSUME NEW l \in k .. Len(t)
      PROVE  /\ t[k][2] + (l - k) <= Hdr + bd[t[k][1]] =>
                  t[l] = <<t[k][1], t[k][2] + (l - k)>>
             /\ t[k][2] + (l - k) = Hdr + bd[t[k][1]] + 1 =>
                  t[l] = <<t[k][1] + 1, 1>>
  <2>1. l + n \in k + n .. Len(s) /\ t[l] = s[l + n] /\ (l + n) - (k + n) = l - k
      BY EmptyLen
  <2> QED
      BY <1>1, <2>1 DEF Run
<1> QED
    BY <1>2, <1>3

\* A run and the run that continues it are a run.
LEMMA RunJoin ==
    ASSUME NEW bd \in Seq(Nat), NEW s \in Bytes, NEW t \in Bytes,
           Run(bd, s), Run(bd, t), s # <<>>, t # <<>>,
           t[1] = Succ(bd, s[Len(s)])
    PROVE  Run(bd, s \o t)
<1> DEFINE u == s \o t
           m == Len(s)
           n == Len(t)
<1>1. /\ u \in Bytes /\ Len(u) = m + n /\ m \in Nat \ {0} /\ n \in Nat \ {0}
      /\ \A k \in 1 .. m : u[k] = s[k]
      /\ \A k \in m + 1 .. m + n : u[k] = t[k - m]
    BY Joined, EmptyLen
<1> SUFFICES ASSUME NEW k \in 1 .. m + n
             PROVE  /\ u[k][1] \in 1 .. Len(bd)
                    /\ u[k][2] \in 1 .. Hdr + bd[u[k][1]]
                    /\ \A l \in k .. m + n :
                         /\ u[k][2] + (l - k) <= Hdr + bd[u[k][1]] =>
                              u[l] = <<u[k][1], u[k][2] + (l - k)>>
                         /\ u[k][2] + (l - k) = Hdr + bd[u[k][1]] + 1 =>
                              u[l] = <<u[k][1] + 1, 1>>
    BY <1>1 DEF Run
<1> HIDE DEF u, m, n
<1>2. CASE k > m
  <2>1. k - m \in 1 .. n /\ u[k] = t[k - m]
      BY <1>1, <1>2
  <2>2. u[k][1] \in 1 .. Len(bd) /\ u[k][2] \in 1 .. Hdr + bd[u[k][1]]
      BY <2>1 DEF Run, n
  <2>3. ASSUME NEW l \in k .. m + n
        PROVE  /\ u[k][2] + (l - k) <= Hdr + bd[u[k][1]] =>
                    u[l] = <<u[k][1], u[k][2] + (l - k)>>
               /\ u[k][2] + (l - k) = Hdr + bd[u[k][1]] + 1 =>
                    u[l] = <<u[k][1] + 1, 1>>
    <3>1. l - m \in k - m .. n /\ u[l] = t[l - m] /\ (l - m) - (k - m) = l - k
        BY <1>1, <1>2
    <3> QED
        BY <2>1, <3>1 DEF Run, n
  <2> QED
      BY <2>2, <2>3
<1>3. CASE k <= m
  <2> DEFINE i == s[k][1]
             j == s[k][2]
             e == Hdr + bd[i]
  <2>1. k \in 1 .. m /\ u[k] = s[k]
      BY <1>1, <1>3
  <2>2. i \in 1 .. Len(bd) /\ j \in 1 .. e
      BY <2>1 DEF Run, m
  <2>3. e \in Nat /\ j \in Nat /\ i \in Nat
    <3>1. Len(bd) \in Nat /\ DOMAIN bd = 1 .. Len(bd) /\ Hdr \in Nat
        BY FramingAssumption
    <3> HIDE DEF i, j
    <3>2. i \in Nat /\ bd[i] \in Nat
        BY <2>2, <3>1
    <3>3. e \in Nat
        BY <3>1, <3>2
    <3> HIDE DEF e
    <3> QED
        BY <2>2, <3>2, <3>3
  <2>4. \A l \in k .. m :
          /\ j + (l - k) <= e => s[l] = <<i, j + (l - k)>>
          /\ j + (l - k) = e + 1 => s[l] = <<i + 1, 1>>
      BY <2>1 DEF Run, m
  <2> HIDE DEF i, j, e
  <2>5. ASSUME NEW l \in k .. m + n
        PROVE  /\ j + (l - k) <= e => u[l] = <<i, j + (l - k)>>
               /\ j + (l - k) = e + 1 => u[l] = <<i + 1, 1>>
    <3>1. CASE l <= m
      <4>1. l \in k .. m /\ u[l] = s[l]
          BY <1>1, <3>1
      <4> QED
          BY <2>4, <4>1
    <3>2. CASE l > m
      <4>1. /\ l - m \in 1 .. n /\ u[l] = t[l - m]
            /\ 1 \in 1 .. n
          BY <1>1, <3>2
      <4> SUFFICES ASSUME j + (l - k) <= e + 1
                   PROVE  /\ j + (l - k) <= e => u[l] = <<i, j + (l - k)>>
                          /\ j + (l - k) = e + 1 => u[l] = <<i + 1, 1>>
          BY <1>1, <2>3
      <4>2. j + (m - k) <= e /\ m \in k .. m
          BY <1>1, <1>3, <2>3, <3>2
      <4>3. s[m] = <<i, j + (m - k)>>
          BY <2>4, <4>2
      <4>4. t[1] = Succ(bd, s[m])
          BY DEF m
      <4>5. CASE j + (m - k) < e
        <5>1. t[1] = <<i, j + (m - k) + 1>>
            BY <4>3, <4>4, <4>5 DEF Succ, e
        <5>2. t[1][1] = i /\ t[1][2] = j + (m - k) + 1
            BY <5>1
        <5>3. t[1][2] + ((l - m) - 1) = j + (l - k)
            BY <1>1, <2>3, <5>2
        <5>4. l - m \in 1 .. Len(t)
            BY <4>1 DEF n
        <5>5. /\ t[1][2] + ((l - m) - 1) <= Hdr + bd[t[1][1]] =>
                   t[l - m] = <<t[1][1], t[1][2] + ((l - m) - 1)>>
              /\ t[1][2] + ((l - m) - 1) = Hdr + bd[t[1][1]] + 1 =>
                   t[l - m] = <<t[1][1] + 1, 1>>
            BY <4>1, <5>4 DEF Run, n
        <5> QED
            BY <4>1, <5>2, <5>3, <5>5 DEF e
      <4>6. CASE ~(j + (m - k) < e)
        <5>1. j + (m - k) = e /\ l = m + 1
            BY <1>1, <2>3, <3>2, <4>2, <4>6
        <5>2. t[1] = <<i + 1, 1>>
            BY <4>3, <4>4, <4>6 DEF Succ, e
        <5>3. u[l] = t[1] /\ j + (l - k) = e + 1
            BY <1>1, <2>3, <4>1, <5>1
        <5> QED
            BY <2>3, <5>2, <5>3
      <4> QED
          BY <4>5, <4>6
    <3> QED
        BY <1>1, <3>1, <3>2
  <2> QED
      BY <2>1, <2>2, <2>5 DEF i, j, e
<1>4. k > m \/ k <= m
    BY <1>1
<1> QED
    BY <1>2, <1>3, <1>4

\* Pieces of the stream that meet are a piece of it.
LEMMA CarriesJoin ==
    ASSUME NEW bd \in Seq(Nat), NEW s \in Bytes, NEW t \in Bytes,
           NEW a, NEW b, NEW c, Carries(bd, s, a, b), Carries(bd, t, b, c)
    PROVE  Carries(bd, s \o t, a, c)
<1>1. CASE s = <<>>
  <2>1. s \o t = t
      BY <1>1 DEF Bytes
  <2> QED
      BY <1>1, <2>1 DEF Carries
<1>2. CASE t = <<>>
  <2>1. s \o t = s
      BY <1>2 DEF Bytes
  <2> QED
      BY <1>2, <2>1 DEF Carries
<1>3. CASE s # <<>> /\ t # <<>>
  <2>1. t[1] = Succ(bd, s[Len(s)]) /\ Run(bd, s) /\ Run(bd, t)
      BY <1>3 DEF Carries
  <2>2. Run(bd, s \o t)
      BY <1>3, <2>1, RunJoin
  <2>3. Len(s) \in Nat \ {0} /\ Len(t) \in Nat \ {0}
      BY <1>3, EmptyLen
  <2>4. /\ s \o t # <<>> /\ (s \o t)[1] = s[1]
        /\ (s \o t)[Len(s \o t)] = t[Len(t)]
    <3>1. /\ s \o t \in Bytes /\ Len(s \o t) = Len(s) + Len(t)
          /\ (s \o t)[1] = s[1]
        BY <2>3, Joined
    <3>2. Len(s) + Len(t) \in Len(s) + 1 .. Len(s) + Len(t)
        BY <2>3
    <3>3. (s \o t)[Len(s) + Len(t)] = t[(Len(s) + Len(t)) - Len(s)]
        BY <3>2, Joined
    <3>4. (Len(s) + Len(t)) - Len(s) = Len(t)
        BY <2>3
    <3> QED
        BY <2>3, <3>1, <3>3, <3>4, EmptyLen
  <2> QED
      BY <1>3, <2>2, <2>4 DEF Carries
<1> QED
    BY <1>1, <1>2, <1>3

\* A piece of the stream can be cut anywhere.
LEMMA CarriesCut ==
    ASSUME NEW bd \in Seq(Nat), NEW s \in Bytes, NEW n \in 0 .. Len(s),
           NEW a, NEW c, Carries(bd, s, a, c)
    PROVE  LET b == IF n < Len(s) THEN s[n + 1] ELSE c
           IN  Carries(bd, First(s, n), a, b) /\ Carries(bd, Rest(s, n), b, c)
<1> DEFINE b == IF n < Len(s) THEN s[n + 1] ELSE c
           f == First(s, n)
           r == Rest(s, n)
<1>1. /\ f \in Bytes /\ r \in Bytes /\ Len(s) \in Nat
      /\ Len(f) = n /\ Len(r) = Len(s) - n
      /\ \A k \in 1 .. n : f[k] = s[k]
      /\ \A k \in 1 .. Len(s) - n : r[k] = s[k + n]
    BY Parts
<1> SUFFICES Carries(bd, f, a, b) /\ Carries(bd, r, b, c)
    OBVIOUS
<1> HIDE DEF f, r
<1>2. Run(bd, s)
    BY DEF Carries
<1>3. Run(bd, f)
  <2>1. /\ Len(f) + 0 <= Len(s)
        /\ \A k \in 1 .. Len(f) : f[k] = s[k + 0]
      BY <1>1
  <2> QED
      BY <1>1, <1>2, <2>1, RunPart
<1>4. Run(bd, r)
  <2>1. /\ Len(r) + n <= Len(s)
        /\ \A k \in 1 .. Len(r) : r[k] = s[k + n]
      BY <1>1
  <2> QED
      BY <1>1, <1>2, <2>1, RunPart
<1>5. Carries(bd, f, a, b)
  <2>1. CASE n = 0
    <3>1. f = <<>>
        BY <1>1, <2>1, EmptyLen
    <3>2. a = b
        BY <1>1, <2>1, EmptyLen DEF Carries
    <3> QED
        BY <1>3, <3>1, <3>2 DEF Carries
  <2>2. CASE n # 0
    <3>1. n \in 1 .. Len(s) /\ f # <<>> /\ s # <<>>
        BY <1>1, <2>2, EmptyLen
    <3>2. f[1] = a /\ f[Len(f)] = s[n]
        BY <1>1, <3>1 DEF Carries
    <3>3. b = Succ(bd, s[n])
      <4>1. CASE n < Len(s)
          BY <1>2, <3>1, <4>1, Neighbour
      <4>2. CASE n = Len(s)
          BY <1>1, <3>1, <4>2 DEF Carries
      <4>3. n < Len(s) \/ n = Len(s)
          BY <1>1
      <4> QED
          BY <4>1, <4>2, <4>3
    <3> QED
        BY <1>3, <3>1, <3>2, <3>3 DEF Carries
  <2> QED
      BY <2>1, <2>2
<1>6. Carries(bd, r, b, c)
  <2>1. CASE n = Len(s)
    <3>1. r = <<>> /\ b = c
        BY <1>1, <2>1, EmptyLen
    <3> QED
        BY <1>4, <3>1 DEF Carries
  <2>2. CASE n # Len(s)
    <3>1. n < Len(s) /\ Len(r) \in 1 .. Len(s) - n /\ r # <<>> /\ s # <<>>
        BY <1>1, <2>2, EmptyLen
    <3>2. r[1] = s[n + 1] /\ r[Len(r)] = s[Len(s)]
      <4>1. 1 \in 1 .. Len(s) - n /\ 1 + n = n + 1 /\ Len(r) + n = Len(s)
          BY <1>1, <3>1
      <4>2. r[1] = s[1 + n] /\ r[Len(r)] = s[Len(r) + n]
          BY <1>1, <3>1, <4>1
      <4> QED
          BY <4>1, <4>2
    <3> QED
        BY <1>4, <3>1, <3>2 DEF Carries
  <2> QED
      BY <2>1, <2>2
<1> QED
    BY <1>5, <1>6

\* A piece that starts with a message and is long enough has all of it in front.
LEMMA MessageCut ==
    ASSUME NEW bd \in Seq(Nat), NEW s \in Bytes, NEW m \in Nat, NEW c,
           Carries(bd, s, <<m, 1>>, c), s # <<>>, Hdr + bd[m] <= Len(s)
    PROVE  /\ Carries(bd, First(s, Hdr + bd[m]), <<m, 1>>, <<m + 1, 1>>)
           /\ Carries(bd, Rest(s, Hdr + bd[m]), <<m + 1, 1>>, c)
<1> DEFINE e == Hdr + bd[m]
           b == IF e < Len(s) THEN s[e + 1] ELSE c
<1>1. s[1] = <<m, 1>> /\ Run(bd, s) /\ Len(s) \in Nat \ {0}
    BY EmptyLen DEF Carries
<1>2. m \in 1 .. Len(bd)
    BY <1>1 DEF Run
<1>3. e \in 1 .. Len(s) /\ e \in 0 .. Len(s)
    BY <1>1, <1>2
<1>4. \A l \in 1 .. Len(s) : /\ 1 + (l - 1) <= e => s[l] = <<m, 1 + (l - 1)>>
                             /\ 1 + (l - 1) = e + 1 => s[l] = <<m + 1, 1>>
  <2>1. 1 \in 1 .. Len(s) /\ s[1][1] = m /\ s[1][2] = 1
      BY <1>1
  <2> QED
      BY <1>1, <2>1 DEF Run
<1>5. s[e] = <<m, e>>
  <2> HIDE DEF e
  <2> QED
      BY <1>3, <1>4
<1>6. Succ(bd, s[e]) = <<m + 1, 1>>
    BY <1>3, <1>5 DEF Succ
<1>7. b = <<m + 1, 1>>
  <2>1. CASE e < Len(s)
    <3>1. e + 1 \in 1 .. Len(s) /\ 1 + ((e + 1) - 1) = e + 1
        BY <1>1, <1>3, <2>1, SMTT(40)
    <3> HIDE DEF e
    <3> QED
        BY <1>4, <2>1, <3>1
  <2>2. CASE ~(e < Len(s))
    <3>1. e = Len(s)
        BY <1>1, <1>3, <2>2
    <3> QED
        BY <1>6, <2>2, <3>1 DEF Carries
  <2> QED
      BY <2>1, <2>2
<1> QED
    BY <1>3, <1>7, CarriesCut

\* A piece that starts and ends with a message has the first one whole.
LEMMA MessageWhole ==
    ASSUME NEW bd \in Seq(Nat), NEW s \in Bytes, NEW m \in Nat, NEW x \in Nat,
           Carries(bd, s, <<m, 1>>, <<x, 1>>), s # <<>>
    PROVE  Hdr + bd[m] <= Len(s)
<1> DEFINE e == Hdr + bd[m]
           z == Len(s)
<1>1. s[1] = <<m, 1>> /\ Run(bd, s) /\ z \in Nat \ {0}
    BY EmptyLen DEF Carries
<1>2. e \in Nat
  <2>1. m \in 1 .. Len(bd)
      BY <1>1 DEF Run
  <2> QED
      BY <2>1
<1>3. SUFFICES ASSUME z < e PROVE FALSE
    BY <1>1, <1>2
<1>4. s[z] = <<m, z>>
  <2>1. /\ 1 \in 1 .. Len(s) /\ s[1][1] = m /\ s[1][2] = 1 /\ z \in 1 .. Len(s)
        /\ 1 + (z - 1) = z /\ 1 + (z - 1) <= e
      BY <1>1, <1>2, <1>3
  <2>2. /\ s[1][2] + (z - 1) <= Hdr + bd[s[1][1]] =>
             s[z] = <<s[1][1], s[1][2] + (z - 1)>>
      BY <1>1, <2>1 DEF Run
  <2> HIDE DEF z, e
  <2> QED
      BY <2>1, <2>2 DEF e
<1>5. Succ(bd, s[z]) = <<m, z + 1>>
    BY <1>3, <1>4 DEF Succ
<1>6. <<x, 1>> = <<m, z + 1>>
    BY <1>5 DEF Carries
<1> QED
    BY <1>1, <1>6

\* What is on its way does not change when another message is written.
LEMMA CarriesGrow ==
    ASSUME NEW bd \in Seq(Nat), NEW n \in Nat, NEW s \in Bytes,
           NEW a, NEW b, Carries(bd, s, a, b)
    PROVE  Carries(Append(bd, n), s, a, b)
<1> DEFINE cd == Append(bd, n)
<1>1. /\ cd \in Seq(Nat) /\ Len(cd) = Len(bd) + 1 /\ Len(bd) \in Nat
      /\ \A k \in 1 .. Len(bd) : cd[k] = bd[k]
    OBVIOUS
<1> HIDE DEF cd
<1>2. \A k \in 1 .. Len(s) : s[k][1] \in 1 .. Len(cd) /\ cd[s[k][1]] = bd[s[k][1]]
  <2> TAKE k \in 1 .. Len(s)
  <2>1. s[k][1] \in 1 .. Len(bd)
      BY DEF Carries, Run
  <2> QED
      BY <1>1, <2>1
<1>3. Run(cd, s)
    BY <1>2 DEF Carries, Run
<1>4. s # <<>> => Succ(cd, s[Len(s)]) = Succ(bd, s[Len(s)])
  <2>1. s # <<>> => Len(s) \in 1 .. Len(s)
      BY EmptyLen
  <2> QED
      BY <1>2, <2>1 DEF Succ
<1> QED
    BY <1>3, <1>4 DEF Carries, cd

\* A message that is written continues the stream with all of its bytes.
LEMMA CarriesNew ==
    ASSUME NEW bd \in Seq(Nat), NEW n \in Nat
    PROVE  LET t == [k \in 1 .. Hdr + n |-> <<Len(bd) + 1, k>>]
           IN  /\ t \in Bytes
               /\ Carries(Append(bd, n), t, <<Len(bd) + 1, 1>>,
                          <<Len(bd) + 2, 1>>)
<1> DEFINE t == [k \in 1 .. Hdr + n |-> <<Len(bd) + 1, k>>]
           cd == Append(bd, n)
           m == Len(bd) + 1
           e == Hdr + n
<1>1. m \in Nat \ {0} /\ e \in Nat \ {0} /\ Len(cd) = m /\ cd[m] = n
    OBVIOUS
<1>2. t \in Bytes /\ Len(t) = e
  <2>1. \A k \in 1 .. e : <<m, k>> \in Nat \X Nat
      BY <1>1
  <2> QED
      BY <1>1, <2>1 DEF Bytes
<1>3. \A k \in 1 .. e : t[k] = <<m, k>>
    OBVIOUS
<1> HIDE DEF t, cd, m
<1>4. Run(cd, t)
  <2> SUFFICES ASSUME NEW k \in 1 .. e
               PROVE  /\ t[k][1] \in 1 .. Len(cd)
                      /\ t[k][2] \in 1 .. Hdr + cd[t[k][1]]
                      /\ \A l \in k .. e :
                           /\ t[k][2] + (l - k) <= Hdr + cd[t[k][1]] =>
                                t[l] = <<t[k][1], t[k][2] + (l - k)>>
                           /\ t[k][2] + (l - k) = Hdr + cd[t[k][1]] + 1 =>
                                t[l] = <<t[k][1] + 1, 1>>
      BY <1>2 DEF Run
  <2>1. t[k][1] = m /\ t[k][2] = k /\ cd[t[k][1]] = n
      BY <1>1, <1>3
  <2>2. ASSUME NEW l \in k .. e
        PROVE  l \in 1 .. e /\ k + (l - k) = l /\ l # Hdr + n + 1
      BY <1>1
  <2> QED
      BY <1>1, <1>3, <2>1, <2>2
<1>5. Succ(cd, t[e]) = <<m + 1, 1>>
  <2>1. t[e] = <<m, e>> /\ ~(e < Hdr + cd[m])
      BY <1>1, <1>3
  <2> HIDE DEF e
  <2>2. t[e][1] = m /\ t[e][2] = e
      BY <2>1
  <2> QED
      BY <2>1, <2>2 DEF Succ
<1>6. t # <<>> /\ t[1] = <<m, 1>>
    BY <1>1, <1>2, <1>3, EmptyLen
<1>7. Carries(cd, t, <<m, 1>>, <<m + 1, 1>>)
    BY <1>2, <1>4, <1>5, <1>6 DEF Carries
<1>8. m + 1 = Len(bd) + 2
    BY DEF m
<1> QED
    BY <1>2, <1>7, <1>8 DEF t, cd, m

-----------------------------------------------------------------------------
(* One lemma per action: it keeps the invariant, and is a step of MsgQueue. *)

Inv == TypeOK /\ IdleInv /\ StreamInv

\* The queue of messages does not change.
QueueStays == UNCHANGED <<Len(body), done, conn>>

\* The buffers hold bytes of messages.
LEMMA Buffers ==
    ASSUME TypeOK
    PROVE  /\ body \in Seq(Nat) /\ Len(body) \in Nat
           /\ wire \in Bytes /\ src \in Bytes /\ dst \in Bytes /\ msg \in Bytes
<1>1. Byte \subseteq Nat \X Nat
    BY DEF Byte
<1>2. \A s \in Seq(Byte) : s \in Bytes
    BY <1>1 DEF Bytes
<1> QED
    BY <1>2 DEF TypeOK

\* Parts of a sequence have its elements.
LEMMA PartsIn ==
    ASSUME NEW S, NEW s \in Seq(S), NEW n \in 0 .. Len(s)
    PROVE  First(s, n) \in Seq(S) /\ Rest(s, n) \in Seq(S)
BY DEF First, Rest

\* Where a message starts its length can be read.
LEMMA LengthRead ==
    ASSUME TypeOK, NEW s \in Bytes, NEW m \in Nat, NEW c,
           Carries(body, s, <<m, 1>>, c), s # <<>>
    PROVE  /\ s[1] = <<m, 1>>
           /\ m \in 1 .. Len(body) /\ body[m] \in 0 .. MaxBody
           /\ Lengths(s) = {body[m]}
<1>1. s[1] = <<m, 1>> /\ Run(body, s) /\ Len(s) \in Nat \ {0}
    BY EmptyLen DEF Carries
<1>2. m \in 1 .. Len(body)
    BY <1>1 DEF Run
<1> QED
    BY <1>1, <1>2 DEF Lengths, TypeOK

\* The peer writes a message: one more is sent.
LEMMA WriteStep ==
    ASSUME Inv, NEW n \in 0 .. MaxBody, Write(n)
    PROVE  Inv' /\ Q!Send
<1> DEFINE t == [k \in 1 .. Hdr + n |-> <<Len(body) + 1, k>>]
<1>1. /\ body \in Seq(Nat) /\ Len(body) \in Nat /\ n \in Nat
      /\ wire \in Bytes /\ src \in Bytes /\ dst \in Bytes /\ msg \in Bytes
    BY Buffers DEF Inv
<1>2. /\ conn = "up" /\ Len(body) < MaxMsgs
      /\ body' = Append(body, n) /\ wire' = wire \o t
      /\ UNCHANGED <<src, dst, pc, moved, msg, done, conn, nomem>>
    BY DEF Write
<1>3. Len(body') = Len(body) + 1
    BY <1>1, <1>2
<1>4. TypeOK'
  <2>1. body' \in Seq(0 .. MaxBody) /\ Len(body') <= MaxMsgs
      BY <1>1, <1>2, <1>3 DEF Inv, TypeOK
  <2>2. t \in Seq(Byte)
    <3>1. \A k \in 1 .. Hdr + n : <<Len(body) + 1, k>> \in Byte
        BY <1>1, <1>2 DEF Byte
    <3> QED
        BY <3>1
  <2>3. wire' \in Seq(Byte)
    <3> HIDE DEF t
    <3> QED
        BY <1>2, <2>2 DEF Inv, TypeOK
  <2> QED
      BY <1>2, <2>1, <2>3 DEF Inv, TypeOK
<1>5. IdleInv'
    BY <1>2 DEF Inv, IdleInv
<1>6. StreamInv'
  <2>1. PICK x \in Nat, y \in Nat, w \in Nat \X Nat :
            /\ Carries(body, msg, <<Len(done) + 1, 1>>, <<x, 1>>)
            /\ Carries(body, dst, <<x, 1>>, <<y, 1>>)
            /\ Carries(body, src, <<y, 1>>, w)
            /\ Carries(body, wire, w, <<Len(body) + 1, 1>>)
      BY <1>2 DEF Inv, StreamInv
  <2>2. /\ t \in Bytes
        /\ Carries(body', t, <<Len(body) + 1, 1>>, <<Len(body) + 2, 1>>)
      BY <1>1, <1>2, CarriesNew
  <2> HIDE DEF t
  <2>3. /\ Carries(body', msg', <<Len(done') + 1, 1>>, <<x, 1>>)
        /\ Carries(body', dst', <<x, 1>>, <<y, 1>>)
        /\ Carries(body', src', <<y, 1>>, w)
        /\ Carries(body', wire, w, <<Len(body) + 1, 1>>)
      BY <1>1, <1>2, <2>1, CarriesGrow
  <2>4. body' \in Seq(Nat) /\ Len(body) + 2 = Len(body') + 1
      BY <1>1, <1>2
  <2>5. Carries(body', wire', w, <<Len(body') + 1, 1>>)
      BY <1>1, <1>2, <2>2, <2>3, <2>4, CarriesJoin
  <2> QED
      BY <2>3, <2>5 DEF StreamInv
<1>7. Q!Send
    BY <1>2, <1>3 DEF Q!Send
<1> QED
    BY <1>4, <1>5, <1>6, <1>7 DEF Inv

\* Bytes come in, cut anywhere.
LEMMA ArriveStep ==
    ASSUME Inv, Arrive
    PROVE  Inv' /\ QueueStays
<1>1. /\ body \in Seq(Nat) /\ Len(body) \in Nat
      /\ wire \in Bytes /\ src \in Bytes /\ dst \in Bytes /\ msg \in Bytes
    BY Buffers DEF Inv
<1>2. PICK n \in 1 .. Len(wire) : src' = src \o First(wire, n) /\ wire' = Rest(wire, n)
    BY DEF Arrive
<1>3. /\ pc = "idle" /\ pc' = "filter" /\ moved' = FALSE
      /\ UNCHANGED <<body, dst, msg, done, conn, nomem>>
    BY DEF Arrive
<1>4. n \in 0 .. Len(wire)
    BY <1>1, EmptyLen
<1>5. TypeOK'
  <2>1. First(wire, n) \in Seq(Byte) /\ Rest(wire, n) \in Seq(Byte)
      BY <1>4, PartsIn DEF Inv, TypeOK
  <2>2. src' \in Seq(Byte) /\ wire' \in Seq(Byte)
      BY <1>2, <2>1 DEF Inv, TypeOK
  <2> QED
      BY <1>3, <2>2 DEF Inv, TypeOK
<1>6. conn = "up"
  <2>1. wire # <<>>
      BY <1>1, EmptyLen
  <2> QED
      BY <2>1 DEF Inv, IdleInv, TypeOK
<1>7. IdleInv'
    BY <1>3, <1>6 DEF Inv, IdleInv
<1>8. StreamInv'
  <2>1. PICK x \in Nat, y \in Nat, w \in Nat \X Nat :
            /\ Carries(body, msg, <<Len(done) + 1, 1>>, <<x, 1>>)
            /\ Carries(body, dst, <<x, 1>>, <<y, 1>>)
            /\ Carries(body, src, <<y, 1>>, w)
            /\ Carries(body, wire, w, <<Len(body) + 1, 1>>)
      BY <1>6 DEF Inv, StreamInv
  <2> DEFINE v == IF n < Len(wire) THEN wire[n + 1] ELSE <<Len(body) + 1, 1>>
  <2>2. /\ Carries(body, First(wire, n), w, v)
        /\ Carries(body, Rest(wire, n), v, <<Len(body) + 1, 1>>)
      BY <1>1, <1>4, <2>1, CarriesCut
  <2>3. v \in Nat \X Nat
    <3>1. \A k \in 1 .. Len(wire) : wire[k] \in Nat \X Nat
        BY <1>1 DEF Bytes
    <3>2. n < Len(wire) => n + 1 \in 1 .. Len(wire)
        BY <1>1, EmptyLen
    <3>3. <<Len(body) + 1, 1>> \in Nat \X Nat
        BY <1>1
    <3> QED
        BY <3>1, <3>2, <3>3
  <2> HIDE DEF v
  <2>4. Carries(body, src', <<y, 1>>, v)
      BY <1>1, <1>2, <1>4, <2>1, <2>2, Parts, CarriesJoin
  <2>5. Carries(body, wire', v, <<Len(body) + 1, 1>>)
      BY <1>2, <2>2
  <2> QED
      BY <1>3, <2>1, <2>3, <2>4, <2>5 DEF StreamInv
<1> QED
    BY <1>3, <1>5, <1>7, <1>8 DEF Inv, QueueStays

\* The connection ends and its buffers are gone.
LEMMA EventCbStep ==
    ASSUME Inv, EventCb
    PROVE  Inv' /\ Q!Close
<1>1. /\ conn = "up" /\ conn' = "freed" /\ pc = "idle"
      /\ wire' = <<>> /\ src' = <<>> /\ dst' = <<>>
      /\ UNCHANGED <<body, pc, moved, msg, done, nomem>>
    BY DEF EventCb
<1>2. TypeOK'
    BY <1>1 DEF Inv, TypeOK
<1>3. IdleInv' /\ StreamInv'
    BY <1>1 DEF Inv, IdleInv, StreamInv
<1>4. Q!Close
    BY <1>1 DEF Q!Close
<1> QED
    BY <1>2, <1>3, <1>4 DEF Inv

\* The filter waits for more.
LEMMA FilterStopStep ==
    ASSUME Inv, FilterStop
    PROVE  Inv' /\ QueueStays
<1>1. /\ pc = "filter" /\ pc' \in {"read", "idle"}
      /\ UNCHANGED <<body, wire, src, dst, moved, msg, done, conn, nomem>>
    BY DEF FilterStop
<1>2. TypeOK' /\ IdleInv'
    BY <1>1 DEF Inv, TypeOK, IdleInv
<1>3. StreamInv'
    BY <1>1 DEF Inv, StreamInv
<1> QED
    BY <1>1, <1>2, <1>3 DEF Inv, QueueStays

\* The filter moves exactly one message, from where one starts.
LEMMA FilterMoveStep ==
    ASSUME Inv, FilterMove
    PROVE  Inv' /\ QueueStays
<1>1. /\ body \in Seq(Nat) /\ Len(body) \in Nat
      /\ wire \in Bytes /\ src \in Bytes /\ dst \in Bytes /\ msg \in Bytes
    BY Buffers DEF Inv
<1>2. /\ pc = "filter" /\ Len(src) >= Hdr /\ moved' = TRUE
      /\ pc' \in {"read", "filter"}
      /\ UNCHANGED <<body, wire, msg, done, conn, nomem>>
    BY DEF FilterMove
<1>3. conn = "up" /\ src # <<>>
    BY <1>1, <1>2, EmptyLen DEF Inv, IdleInv, TypeOK
<1>4. PICK x \in Nat, y \in Nat, w \in Nat \X Nat :
          /\ Carries(body, msg, <<Len(done) + 1, 1>>, <<x, 1>>)
          /\ Carries(body, dst, <<x, 1>>, <<y, 1>>)
          /\ Carries(body, src, <<y, 1>>, w)
          /\ Carries(body, wire, w, <<Len(body) + 1, 1>>)
    BY <1>3 DEF Inv, StreamInv
<1>5. Lengths(src) = {body[y]} /\ body[y] \in 0 .. MaxBody
    BY <1>1, <1>3, <1>4, LengthRead DEF Inv
<1>6. /\ Hdr + body[y] <= Len(src)
      /\ dst' = dst \o First(src, Hdr + body[y])
      /\ src' = Rest(src, Hdr + body[y])
    BY <1>1, <1>5, EmptyLen DEF FilterMove, Whole, ExpectedLen
<1>7. Hdr + body[y] \in 0 .. Len(src)
  <2>1. Len(src) \in Nat /\ Hdr + body[y] \in Nat
      BY <1>1, <1>5, EmptyLen
  <2> QED
      BY <1>6, <2>1
<1>8. TypeOK'
  <2>1. First(src, Hdr + body[y]) \in Seq(Byte)
        /\ Rest(src, Hdr + body[y]) \in Seq(Byte)
      BY <1>7, PartsIn DEF Inv, TypeOK
  <2>2. src' \in Seq(Byte) /\ dst' \in Seq(Byte)
      BY <1>6, <2>1 DEF Inv, TypeOK
  <2> QED
      BY <1>2, <2>2 DEF Inv, TypeOK
<1>9. IdleInv'
    BY <1>2, <1>3 DEF Inv, IdleInv
<1>10. StreamInv'
  <2>1. /\ Carries(body, First(src, Hdr + body[y]), <<y, 1>>, <<y + 1, 1>>)
        /\ Carries(body, Rest(src, Hdr + body[y]), <<y + 1, 1>>, w)
      BY <1>1, <1>3, <1>4, <1>6, MessageCut
  <2>2. First(src, Hdr + body[y]) \in Bytes
      BY <1>1, <1>7, Parts
  <2>3. Carries(body, dst', <<x, 1>>, <<y + 1, 1>>)
      BY <1>1, <1>4, <1>6, <2>1, <2>2, CarriesJoin
  <2>4. Carries(body, src', <<y + 1, 1>>, w)
      BY <1>6, <2>1
  <2>5. y + 1 \in Nat
      OBVIOUS
  <2> QED
      BY <1>2, <1>4, <2>3, <2>4, <2>5 DEF StreamInv
<1> QED
    BY <1>2, <1>8, <1>9, <1>10 DEF Inv, QueueStays

\* generic_read_cb takes whole messages only, or has no memory for them.
LEMMA ReadCbStep ==
    ASSUME Inv, ReadCb
    PROVE  Inv' /\ QueueStays
<1>1. /\ pc = "read" /\ msg = <<>>
      /\ UNCHANGED <<body, wire, src, moved, done, conn>>
    BY DEF ReadCb, Inv, IdleInv
<1>2. CASE /\ msg' = dst /\ dst' = <<>> /\ pc' = "loop" /\ nomem' = FALSE
  <2>1. TypeOK' /\ IdleInv'
      BY <1>1, <1>2 DEF Inv, TypeOK, IdleInv
  <2>2. StreamInv'
    <3> SUFFICES ASSUME conn = "up" PROVE StreamInv'
        BY <1>1 DEF StreamInv
    <3>1. PICK x \in Nat, y \in Nat, w \in Nat \X Nat :
              /\ Carries(body, msg, <<Len(done) + 1, 1>>, <<x, 1>>)
              /\ Carries(body, dst, <<x, 1>>, <<y, 1>>)
              /\ Carries(body, src, <<y, 1>>, w)
              /\ Carries(body, wire, w, <<Len(body) + 1, 1>>)
        BY DEF Inv, StreamInv
    <3>2. Carries(body, <<>>, <<y, 1>>, <<y, 1>>)
        BY <1>1, <3>1 DEF Carries
    <3>3. Carries(body, dst, <<Len(done) + 1, 1>>, <<y, 1>>)
        BY <1>1, <3>1 DEF Carries
    <3> QED
        BY <1>1, <1>2, <3>1, <3>2, <3>3 DEF StreamInv
  <2> QED
      BY <1>1, <2>1, <2>2 DEF Inv, QueueStays
<1>3. CASE pc' = "idle" /\ nomem' = TRUE /\ UNCHANGED <<msg, dst>>
  <2>1. TypeOK' /\ IdleInv'
      BY <1>1, <1>3 DEF Inv, TypeOK, IdleInv
  <2>2. StreamInv'
      BY <1>1, <1>3 DEF Inv, StreamInv
  <2> QED
      BY <1>1, <2>1, <2>2 DEF Inv, QueueStays
<1> QED
    BY <1>2, <1>3 DEF ReadCb

\* xdr->proc is given the first message not yet handed over, which is whole.
LEMMA ProcStep ==
    ASSUME Inv, Proc
    PROVE  Inv' /\ Q!Take
<1>1. /\ body \in Seq(Nat) /\ Len(body) \in Nat
      /\ wire \in Bytes /\ src \in Bytes /\ dst \in Bytes /\ msg \in Bytes
    BY Buffers DEF Inv
<1>2. /\ pc = "loop" /\ msg # <<>>
      /\ UNCHANGED <<body, wire, src, dst, moved, conn, nomem>>
    BY DEF Proc
<1>3. conn = "up"
    BY <1>2 DEF Inv, IdleInv, TypeOK
<1> DEFINE m == Len(done) + 1
<1>4. m \in Nat /\ Len(done) \in Nat
    BY DEF Inv, TypeOK
<1>5. PICK x \in Nat, y \in Nat, w \in Nat \X Nat :
          /\ Carries(body, msg, <<m, 1>>, <<x, 1>>)
          /\ Carries(body, dst, <<x, 1>>, <<y, 1>>)
          /\ Carries(body, src, <<y, 1>>, w)
          /\ Carries(body, wire, w, <<Len(body) + 1, 1>>)
    BY <1>3 DEF Inv, StreamInv
<1> HIDE DEF m
<1>6. /\ msg[1] = <<m, 1>> /\ m \in 1 .. Len(body) /\ body[m] \in 0 .. MaxBody
      /\ Lengths(msg) = {body[m]}
    BY <1>1, <1>2, <1>4, <1>5, LengthRead DEF Inv
<1>7. Hdr + body[m] <= Len(msg)
    BY <1>1, <1>2, <1>4, <1>5, MessageWhole
<1>8. BytesRead(body[m]) = Hdr + body[m]
    BY <1>6 DEF BytesRead
<1>9. /\ done' = Append(done, m) /\ msg' = Rest(msg, Hdr + body[m])
      /\ pc' = pc
  <2>1. msg[1][1] = m /\ msg[1][2] = 1
      BY <1>6
  <2> QED
      BY <1>6, <1>7, <1>8, <2>1 DEF Proc
<1>10. Hdr + body[m] \in 0 .. Len(msg)
  <2>1. Len(msg) \in Nat /\ Hdr \in Nat /\ MaxBody \in Nat
      BY <1>1, EmptyLen, FramingAssumption
  <2>2. Hdr + body[m] \in Nat
      BY <1>6, <2>1
  <2> QED
      BY <1>7, <2>1, <2>2
<1>11. Len(done') = Len(done) + 1 /\ Len(done) < Len(body)
    BY <1>1, <1>4, <1>6, <1>9 DEF Inv, TypeOK, m
<1>12. TypeOK'
  <2>1. Rest(msg, Hdr + body[m]) \in Seq(Byte)
      BY <1>10, PartsIn DEF Inv, TypeOK
  <2>2. m \in 0 .. MaxMsgs
      BY <1>1, <1>4, <1>6 DEF Inv, TypeOK
  <2>3. done' \in Seq(0 .. MaxMsgs)
      BY <1>9, <2>2 DEF Inv, TypeOK
  <2> QED
      BY <1>2, <1>9, <2>1, <2>3 DEF Inv, TypeOK
<1>13. IdleInv'
    BY <1>2, <1>3, <1>9 DEF Inv, IdleInv
<1>14. StreamInv'
  <2>1. Carries(body, msg', <<m + 1, 1>>, <<x, 1>>)
      BY <1>1, <1>2, <1>4, <1>5, <1>7, <1>9, MessageCut
  <2>2. m + 1 = Len(done') + 1
      BY <1>11 DEF m
  <2> QED
      BY <1>2, <1>5, <2>1, <2>2 DEF StreamInv
<1>15. Q!Take
    BY <1>2, <1>3, <1>9, <1>11 DEF Q!Take, m
<1> QED
    BY <1>12, <1>13, <1>14, <1>15 DEF Inv

\* generic_read_cb has handed over all it had read.
LEMMA ReadCbEndStep ==
    ASSUME Inv, ReadCbEnd
    PROVE  Inv' /\ QueueStays
<1>1. /\ pc = "loop" /\ msg = <<>> /\ pc' = "idle"
      /\ UNCHANGED <<body, wire, src, dst, moved, msg, done, conn, nomem>>
    BY DEF ReadCbEnd
<1>2. TypeOK' /\ IdleInv'
    BY <1>1 DEF Inv, TypeOK, IdleInv
<1>3. StreamInv'
    BY <1>1 DEF Inv, StreamInv
<1> QED
    BY <1>1, <1>2, <1>3 DEF Inv, QueueStays

-----------------------------------------------------------------------------
(* The theorems.                                                            *)

\* Every step keeps the invariant and is a step of MsgQueue or leaves its
\* variables alone.
LEMMA Step ==
    ASSUME Inv, [Next]_vars
    PROVE  Inv' /\ [Q!Next]_(Q!vars)
<1>1. QueueStays => UNCHANGED Q!vars
    BY DEF QueueStays, Q!vars
<1>2. CASE FilterStop
    BY <1>1, <1>2, FilterStopStep
<1>3. CASE FilterMove
    BY <1>1, <1>3, FilterMoveStep
<1>4. CASE ReadCb
    BY <1>1, <1>4, ReadCbStep
<1>5. CASE Proc
    BY <1>5, ProcStep DEF Q!Next
<1>6. CASE ReadCbEnd
    BY <1>1, <1>6, ReadCbEndStep
<1>7. CASE Arrive
    BY <1>1, <1>7, ArriveStep
<1>8. CASE EventCb
    BY <1>8, EventCbStep DEF Q!Next
<1>9. ASSUME NEW n \in 0 .. MaxBody, Write(n)
      PROVE  Inv' /\ [Q!Next]_(Q!vars)
    BY <1>9, WriteStep DEF Q!Next
<1>10. CASE UNCHANGED vars
  <2>1. Inv' /\ QueueStays
      BY <1>10 DEF vars, Inv, TypeOK, IdleInv, StreamInv, QueueStays
  <2> QED
      BY <1>1, <2>1
<1> QED
    BY <1>2, <1>3, <1>4, <1>5, <1>6, <1>7, <1>8, <1>9, <1>10
    DEF Next, LoopStep

\* The connection starts with empty buffers.
LEMMA Start == Init => Inv /\ Q!Init
<1> SUFFICES ASSUME Init PROVE Inv /\ Q!Init
    OBVIOUS
<1>1. TypeOK /\ IdleInv
  <2>1. /\ <<>> \in Seq(Byte) /\ <<>> \in Seq(0 .. MaxBody)
        /\ <<>> \in Seq(0 .. MaxMsgs) /\ Len(<<>>) = 0
      OBVIOUS
  <2>2. body \in Seq(0 .. MaxBody) /\ Len(body) <= MaxMsgs
      BY <2>1 DEF Init
  <2> QED
      BY <2>1, <2>2 DEF Init, TypeOK, IdleInv
<1>2. Q!Init
    BY DEF Init, Q!Init
<1>3. StreamInv
  <2>1. Carries(body, <<>>, <<1, 1>>, <<1, 1>>)
      BY DEF Carries, Run
  <2>2. <<1, 1>> \in Nat \X Nat /\ Len(done) + 1 = 1 /\ Len(body) + 1 = 1
      BY DEF Init
  <2>3. msg = <<>> /\ dst = <<>> /\ src = <<>> /\ wire = <<>>
      BY DEF Init
  <2> QED
      BY <2>1, <2>2, <2>3 DEF StreamInv
<1> QED
    BY <1>1, <1>2, <1>3 DEF Inv

\* generic_read_cb never reads past its buffer, for messages of any length in
\* pieces of any size, whatever callback runs out of memory.
THEOREM NeverOverrun == Spec => []NoOverrun
<1>1. Inv => NoOverrun
    BY DEF Inv, IdleInv, NoOverrun
<1>2. Inv /\ [Next]_vars => Inv'
    BY Step
<1> QED
    BY <1>1, <1>2, Start, PTL DEF Spec

\* The receiving side hands over what the peer has written, whole, in order and
\* once each.
THEOREM QueueRefinement == Spec => ImplementsQueue
<1>1. Inv /\ [Next]_vars => Inv' /\ [Q!Next]_(Q!vars)
    BY Step
<1> QED
    BY <1>1, Start, PTL DEF Spec, ImplementsQueue, Q!Spec
=============================================================================
