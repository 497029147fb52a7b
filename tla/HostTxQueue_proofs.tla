------------------------- MODULE HostTxQueue_proofs -------------------------
(***************************************************************************)
(* Proof that the ring of the nxp HOST build keeps order and hands over    *)
(* whole packets only, wherever it wraps and whenever the device goes      *)
(* away: for any size of the ring and of the driver's FIFO.                *)
(*                                                                         *)
(* RunEnd is recursive.  What it computes is proved by induction in the    *)
(* form of the least counterexample, LeastNat.                             *)
(***************************************************************************)
EXTENDS HostTxQueue, FiniteSets, FiniteSetTheorems, SequenceTheorems, TLAPS

\* What the words of a zero-length End add up to: a packet, as long as only
\* messages of two-word packets are abandoned.
EndsAreWhole == \A mt \in EndTypes : umpWordCount(mt) = 2

-----------------------------------------------------------------------------
(* Induction.                                                               *)

\* A set of naturals that is not empty has a least member.  If it had none, the
\* members below each of its members up to some top would be at least one and not
\* all of them, and no two members have equally many below them: one too many.
LEMMA LeastNat ==
    ASSUME NEW T \in SUBSET Nat, T # {}
    PROVE  \E n \in T : \A m \in T : n <= m
  <1> SUFFICES ASSUME \A n \in T : \E m \in T : m < n PROVE FALSE
    OBVIOUS
  <1>1. PICK top \in T : TRUE
    OBVIOUS
  <1> DEFINE A == {n \in T : n <= top}
             below(n) == {m \in A : m < n}
             c == Cardinality(A)
  <1>2. IsFiniteSet(A) /\ c \in Nat
    <2>1. top \in Int /\ 0 \in Int
      OBVIOUS
    <2>2. A \in SUBSET (0 .. top)
      <3>1. \A n \in A : n \in Nat /\ n <= top
        OBVIOUS
      <3> HIDE DEF A
      <3> QED BY <2>1, <3>1
    <2> HIDE DEF A
    <2>3. IsFiniteSet(0 .. top)
      BY <2>1, FS_Interval, Zenon
    <2>4. IsFiniteSet(A)
      BY <2>2, <2>3, FS_Subset
    <2> QED BY <2>4, FS_CardinalityType
  <1>3. \A n \in A : below(n) \in SUBSET A /\ n \notin below(n)
    OBVIOUS
  <1>4. \A n \in A : \E m \in A : m \in below(n)
    OBVIOUS
  <1>5. \A m, n \in A : m < n => m \in below(n)
    OBVIOUS
  <1>6. \A m, n \in A : m # n => m < n \/ n < m
    OBVIOUS
  <1>7. top \in A
    OBVIOUS
  <1> HIDE DEF A, below
  <1>8. \A n \in A : IsFiniteSet(below(n)) /\ Cardinality(below(n)) \in 1 .. c - 1
    <2> TAKE n \in A
    <2>1. /\ IsFiniteSet(below(n)) /\ Cardinality(below(n)) <= c
          /\ c = Cardinality(below(n)) => A = below(n)
      BY <1>2, <1>3, FS_Subset
    <2>2. Cardinality(below(n)) \in Nat
      BY <2>1, FS_CardinalityType
    <2>3. below(n) # {}
      BY <1>4
    <2>4. Cardinality(below(n)) # 0
      BY <2>1, <2>3, FS_EmptySet
    <2>5. Cardinality(below(n)) # c
      BY <1>3, <2>1
    <2> QED BY <1>2, <2>1, <2>2, <2>4, <2>5
  <1> DEFINE f == [n \in A |-> Cardinality(below(n))]
  <1>9. f \in [A -> 1 .. c - 1]
    BY <1>8
  <1>10. IsFiniteSet(1 .. c - 1) /\ Cardinality(1 .. c - 1) < c
    <2>1. 1 \in Int /\ c - 1 \in Int
      BY <1>2
    <2>2. /\ IsFiniteSet(1 .. c - 1)
          /\ Cardinality(1 .. c - 1) = IF 1 > c - 1 THEN 0 ELSE c - 1 - 1 + 1
      BY <2>1, FS_Interval
    <2>3. c # 0
      BY <1>2, <1>7, FS_EmptySet
    <2> QED BY <1>2, <2>2, <2>3
  <1>11. \A m, n \in A : m < n => Cardinality(below(m)) # Cardinality(below(n))
    <2> SUFFICES ASSUME NEW m \in A, NEW n \in A, m < n,
                        Cardinality(below(m)) = Cardinality(below(n))
                 PROVE  FALSE
      OBVIOUS
    <2>1. below(m) \in SUBSET below(n)
      <3> SUFFICES ASSUME NEW x \in below(m) PROVE x \in below(n)
        OBVIOUS
      <3>1. x \in A /\ x < m /\ x \in Nat /\ m \in Nat /\ n \in Nat
        BY DEF below, A
      <3>2. x < n
        BY <3>1
      <3> QED BY <1>5, <3>1, <3>2
    <2>2. below(m) = below(n)
      BY <1>8, <2>1, FS_Subset
    <2> QED BY <1>3, <1>5, <2>2
  <1>12. \E m, n \in A : m # n /\ f[m] = f[n]
    <2> HIDE DEF f, c
    <2>1. /\ IsFiniteSet(A) /\ IsFiniteSet(1 .. c - 1)
          /\ Cardinality(1 .. c - 1) < Cardinality(A)
      BY <1>2, <1>10 DEF c
    <2> QED BY <1>9, <2>1, FS_PigeonHole
  <1> QED BY <1>6, <1>11, <1>12

-----------------------------------------------------------------------------
(* Framing.                                                                 *)

LEMMA WordCount == \A mt : umpWordCount(mt) \in 1 .. 4
  BY DEF umpWordCount

\* q is whole packets, one after the other.
Framed(q) ==
    /\ \A i \in 1 .. Len(q) :
          /\ q[i].pos <= q[i].len
          /\ q[i].pos = 1 => q[i].len = umpWordCount(q[i].mt)
    /\ \A i \in 1 .. Len(q) - 1 :
          IF q[i].pos = q[i].len THEN q[i + 1].pos = 1
          ELSE q[i + 1].pos = q[i].pos + 1 /\ q[i + 1].len = q[i].len
    /\ Len(q) > 0 => q[1].pos = 1 /\ q[Len(q)].pos = q[Len(q)].len

\* Between words t and t + 1 of q a packet ends and another begins.
Boundary(q, t) ==
    /\ t \in 0 .. Len(q)
    /\ t < Len(q) => q[t + 1].pos = 1
    /\ t > 0 => q[t].pos = q[t].len

LEMMA NextBoundary ==
    ASSUME NEW q \in Seq(Word), Framed(q), NEW t \in 0 .. Len(q) - 1, Boundary(q, t)
    PROVE  Boundary(q, t + umpWordCount(q[t + 1].mt))
  <1> DEFINE n == umpWordCount(q[t + 1].mt)
  <1>1. n \in 1 .. 4
    BY WordCount
  <1>2. Len(q) \in Nat /\ \A i \in 1 .. Len(q) : q[i].pos \in 1 .. 4 /\ q[i].len \in 1 .. 4
    <2>1. Len(q) \in Nat /\ \A i \in 1 .. Len(q) : q[i] \in Word
      BY ElementOfSeq
    <2> QED BY <2>1 DEF Word
  <1>3. q[t + 1].pos = 1 /\ q[t + 1].len = n
    BY DEF Boundary, Framed
  <1> HIDE DEF n
  <1>4. ASSUME NEW j \in 1 .. 3, j < n, t + j <= Len(q), q[t + j].pos = j, q[t + j].len = n
        PROVE  t + j + 1 <= Len(q) /\ q[t + j + 1].pos = j + 1 /\ q[t + j + 1].len = n
    <2>1. q[t + j].pos # q[t + j].len /\ t + j \in 1 .. Len(q)
      BY <1>1, <1>2, <1>4
    <2>2. t + j # Len(q)
      BY <2>1 DEF Framed
    <2>3. t + j \in 1 .. Len(q) - 1
      BY <1>2, <2>1, <2>2
    <2>4. q[t + j + 1].pos = q[t + j].pos + 1 /\ q[t + j + 1].len = q[t + j].len
      BY <2>1, <2>3 DEF Framed
    <2> QED BY <1>2, <1>4, <2>3, <2>4
  <1>5. t + n \in 1 .. Len(q) /\ q[t + n].pos = n /\ q[t + n].len = n
    <2>1. CASE n = 1
      BY <1>2, <1>3, <2>1
    <2>2. CASE n = 2
      BY <1>2, <1>3, <1>4, <2>2
    <2>3. CASE n = 3
      <3>1. t + 2 <= Len(q) /\ q[t + 2].pos = 2 /\ q[t + 2].len = n
        BY <1>2, <1>3, <1>4, <2>3
      <3> QED BY <1>2, <1>4, <2>3, <3>1
    <2>4. CASE n = 4
      <3>1. t + 2 <= Len(q) /\ q[t + 2].pos = 2 /\ q[t + 2].len = n
        BY <1>2, <1>3, <1>4, <2>4
      <3>2. t + 3 <= Len(q) /\ q[t + 3].pos = 3 /\ q[t + 3].len = n
        BY <1>2, <1>4, <2>4, <3>1
      <3> QED BY <1>2, <1>4, <2>4, <3>2
    <2> QED BY <1>1, <2>1, <2>2, <2>3, <2>4
  <1>6. t + n < Len(q) => q[t + n + 1].pos = 1
    <2> SUFFICES ASSUME t + n < Len(q) PROVE q[t + n + 1].pos = 1
      OBVIOUS
    <2>1. t + n \in 1 .. Len(q) - 1
      BY <1>1, <1>2, <1>5
    <2> QED BY <1>5, <2>1 DEF Framed
  <1> QED BY <1>1, <1>2, <1>5, <1>6 DEF Boundary, n

LEMMA PacketFacts ==
    ASSUME NEW mt \in MessageType, NEW n \in 1 .. 4, NEW pid \in Nat
    PROVE  /\ Packet(mt, n, pid) \in Seq(Word) /\ Len(Packet(mt, n, pid)) = n
           /\ \A i \in 1 .. n : Packet(mt, n, pid)[i].pos = i /\ Packet(mt, n, pid)[i].len = n
           /\ Packet(mt, n, pid)[1].mt = mt
  <1>1. DataNibble \in MessageType
    BY HostTxQueueAssumption
  <1>2. Packet(mt, n, pid) \in [1 .. n -> Word]
    BY <1>1 DEF Packet, Word
  <1>3. Packet(mt, n, pid) \in Seq(Word) /\ Len(Packet(mt, n, pid)) = n
    BY <1>2
  <1> QED BY <1>3 DEF Packet

LEMMA FramedPush ==
    ASSUME NEW q \in Seq(Word), Framed(q), NEW mt \in MessageType, NEW pid \in Nat
    PROVE  Framed(q \o Packet(mt, umpWordCount(mt), pid))
  <1> DEFINE n == umpWordCount(mt)
             ws == Packet(mt, n, pid)
             r == q \o ws
  <1>1. n \in 1 .. 4
    BY WordCount
  <1>2. /\ ws \in Seq(Word) /\ Len(ws) = n /\ ws[1].mt = mt
        /\ \A i \in 1 .. n : ws[i].pos = i /\ ws[i].len = n
    <2>1. \A k \in 1 .. 4 :
            /\ Packet(mt, k, pid) \in Seq(Word) /\ Len(Packet(mt, k, pid)) = k
            /\ \A i \in 1 .. k : Packet(mt, k, pid)[i].pos = i /\ Packet(mt, k, pid)[i].len = k
            /\ Packet(mt, k, pid)[1].mt = mt
      BY PacketFacts, ZenonT(30)
    <2> HIDE DEF n
    <2> QED BY <1>1, <2>1
  <1> HIDE DEF ws
  <1>3. /\ Len(r) = Len(q) + n /\ Len(q) \in Nat
        /\ \A i \in 1 .. Len(q) : r[i] = q[i]
        /\ \A i \in 1 .. n : r[Len(q) + i] = ws[i]
    BY <1>1, <1>2, ConcatProperties
  <1>4. n = umpWordCount(mt)
    OBVIOUS
  <1> HIDE DEF r, n
  <1>5. \A i \in 1 .. Len(r) : i \in 1 .. Len(q) \/ \E j \in 1 .. n : i = Len(q) + j
    <2> TAKE i \in 1 .. Len(r)
    <2>1. i <= Len(q) \/ (i - Len(q) \in 1 .. n /\ i = Len(q) + (i - Len(q)))
      BY <1>1, <1>3
    <2> QED BY <1>3, <2>1
  <1>6. \A i \in 1 .. Len(r) :
          r[i].pos <= r[i].len /\ (r[i].pos = 1 => r[i].len = umpWordCount(r[i].mt))
    <2> SUFFICES ASSUME NEW i \in 1 .. Len(r)
                 PROVE  r[i].pos <= r[i].len /\ (r[i].pos = 1 => r[i].len = umpWordCount(r[i].mt))
      OBVIOUS
    <2>1. CASE i \in 1 .. Len(q)
      BY <1>3, <2>1 DEF Framed
    <2>2. ASSUME NEW j \in 1 .. n, i = Len(q) + j
          PROVE  r[i].pos <= r[i].len /\ (r[i].pos = 1 => r[i].len = umpWordCount(r[i].mt))
      BY <1>1, <1>2, <1>3, <1>4, <2>2
    <2> QED BY <1>5, <2>1, <2>2
  <1>7. \A i \in 1 .. Len(r) - 1 :
          IF r[i].pos = r[i].len THEN r[i + 1].pos = 1
          ELSE r[i + 1].pos = r[i].pos + 1 /\ r[i + 1].len = r[i].len
    <2> SUFFICES ASSUME NEW i \in 1 .. Len(r) - 1
                 PROVE  IF r[i].pos = r[i].len THEN r[i + 1].pos = 1
                        ELSE r[i + 1].pos = r[i].pos + 1 /\ r[i + 1].len = r[i].len
      OBVIOUS
    <2>1. CASE i \in 1 .. Len(q) - 1
      <3>1. r[i] = q[i] /\ r[i + 1] = q[i + 1]
        BY <1>3, <2>1
      <3> QED BY <2>1, <3>1 DEF Framed
    <2>2. CASE i = Len(q)
      <3>1. r[i] = q[i] /\ r[i + 1] = ws[1] /\ Len(q) > 0
        BY <1>1, <1>3, <2>2
      <3>2. q[i].pos = q[i].len
        BY <2>2, <3>1 DEF Framed
      <3> QED BY <1>1, <1>2, <3>1, <3>2
    <2>3. CASE i > Len(q)
      <3> DEFINE j == i - Len(q)
      <3>1. j \in 1 .. n - 1 /\ i = Len(q) + j /\ i + 1 = Len(q) + (j + 1)
        BY <1>1, <1>3, <2>3
      <3> HIDE DEF j
      <3>2. j \in 1 .. n /\ j + 1 \in 1 .. n /\ j # n
        BY <1>1, <3>1
      <3>3. r[i] = ws[j] /\ r[i + 1] = ws[j + 1]
        BY <1>3, <3>1, <3>2
      <3> QED BY <1>2, <3>2, <3>3
    <2> QED BY <1>3, <2>1, <2>2, <2>3
  <1>8. r[1].pos = 1 /\ r[Len(r)].pos = r[Len(r)].len
    <2>1. r[Len(r)] = ws[n]
      BY <1>1, <1>3
    <2>2. CASE Len(q) = 0
      <3>1. r[1] = ws[1]
        BY <1>1, <1>3, <2>2
      <3> QED BY <1>1, <1>2, <2>1, <3>1
    <2>3. CASE Len(q) > 0
      <3>1. r[1] = q[1] /\ q[1].pos = 1
        BY <1>3, <2>3 DEF Framed
      <3> QED BY <1>1, <1>2, <2>1, <3>1
    <2> QED BY <1>3, <2>2, <2>3
  <1> QED BY <1>6, <1>7, <1>8 DEF Framed, r, ws, n

LEMMA FramedRest ==
    ASSUME NEW r \in Seq(Word), NEW s \in Seq(Word), Framed(r \o s), Boundary(r \o s, Len(r))
    PROVE  Framed(s)
  <1> DEFINE q == r \o s
  <1>1. /\ Len(q) = Len(r) + Len(s) /\ Len(r) \in Nat /\ Len(s) \in Nat
        /\ \A i \in 1 .. Len(s) : q[Len(r) + i] = s[i]
    BY ConcatProperties
  <1>2. Framed(q) /\ Boundary(q, Len(r))
    OBVIOUS
  <1> HIDE DEF q
  <1>3. \A i \in 1 .. Len(s) : Len(r) + i \in 1 .. Len(q)
    BY <1>1
  <1>4. \A i \in 1 .. Len(s) :
          s[i].pos <= s[i].len /\ (s[i].pos = 1 => s[i].len = umpWordCount(s[i].mt))
    BY <1>1, <1>2, <1>3 DEF Framed
  <1>5. \A i \in 1 .. Len(s) - 1 :
          IF s[i].pos = s[i].len THEN s[i + 1].pos = 1
          ELSE s[i + 1].pos = s[i].pos + 1 /\ s[i + 1].len = s[i].len
    <2> TAKE i \in 1 .. Len(s) - 1
    <2>1. /\ Len(r) + i \in 1 .. Len(q) - 1 /\ Len(r) + i + 1 = Len(r) + (i + 1)
          /\ i \in 1 .. Len(s) /\ i + 1 \in 1 .. Len(s)
      BY <1>1
    <2>2. s[i] = q[Len(r) + i] /\ s[i + 1] = q[Len(r) + i + 1]
      BY <1>1, <2>1
    <2> QED BY <1>2, <2>1, <2>2 DEF Framed
  <1>6. Len(s) > 0 => s[1].pos = 1 /\ s[Len(s)].pos = s[Len(s)].len
    <2> SUFFICES ASSUME Len(s) > 0 PROVE s[1].pos = 1 /\ s[Len(s)].pos = s[Len(s)].len
      OBVIOUS
    <2>1. s[1] = q[Len(r) + 1] /\ s[Len(s)] = q[Len(q)] /\ Len(r) < Len(q) /\ Len(q) > 0
      BY <1>1
    <2> QED BY <1>2, <2>1 DEF Framed, Boundary
  <1> QED BY <1>4, <1>5, <1>6 DEF Framed

-----------------------------------------------------------------------------
(* RunEnd.                                                                  *)

Size(t) == umpWordCount(At(t).mt)

\* f is RunEnd's function from word n to the limit.
RunsFrom(f, n, limit) ==
    f = [t \in n .. limit |->
            IF t < limit /\ t + Size(t) <= limit THEN f[t + Size(t)] ELSE t]

LEMMA RunExists ==
    ASSUME NEW limit \in Nat PROVE \E f : RunsFrom(f, 0, limit)
  <1> DEFINE T == {k \in Nat : k <= limit /\ ~ \E f : RunsFrom(f, limit - k, limit)}
  <1>1. \A t : Size(t) \in 1 .. 4
    BY WordCount DEF Size
  <1>2. ASSUME T # {} PROVE FALSE
    <2>1. PICK k \in T : \A m \in T : k <= m
      <3>1. T \in SUBSET Nat
        OBVIOUS
      <3> HIDE DEF T
      <3> QED BY <1>2, <3>1, LeastNat
    <2>2. CASE k = 0
      <3> DEFINE f == [t \in limit .. limit |-> t]
      <3>1. f = [t \in limit .. limit |->
                    IF t < limit /\ t + Size(t) <= limit THEN f[t + Size(t)] ELSE t]
        OBVIOUS
      <3>2. limit - k = limit
        BY <2>2
      <3>3. RunsFrom(f, limit - k, limit)
        BY <3>1, <3>2 DEF RunsFrom
      <3> QED BY <3>3
    <2>3. CASE k # 0
      <3>1. k - 1 \in Nat /\ k - 1 <= limit /\ k - 1 \notin T
        BY <2>1, <2>3
      <3>2. PICK f : RunsFrom(f, limit - (k - 1), limit)
        BY <3>1
      <3> DEFINE n == limit - k
                 g == [t \in n .. limit |->
                         IF t = n THEN IF n + Size(n) <= limit THEN f[n + Size(n)] ELSE n
                         ELSE f[t]]
      <3>3. n \in Nat /\ n < limit /\ limit - (k - 1) = n + 1
        BY <2>1, <2>3
      <3> HIDE DEF n
      <3>4. f = [t \in n + 1 .. limit |->
                    IF t < limit /\ t + Size(t) <= limit THEN f[t + Size(t)] ELSE t]
        BY <3>2, <3>3 DEF RunsFrom
      <3>5. ASSUME NEW t \in n .. limit
            PROVE  g[t] = IF t < limit /\ t + Size(t) <= limit THEN g[t + Size(t)] ELSE t
        <4>1. t + Size(t) \in Nat /\ t + Size(t) > n /\ t + Size(t) # n
          BY <1>1, <3>3
        <4>2. t + Size(t) <= limit => g[t + Size(t)] = f[t + Size(t)]
          BY <3>3, <4>1
        <4>3. CASE t = n
          BY <3>3, <4>2, <4>3
        <4>4. CASE t # n
          <5>1. t \in n + 1 .. limit /\ g[t] = f[t]
            BY <3>3, <4>4
          <5>2. f[t] = IF t < limit /\ t + Size(t) <= limit THEN f[t + Size(t)] ELSE t
            BY <3>4, <5>1
          <5> QED BY <4>2, <5>1, <5>2
        <4> QED BY <4>3, <4>4
      <3>6. g = [t \in n .. limit |->
                    IF t < limit /\ t + Size(t) <= limit THEN g[t + Size(t)] ELSE t]
        BY <3>5
      <3>7. RunsFrom(g, limit - k, limit)
        BY <3>6 DEF RunsFrom, n
      <3> QED BY <3>7
    <2> QED BY <2>2, <2>3
  <1>3. limit \in Nat /\ limit <= limit /\ limit - limit = 0
    OBVIOUS
  <1> QED BY <1>2, <1>3

\* The run ends with a packet, and not beyond its limit.
LEMMA RunEndWhole ==
    ASSUME count \in Nat, Queue \in Seq(Word), Framed(Queue), NEW limit \in 0 .. count
    PROVE  RunEnd(limit) \in 0 .. limit /\ Boundary(Queue, RunEnd(limit))
  <1> DEFINE q == Queue
  <1>1. Len(q) = count /\ \A t \in 0 .. count - 1 : q[t + 1] = At(t)
    BY DEF Queue
  <1>2. PICK f : f = CHOOSE h : RunsFrom(h, 0, limit)
    OBVIOUS
  <1>3. RunsFrom(f, 0, limit)
    <2>1. limit \in Nat
      OBVIOUS
    <2> QED BY <1>2, <2>1, RunExists
  <1>4. RunEnd(limit) = f[0]
    BY <1>2 DEF RunEnd, RunsFrom, Size
  <1>5. \A t \in 0 .. limit :
          f[t] = IF t < limit /\ t + Size(t) <= limit THEN f[t + Size(t)] ELSE t
    BY <1>3 DEF RunsFrom
  <1>6. \A t \in 0 .. limit - 1 :
          /\ Size(t) \in 1 .. 4
          /\ Boundary(q, t) => Boundary(q, t + Size(t))
    <2> TAKE t \in 0 .. limit - 1
    <2>1. t \in 0 .. count - 1 /\ t \in 0 .. Len(q) - 1
      BY <1>1
    <2>2. Size(t) = umpWordCount(q[t + 1].mt)
      BY <1>1, <2>1 DEF Size
    <2> HIDE DEF q
    <2>3. q \in Seq(Word) /\ Framed(q)
      BY DEF q
    <2> QED BY <2>1, <2>2, <2>3, WordCount, NextBoundary
  <1>7. Boundary(q, 0)
    BY <1>1 DEF Boundary, Framed
  <1> HIDE DEF q
  <1> DEFINE Good(t) == f[t] \in 0 .. limit /\ Boundary(q, f[t])
             T == {k \in Nat : k <= limit /\ Boundary(q, limit - k) /\ ~Good(limit - k)}
  <1>8. ASSUME T # {} PROVE FALSE
    <2>1. PICK k \in T : \A m \in T : k <= m
      <3>1. T \in SUBSET Nat
        OBVIOUS
      <3> HIDE DEF T
      <3> QED BY <1>8, <3>1, LeastNat
    <2> DEFINE t == limit - k
    <2>2. t \in 0 .. limit /\ Boundary(q, t) /\ ~Good(t) /\ k \in Nat
      BY <2>1
    <2>3. CASE t < limit /\ t + Size(t) <= limit
      <3>1. t \in 0 .. limit - 1
        BY <2>2, <2>3
      <3>2. Size(t) \in 1 .. 4 /\ Boundary(q, t + Size(t))
        BY <1>6, <2>2, <3>1
      <3>3. f[t] = f[t + Size(t)]
        BY <1>5, <2>2, <2>3
      <3>4. k - Size(t) \in Nat /\ k - Size(t) < k /\ limit - (k - Size(t)) = t + Size(t)
            /\ k - Size(t) <= limit
        BY <2>1, <2>2, <2>3, <3>2
      <3>5. k - Size(t) \notin T
        BY <2>1, <3>4
      <3>6. Good(t + Size(t))
        BY <3>2, <3>4, <3>5
      <3> QED BY <2>2, <3>3, <3>6
    <2>4. CASE ~(t < limit /\ t + Size(t) <= limit)
      <3>1. f[t] = t
        BY <1>5, <2>2, <2>4
      <3> QED BY <2>2, <3>1
    <2> QED BY <2>3, <2>4
  <1>9. limit \notin T
    BY <1>8
  <1>10. limit \in Nat /\ limit <= limit /\ limit - limit = 0
    OBVIOUS
  <1>11. Good(0)
    BY <1>7, <1>9, <1>10
  <1> QED BY <1>4, <1>11 DEF q

-----------------------------------------------------------------------------
(* The ring.                                                                *)

K == kHostTxQWords

LEMMA Index ==
    ASSUME NEW h \in 0 .. K - 1, NEW a \in 0 .. K
    PROVE  /\ (h + a) % K = IF h + a < K THEN h + a ELSE h + a - K
           /\ (h + a) % K \in 0 .. K - 1
  <1> DEFINE x == h + a
  <1>1. K \in Nat \ {0} /\ x \in 0 .. 2 * K - 1
    BY HostTxQueueAssumption DEF K
  <1> HIDE DEF x
  <1>2. \A k \in Nat \ {0} : \A y \in 0 .. k - 1 : y % k = y
    OBVIOUS
  <1>3. \A k \in Nat \ {0} : \A y \in 0 .. k - 1 : (y + k) % k = y
    OBVIOUS
  <1>4. CASE x < K
    <2>1. x \in 0 .. K - 1
      BY <1>1, <1>4
    <2>2. x % K = x
      BY <1>1, <1>2, <2>1, Zenon
    <2> QED BY <1>4, <2>1, <2>2 DEF x
  <1>5. CASE ~(x < K)
    <2> DEFINE y == x - K
    <2>1. y \in 0 .. K - 1 /\ y + K = x /\ y = x - K
      BY <1>1, <1>5
    <2> HIDE DEF y
    <2>2. (y + K) % K = y
      BY <1>1, <1>3, <2>1, Zenon
    <2>3. x % K = y
      BY <2>1, <2>2
    <2>4. x % K = IF x < K THEN x ELSE x - K
      BY <1>5, <2>1, <2>3
    <2>5. x % K \in 0 .. K - 1
      BY <2>1, <2>3
    <2> QED BY <1>1, <1>5, <2>4, <2>5 DEF x
  <1> QED BY <1>4, <1>5

\* Places in the ring no further than its size apart are different.
LEMMA IndexDiffers ==
    ASSUME NEW h \in 0 .. K - 1, NEW a \in 0 .. K - 1, NEW b \in 0 .. K - 1, a # b
    PROVE  (h + a) % K # (h + b) % K
  <1>1. K \in Nat /\ a \in 0 .. K /\ b \in 0 .. K
    BY HostTxQueueAssumption DEF K
  <1>2. /\ (h + a) % K = IF h + a < K THEN h + a ELSE h + a - K
        /\ (h + b) % K = IF h + b < K THEN h + b ELSE h + b - K
    BY <1>1, Index
  <1> QED BY <1>1, <1>2

\* What is queued is a sequence of words.
LEMMA QueueFacts ==
    ASSUME TypeOK
    PROVE  /\ Queue \in Seq(Word) /\ Len(Queue) = count
           /\ \A i \in 0 .. count - 1 : Queue[i + 1] = s_hostTxQ[(head + i) % K]
  <1>1. \A i \in 0 .. count - 1 : (head + i) % K \in 0 .. K - 1
    <2> TAKE i \in 0 .. count - 1
    <2>1. i \in 0 .. K /\ head \in 0 .. K - 1
      BY HostTxQueueAssumption DEF TypeOK, K
    <2> QED BY <2>1, Index
  <1>2. \A i \in 1 .. count : s_hostTxQ[(head + (i - 1)) % K] \in Word
    <2> TAKE i \in 1 .. count
    <2>1. i - 1 \in 0 .. count - 1
      BY DEF TypeOK
    <2>2. (head + (i - 1)) % K \in 0 .. K - 1
      BY <1>1, <2>1
    <2> QED BY <2>2 DEF TypeOK, K
  <1>3. Queue = [i \in 1 .. count |-> s_hostTxQ[(head + (i - 1)) % K]]
    BY DEF Queue, At, K
  <1>4. count \in Nat
    BY HostTxQueueAssumption DEF TypeOK
  <1>5. Queue \in [1 .. count -> Word]
    BY <1>2, <1>3
  <1>6. Queue \in Seq(Word) /\ Len(Queue) = count
    BY <1>4, <1>5
  <1>7. \A i \in 0 .. count - 1 : Queue[i + 1] = s_hostTxQ[(head + i) % K]
    <2> TAKE i \in 0 .. count - 1
    <2>1. i + 1 \in 1 .. count /\ (i + 1) - 1 = i
      BY <1>4
    <2> QED BY <1>3, <2>1
  <1> QED BY <1>6, <1>7

\* Words pushed go behind those queued, wherever the ring wraps.
LEMMA PushAppends ==
    ASSUME TypeOK, NEW ws \in Seq(Word), Len(ws) \in 1 .. K - count,
           hostTxPush(ws), head' = head
    PROVE  /\ s_hostTxQ' \in [0 .. K - 1 -> Word]
           /\ count' \in 0 .. K
           /\ Queue' = Queue \o ws
  <1> DEFINE n == Len(ws)
             ix(a) == (head + a) % K
  <1>1. /\ K \in Nat /\ head \in 0 .. K - 1 /\ count \in 0 .. K /\ n \in 1 .. K - count
        /\ s_hostTxQ \in [0 .. K - 1 -> Word]
    BY HostTxQueueAssumption DEF TypeOK, K
  <1>2. \A a \in 0 .. K - 1 : ix(a) \in 0 .. K - 1
    <2> TAKE a \in 0 .. K - 1
    <2>1. a \in 0 .. K
      BY <1>1
    <2> QED BY <1>1, <2>1, Index
  <1>3. \A a, c \in 0 .. K - 1 : a # c => ix(a) # ix(c)
    BY <1>1, IndexDiffers
  <1>4. \A i \in 0 .. n - 1 : PushIndex(i) = ix(count + i) /\ count + i \in 0 .. K - 1
    <2> TAKE i \in 0 .. n - 1
    <2>1. head + count + i = head + (count + i) /\ count + i \in 0 .. K - 1
      BY <1>1
    <2> QED BY <2>1 DEF PushIndex, K
  <1> HIDE DEF ix, n
  <1>5. \A i, j \in 0 .. n - 1 : PushIndex(i) = PushIndex(j) => i = j
    <2> SUFFICES ASSUME NEW i \in 0 .. n - 1, NEW j \in 0 .. n - 1, i # j
                 PROVE  PushIndex(i) # PushIndex(j)
      OBVIOUS
    <2>1. count + i # count + j
      BY <1>1
    <2> QED BY <1>3, <1>4, <2>1
  <1>6. \A i \in 0 .. n - 1 : 1 + i \in 1 .. n /\ ws[1 + i] \in Word
    BY <1>1 DEF n
  <1> DEFINE new(j) == IF \E i \in 0 .. n - 1 : j = PushIndex(i)
                       THEN ws[1 + CHOOSE i \in 0 .. n - 1 : j = PushIndex(i)]
                       ELSE s_hostTxQ[j]
  <1>7. s_hostTxQ' = [j \in 0 .. K - 1 |-> new(j)]
    BY DEF hostTxPush, K, n
  <1>8. \A i \in 0 .. n - 1 : new(PushIndex(i)) = ws[1 + i]
    <2> TAKE i \in 0 .. n - 1
    <2>1. (CHOOSE k \in 0 .. n - 1 : PushIndex(i) = PushIndex(k)) = i
      BY <1>5
    <2> QED BY <2>1
  <1>9. \A j \in 0 .. K - 1 : new(j) \in Word
    <2> TAKE j \in 0 .. K - 1
    <2>1. CASE \E i \in 0 .. n - 1 : j = PushIndex(i)
      BY <1>6, <1>8, <2>1
    <2>2. CASE ~ \E i \in 0 .. n - 1 : j = PushIndex(i)
      BY <1>1, <2>2
    <2> QED BY <2>1, <2>2
  <1>10. \A a \in 0 .. count - 1 : new(ix(a)) = s_hostTxQ[ix(a)]
    <2> TAKE a \in 0 .. count - 1
    <2>1. a \in 0 .. K - 1
      BY <1>1
    <2>2. \A i \in 0 .. n - 1 : a # count + i
      BY <1>1
    <2>3. \A i \in 0 .. n - 1 : ix(a) # PushIndex(i)
      BY <1>3, <1>4, <2>1, <2>2
    <2> QED BY <2>3
  <1> HIDE DEF new
  <1>11. s_hostTxQ' \in [0 .. K - 1 -> Word] /\ \A j \in 0 .. K - 1 : s_hostTxQ'[j] = new(j)
    BY <1>7, <1>9
  <1>12. count' = count + n /\ count' \in 0 .. K
    BY <1>1 DEF hostTxPush, n
  <1>13. /\ Queue \in Seq(Word) /\ Len(Queue) = count
         /\ \A i \in 0 .. count - 1 : Queue[i + 1] = s_hostTxQ[ix(i)]
    BY QueueFacts DEF ix
  <1> DEFINE q == Queue \o ws
  <1>14. /\ q \in Seq(Word) /\ Len(q) = count + n
         /\ \A i \in 1 .. count : q[i] = Queue[i]
         /\ \A i \in 1 .. n : q[count + i] = ws[i]
    <2>1. /\ q \in Seq(Word) /\ Len(q) = Len(Queue) + Len(ws)
          /\ \A i \in 1 .. Len(Queue) + Len(ws) :
                q[i] = IF i <= Len(Queue) THEN Queue[i] ELSE ws[i - Len(Queue)]
      BY <1>13, ConcatProperties, Zenon
    <2> HIDE DEF q
    <2>2. \A i \in 1 .. count + n : q[i] = IF i <= count THEN Queue[i] ELSE ws[i - count]
      BY <1>13, <2>1 DEF n
    <2>3. \A i \in 1 .. count : q[i] = Queue[i]
      BY <1>1, <2>2
    <2>4. \A i \in 1 .. n : q[count + i] = ws[i]
      <3> TAKE i \in 1 .. n
      <3>1. count + i \in 1 .. count + n /\ ~(count + i <= count) /\ (count + i) - count = i
        BY <1>1
      <3> QED BY <2>2, <3>1
    <2> QED BY <1>13, <2>1, <2>3, <2>4 DEF n
  <1> HIDE DEF q
  <1>15. Queue' = [i \in 1 .. count + n |-> s_hostTxQ'[ix(i - 1)]]
    BY <1>12 DEF Queue, At, ix, K
  <1>16. \A i \in 1 .. count + n : s_hostTxQ'[ix(i - 1)] = q[i]
    <2> TAKE i \in 1 .. count + n
    <2>1. i - 1 \in 0 .. K - 1
      BY <1>1
    <2>2. s_hostTxQ'[ix(i - 1)] = new(ix(i - 1))
      BY <1>2, <1>11, <2>1
    <2>3. CASE i <= count
      <3>1. i - 1 \in 0 .. count - 1 /\ (i - 1) + 1 = i /\ i \in 1 .. count
        BY <1>1, <2>3
      <3>2. Queue[i] = s_hostTxQ[ix(i - 1)]
        BY <1>13, <3>1
      <3> QED BY <1>10, <1>14, <2>2, <3>1, <3>2
    <2>4. CASE i > count
      <3> DEFINE j == i - count
      <3>1. j - 1 \in 0 .. n - 1 /\ count + (j - 1) = i - 1 /\ 1 + (j - 1) = j
            /\ j \in 1 .. n /\ count + j = i
        BY <1>1, <2>4
      <3> HIDE DEF j
      <3>2. new(ix(i - 1)) = ws[j]
        BY <1>4, <1>8, <3>1
      <3>3. q[i] = ws[j]
        BY <1>14, <3>1
      <3> QED BY <2>2, <3>2, <3>3
    <2> QED BY <1>1, <2>3, <2>4
  <1>17. q = [i \in 1 .. count + n |-> q[i]]
    BY <1>14
  <1>18. Queue' = q
    BY <1>15, <1>16, <1>17
  <1> QED BY <1>11, <1>12, <1>18 DEF q

\* Words taken are the oldest ones, and leave the rest as it was.
LEMMA TakeRemoves ==
    ASSUME TypeOK, NEW w \in 1 .. count, head' = (head + w) % K, count' = count - w,
           s_hostTxQ' = s_hostTxQ
    PROVE  /\ head' \in 0 .. K - 1 /\ count' \in 0 .. K
           /\ [i \in 1 .. w |-> At(i - 1)] \in Seq(Word)
           /\ Queue' \in Seq(Word) /\ Len(Queue') = count - w
           /\ Queue = [i \in 1 .. w |-> At(i - 1)] \o Queue'
  <1> DEFINE run == [i \in 1 .. w |-> At(i - 1)]
             rest == [i \in 1 .. count - w |-> Queue[w + i]]
  <1>1. /\ K \in Nat /\ head \in 0 .. K - 1 /\ count \in 0 .. K /\ w \in 0 .. K
        /\ count - w \in Nat
    BY HostTxQueueAssumption DEF TypeOK, K
  <1>2. /\ Queue \in Seq(Word) /\ Len(Queue) = count
        /\ \A i \in 0 .. count - 1 : Queue[i + 1] = s_hostTxQ[(head + i) % K]
    BY QueueFacts
  <1>3. /\ (head + w) % K = IF head + w < K THEN head + w ELSE head + w - K
        /\ (head + w) % K \in 0 .. K - 1
    BY <1>1, Index
  <1>4. head' \in 0 .. K - 1 /\ count' \in 0 .. K
    BY <1>1, <1>3
  <1>5. \A i \in 0 .. count - w - 1 : (head' + i) % K = (head + (w + i)) % K
    <2> TAKE i \in 0 .. count - w - 1
    <2>1. i \in 0 .. K /\ w + i \in 0 .. K - 1 /\ w + i \in 0 .. K
      BY <1>1
    <2>2. /\ (head' + i) % K = IF head' + i < K THEN head' + i ELSE head' + i - K
          /\ (head + (w + i)) % K = IF head + (w + i) < K THEN head + (w + i)
                                    ELSE head + (w + i) - K
      BY <1>1, <1>4, <2>1, Index
    <2>3. head' = IF head + w < K THEN head + w ELSE head + w - K
      BY <1>3
    <2> QED BY <1>1, <2>1, <2>2, <2>3
  <1>6. Queue' = [i \in 1 .. count - w |-> s_hostTxQ[(head' + (i - 1)) % K]]
    BY DEF Queue, At, K
  <1>7. Queue' = rest
    <2>1. \A i \in 1 .. count - w : s_hostTxQ[(head' + (i - 1)) % K] = Queue[w + i]
      <3> TAKE i \in 1 .. count - w
      <3>1. i - 1 \in 0 .. count - w - 1 /\ w + (i - 1) \in 0 .. count - 1
            /\ (w + (i - 1)) + 1 = w + i
        BY <1>1
      <3> QED BY <1>2, <1>5, <3>1
    <2> QED BY <1>6, <2>1
  <1>8. \A i \in 1 .. w : run[i] = Queue[i]
    BY <1>1 DEF Queue
  <1>9. \A i \in 1 .. count : Queue[i] \in Word
    BY <1>2
  <1>10. run \in Seq(Word) /\ Len(run) = w
    <2>1. run = [i \in 1 .. w |-> Queue[i]]
      BY <1>8
    <2>2. \A i \in 1 .. w : Queue[i] \in Word
      BY <1>1, <1>9
    <2>3. w \in Nat
      BY <1>1
    <2> HIDE DEF run
    <2> QED BY <2>1, <2>2, <2>3
  <1>11. rest \in Seq(Word) /\ Len(rest) = count - w /\ \A i \in 1 .. count - w : rest[i] = Queue[w + i]
    <2>1. \A i \in 1 .. count - w : Queue[w + i] \in Word
      BY <1>1, <1>9
    <2> QED BY <1>1, <2>1
  <1> HIDE DEF run, rest
  <1>12. /\ run \o rest \in Seq(Word) /\ Len(run \o rest) = w + (count - w)
         /\ \A i \in 1 .. w + (count - w) :
               (run \o rest)[i] = IF i <= w THEN run[i] ELSE rest[i - w]
    <2>1. /\ run \o rest \in Seq(Word) /\ Len(run \o rest) = Len(run) + Len(rest)
          /\ \A i \in 1 .. Len(run) + Len(rest) :
                (run \o rest)[i] = IF i <= Len(run) THEN run[i] ELSE rest[i - Len(run)]
      BY <1>10, <1>11, ConcatProperties, Zenon
    <2> QED BY <1>10, <1>11, <2>1
  <1>13. \A i \in 1 .. count : (run \o rest)[i] = Queue[i]
    <2> TAKE i \in 1 .. count
    <2>1. i \in 1 .. w + (count - w)
      BY <1>1
    <2>2. CASE i <= w
      <3>1. i \in 1 .. w
        BY <1>1, <2>2
      <3> QED BY <1>8, <1>12, <2>1, <2>2, <3>1
    <2>3. CASE i > w
      <3>1. i - w \in 1 .. count - w /\ w + (i - w) = i /\ ~(i <= w)
        BY <1>1, <2>3
      <3>2. (run \o rest)[i] = rest[i - w]
        BY <1>12, <2>1, <3>1
      <3>3. rest[i - w] = Queue[w + (i - w)]
        BY <1>11, <3>1
      <3> QED BY <3>1, <3>2, <3>3
    <2>4. i <= w \/ i > w
      BY <1>1
    <2> QED BY <2>2, <2>3, <2>4
  <1>14. Queue = run \o rest
    <2>1. Len(run \o rest) = count
      BY <1>1, <1>12
    <2> QED BY <1>2, <1>12, <1>13, <2>1, SeqEqual
  <1> QED BY <1>4, <1>7, <1>10, <1>11, <1>14 DEF run

-----------------------------------------------------------------------------
(* The invariant.                                                           *)

\* What is queued is whole packets, none lost or out of order; and inside
\* hostTxDrain() a driver that is there has at least the room asked for.
QueueInv ==
    /\ TypeOK
    /\ Framed(Queue)
    /\ queued = written \o Queue
    /\ torn = FALSE
    /\ pc = "drain" /\ mounted => room <= writeable

\* Nothing queued, nothing to frame.
LEMMA EmptyQueue ==
    ASSUME NEW q \in Seq(Word), Len(q) = 0 PROVE Framed(q)
  BY DEF Framed

LEMMA InitQueue == Init => QueueInv
  <1> SUFFICES ASSUME Init PROVE QueueInv
    OBVIOUS
  <1>1. Blank \in Word
    BY DEF Blank, Word, MessageType
  <1>2. s_hostTxQ \in [0 .. kHostTxQWords - 1 -> Word]
    BY <1>1 DEF Init
  <1>3. head \in 0 .. kHostTxQWords - 1 /\ count \in 0 .. kHostTxQWords
    BY HostTxQueueAssumption DEF Init
  <1>4. writeable \in 0 .. DriverWords /\ room \in 0 .. DriverWords
    BY HostTxQueueAssumption DEF Init
  <1>5. TypeOK
    <2>1. {session, mounted, torn} \subseteq BOOLEAN /\ pc \in {"other", "drain"}
      BY DEF Init
    <2>2. queued \in Seq(Word) /\ written \in Seq(Word)
      BY DEF Init
    <2>3. pushed \in Nat /\ unmounts \in Nat
      BY DEF Init
    <2> QED BY <1>2, <1>3, <1>4, <2>1, <2>2, <2>3 DEF TypeOK
  <1>6. Queue \in Seq(Word) /\ Len(Queue) = 0
    BY <1>5, QueueFacts DEF Init
  <1>7. Queue = <<>> /\ written = <<>> /\ queued = <<>>
    BY <1>6 DEF Init
  <1>8. queued = written \o Queue
    BY <1>6, <1>7, ConcatEmptySeq
  <1> QED BY <1>5, <1>6, <1>8, EmptyQueue DEF Init, QueueInv

\* A packet pushed with room for it.
LEMMA PushKeeps ==
    ASSUME QueueInv, NEW mt \in MessageType, Fits(umpWordCount(mt)),
           hostTxPush(Packet(mt, umpWordCount(mt), pushed + 1)),
           UNCHANGED <<head, session, pc, room, written, torn, usb>>
    PROVE  QueueInv'
  <1> DEFINE n == umpWordCount(mt)
             ws == Packet(mt, n, pushed + 1)
  <1>1. pushed + 1 \in Nat /\ TypeOK
    <2>1. TypeOK
      BY DEF QueueInv
    <2>2. pushed \in Nat
      BY <2>1 DEF TypeOK
    <2> QED BY <2>1, <2>2
  <1>2. ws \in Seq(Word) /\ Len(ws) = n
    <2>1. n \in 1 .. 4
      BY WordCount
    <2>2. \A k \in 1 .. 4 : \A p \in Nat :
            /\ Packet(mt, k, p) \in Seq(Word) /\ Len(Packet(mt, k, p)) = k
            /\ \A i \in 1 .. k : Packet(mt, k, p)[i].pos = i /\ Packet(mt, k, p)[i].len = k
            /\ Packet(mt, k, p)[1].mt = mt
      BY PacketFacts, Zenon
    <2> HIDE DEF n
    <2> QED BY <1>1, <2>1, <2>2
  <1>3. hostTxPush(ws) /\ queued' = queued \o ws /\ pushed' = pushed + 1
    BY DEF hostTxPush
  <1>4. Queue \in Seq(Word) /\ Framed(Queue) /\ queued = written \o Queue
    BY <1>1, QueueFacts DEF QueueInv
  <1>5. Framed(Queue \o ws)
    BY <1>1, <1>4, FramedPush
  <1> HIDE DEF ws
  <1>6. Len(ws) \in 1 .. K - count
    <2>1. n \in 1 .. 4 /\ Fits(n)
      BY WordCount
    <2> HIDE DEF n
    <2> QED BY <1>1, <1>2, <2>1, HostTxQueueAssumption DEF Fits, hostTxRoom, K, TypeOK
  <1>7. head' = head
    OBVIOUS
  <1>8. /\ s_hostTxQ' \in [0 .. K - 1 -> Word]
        /\ count' \in 0 .. K
        /\ Queue' = Queue \o ws
    BY <1>1, <1>2, <1>3, <1>6, <1>7, PushAppends, Zenon
  <1>9. written \in Seq(Word) /\ queued \in Seq(Word)
    BY <1>1 DEF TypeOK
  <1>10. queued' = written \o (Queue \o ws)
    <2>1. (written \o Queue) \o ws = written \o (Queue \o ws)
      BY <1>2, <1>4, <1>9, ConcatAssociative
    <2> QED BY <1>3, <1>4, <2>1
  <1>11. queued' \in Seq(Word)
    BY <1>2, <1>3, <1>9, ConcatProperties
  <1>12. TypeOK'
    BY <1>1, <1>3, <1>8, <1>11 DEF TypeOK, K, usb
  <1>13. Framed(Queue)' /\ (queued = written \o Queue)'
    BY <1>5, <1>8, <1>10
  <1>14. torn' = FALSE /\ (pc' = "drain" /\ mounted' => room' <= writeable')
    BY DEF QueueInv, usb
  <1> QED BY <1>12, <1>13, <1>14 DEF QueueInv

LEMMA PushPacketKeeps ==
    ASSUME QueueInv, PushPacket PROVE QueueInv'
  <1>1. PICK mt \in MsgTypes :
           Fits(umpWordCount(mt)) /\ hostTxPush(Packet(mt, umpWordCount(mt), pushed + 1))
    BY DEF PushPacket
  <1>2. mt \in MessageType
    BY HostTxQueueAssumption
  <1>3. UNCHANGED <<head, session, pc, room, written, torn, usb>>
    BY DEF PushPacket
  <1> QED BY <1>1, <1>2, <1>3, PushKeeps, Zenon

LEMMA PushEndKeeps ==
    ASSUME EndsAreWhole, QueueInv, PushEnd PROVE QueueInv'
  <1>1. PICK mt \in EndTypes : hostTxPush(Packet(mt, 2, pushed + 1))
    BY DEF PushEnd
  <1>2. mt \in MessageType /\ umpWordCount(mt) = 2 /\ Fits(2)
    BY HostTxQueueAssumption DEF EndsAreWhole, PushEnd
  <1>3. UNCHANGED <<head, session, pc, room, written, torn, usb>>
    BY DEF PushEnd
  <1> QED BY <1>1, <1>2, <1>3, PushKeeps, Zenon

LEMMA ClearKeeps ==
    ASSUME QueueInv, ClearQueue PROVE QueueInv'
  <1>1. TypeOK'
    BY HostTxQueueAssumption DEF QueueInv, TypeOK, ClearQueue, usb
  <1>2. count' = 0 /\ written' = <<>> /\ queued' = <<>>
    BY DEF ClearQueue
  <1>3. Queue' \in Seq(Word) /\ Len(Queue') = 0 /\ Queue' = <<>>
    BY <1>2 DEF Queue
  <1>4. (queued = written \o Queue)'
    BY <1>2, <1>3, ConcatEmptySeq
  <1>5. Framed(Queue')
    BY <1>3, EmptyQueue
  <1>6. torn' = FALSE /\ (pc' = "drain" /\ mounted' => room' <= writeable')
    BY DEF QueueInv, ClearQueue, usb
  <1> QED BY <1>1, <1>4, <1>5, <1>6 DEF QueueInv

\* A step that leaves the ring and its history alone.
LEMMA RingUntouched ==
    ASSUME QueueInv, TypeOK', UNCHANGED <<s_hostTxQ, head, count, queued, written, torn>>,
           pc' = "drain" /\ mounted' => room' <= writeable'
    PROVE  QueueInv'
  <1>1. Queue' = Queue
    BY DEF Queue, At
  <1>2. Framed(Queue)' /\ (queued = written \o Queue)' /\ torn' = FALSE
    BY <1>1 DEF QueueInv
  <1> QED BY <1>2 DEF QueueInv

LEMMA UsbKeeps ==
    ASSUME QueueInv, Mount \/ Unmount \/ DeviceTakes PROVE QueueInv'
  <1>1. UNCHANGED <<s_hostTxQ, head, count, session, queued, written, torn, pc, room, pushed>>
    BY DEF Mount, Unmount, DeviceTakes, ghosts
  <1>2. /\ mounted' \in BOOLEAN /\ writeable' \in 0 .. DriverWords /\ unmounts' \in Nat
        /\ pc' = "drain" /\ mounted' => room' <= writeable'
    <2>1. CASE Mount
      <3>1. mounted' = TRUE /\ writeable' = DriverWords /\ unmounts' = unmounts
        BY <2>1 DEF Mount
      <3>2. room \in 0 .. DriverWords /\ DriverWords \in Nat /\ unmounts \in Nat
        BY HostTxQueueAssumption DEF QueueInv, TypeOK
      <3>3. room' <= writeable' /\ writeable' \in 0 .. DriverWords
        BY <1>1, <3>1, <3>2
      <3> QED BY <3>1, <3>2, <3>3
    <2>2. CASE Unmount
      <3>1. mounted' = FALSE /\ writeable' = 0 /\ unmounts' = unmounts + 1
        BY <2>2 DEF Unmount
      <3>2. DriverWords \in Nat /\ unmounts \in Nat
        BY HostTxQueueAssumption DEF QueueInv, TypeOK
      <3>3. writeable' \in 0 .. DriverWords /\ unmounts' \in Nat
        BY <3>1, <3>2
      <3> QED BY <3>1, <3>3
    <2>3. CASE DeviceTakes
      <3>1. writeable' \in writeable + 1 .. DriverWords /\ mounted' = mounted
            /\ unmounts' = unmounts
        BY <2>3 DEF DeviceTakes
      <3>2. room \in 0 .. DriverWords /\ writeable \in 0 .. DriverWords /\ unmounts \in Nat
            /\ mounted \in BOOLEAN
        BY DEF QueueInv, TypeOK
      <3>3. writeable' \in 0 .. DriverWords /\ (room <= writeable => room <= writeable')
        BY <3>1, <3>2
      <3>4. pc = "drain" /\ mounted => room <= writeable
        BY DEF QueueInv
      <3> QED BY <1>1, <3>1, <3>2, <3>3, <3>4
    <2> QED BY <2>1, <2>2, <2>3
  <1>3. TypeOK'
    BY <1>1, <1>2 DEF QueueInv, TypeOK
  <1> QED BY <1>1, <1>2, <1>3, RingUntouched

LEMMA BeginKeeps ==
    ASSUME QueueInv, BeginDrain PROVE QueueInv'
  <1>1. UNCHANGED <<s_hostTxQ, head, count, session, queued, written, torn, pushed, usb>>
        /\ pc' = "drain" /\ room' = writeable
    BY DEF BeginDrain, ghosts
  <1>2. writeable' = writeable /\ writeable \in 0 .. DriverWords
    BY <1>1 DEF QueueInv, TypeOK, usb
  <1>3. room' <= writeable'
    BY <1>1, <1>2
  <1>4. TypeOK'
    BY <1>1, <1>2 DEF QueueInv, TypeOK, usb
  <1> QED BY <1>1, <1>3, <1>4, RingUntouched

LEMMA EndKeeps ==
    ASSUME QueueInv, EndDrain \/ UNCHANGED vars PROVE QueueInv'
  <1>1. UNCHANGED <<s_hostTxQ, head, count, session, queued, written, torn, pushed, room, usb>>
        /\ (pc' = "other" \/ pc' = pc)
    BY DEF EndDrain, vars, ghosts
  <1>2. pc' = "drain" /\ mounted' => room' <= writeable'
    BY <1>1 DEF QueueInv, usb
  <1>3. TypeOK'
    BY <1>1 DEF QueueInv, TypeOK, usb
  <1> QED BY <1>1, <1>2, <1>3, RingUntouched

\* A session that begins or ends: the ring keeps what it holds.
LEMMA SessionKeeps ==
    ASSUME QueueInv, BeginSession \/ EndSession PROVE QueueInv'
  <1>1. /\ UNCHANGED <<s_hostTxQ, head, count, pc, queued, written, torn, pushed, room, usb>>
        /\ session' \in BOOLEAN
    BY DEF BeginSession, EndSession, ghosts
  <1>2. pc' = "drain" /\ mounted' => room' <= writeable'
    BY <1>1 DEF QueueInv, usb
  <1>3. TypeOK'
    BY <1>1 DEF QueueInv, TypeOK, usb
  <1> QED BY <1>1, <1>2, <1>3, RingUntouched

\* What one write call is given: whole packets, as many words as there is room for.
LEMMA RunLengthWhole ==
    ASSUME QueueInv, count > 0
    PROVE  RunLength \in 0 .. count /\ RunLength <= room /\ Boundary(Queue, RunLength)
  <1> DEFINE n == umpWordCount(At(0).mt)
             limit == LowerOf(Contiguous, room)
  <1>1. /\ count \in 1 .. K /\ head \in 0 .. K - 1 /\ room \in Nat /\ K \in Nat
        /\ TypeOK /\ Framed(Queue)
    BY HostTxQueueAssumption DEF QueueInv, TypeOK, K
  <1>2. Queue \in Seq(Word) /\ Len(Queue) = count
    BY <1>1, QueueFacts
  <1>3. limit \in 0 .. count /\ limit <= room
    <2>1. Contiguous \in 0 .. count
      BY <1>1 DEF Contiguous, LowerOf, K
    <2> QED BY <1>1, <2>1 DEF LowerOf
  <1> HIDE DEF limit
  <1>4. RunEnd(limit) \in 0 .. limit /\ Boundary(Queue, RunEnd(limit))
    BY <1>1, <1>2, <1>3, RunEndWhole
  <1>5. take = RunEnd(limit)
    BY DEF take, limit
  <1>6. Boundary(Queue, 0)
    BY <1>1, <1>2 DEF Boundary, Framed
  <1>7. Boundary(Queue, 0 + umpWordCount(Queue[0 + 1].mt))
    <2>1. 0 \in 0 .. Len(Queue) - 1
      BY <1>1, <1>2
    <2> QED BY <1>1, <1>2, <1>6, <2>1, NextBoundary
  <1>8. Queue[0 + 1] = At(0)
    <2>1. 0 + 1 = 1 /\ 1 - 1 = 0 /\ 1 \in 1 .. count
      BY <1>1
    <2> QED BY <2>1 DEF Queue
  <1>9. n \in 1 .. 4
    BY WordCount
  <1>10. Boundary(Queue, n)
    <2> DEFINE w == umpWordCount(Queue[0 + 1].mt)
    <2>1. w = n
      BY <1>8
    <2>2. Boundary(Queue, 0 + w)
      BY <1>7
    <2> HIDE DEF w, n
    <2>3. 0 + w = n
      BY <1>9, <2>1
    <2> QED BY <2>2, <2>3
  <1> HIDE DEF n
  <1>11. Straddles = IF n <= LowerOf(room, count) THEN n ELSE 0
    BY DEF Straddles, n
  <1>12. Straddles \in 0 .. count /\ Straddles <= room /\ (Straddles = n \/ Straddles = 0)
    BY <1>1, <1>9, <1>11 DEF LowerOf
  <1>13. CASE take > 0
    <2>1. RunLength = RunEnd(limit)
      BY <1>5, <1>13 DEF RunLength
    <2>2. RunEnd(limit) \in 0 .. count /\ RunEnd(limit) <= room
      BY <1>1, <1>3, <1>4
    <2> QED BY <1>4, <2>1, <2>2
  <1>14. CASE ~(take > 0)
    <2>1. RunLength = Straddles
      BY <1>14 DEF RunLength
    <2> QED BY <1>6, <1>10, <1>12, <2>1
  <1> QED BY <1>13, <1>14

LEMMA WriteKeeps ==
    ASSUME QueueInv, WriteRun PROVE QueueInv'
  <1> DEFINE wrote == IF mounted THEN LowerOf(RunLength, writeable) ELSE 0
             sent  == [i \in 1 .. wrote |-> At(i - 1)]
  <1>1. /\ pc = "drain" /\ count > 0 /\ RunLength > 0
        /\ UNCHANGED <<s_hostTxQ, session, pushed, queued, mounted, unmounts>>
    BY DEF WriteRun
  <1>2. CASE wrote = 0
    <2>1. pc' = "other" /\ UNCHANGED <<head, count, room, written, torn, writeable>>
      BY <1>2 DEF WriteRun
    <2>2. TypeOK'
      BY <1>1, <2>1 DEF QueueInv, TypeOK
    <2> QED BY <1>1, <2>1, <2>2, RingUntouched
  <1>3. CASE wrote # 0
    <2> DEFINE w == RunLength
    <2>1. /\ TypeOK /\ Framed(Queue) /\ queued = written \o Queue /\ torn = FALSE
          /\ w \in 1 .. count /\ w <= room /\ Boundary(Queue, w)
      <3>1. count \in Nat
        BY HostTxQueueAssumption DEF QueueInv, TypeOK
      <3>2. w \in 0 .. count /\ w <= room /\ Boundary(Queue, w)
        BY <1>1, RunLengthWhole
      <3>3. w \in 1 .. count
        BY <1>1, <3>1, <3>2
      <3> QED BY <3>2, <3>3 DEF QueueInv
    <2>2. mounted /\ room <= writeable
      BY <1>1, <1>3 DEF QueueInv
    <2>3. wrote = w
      <3>1. w \in Nat /\ room \in Nat /\ writeable \in Nat
        BY <2>1, HostTxQueueAssumption DEF TypeOK
      <3> HIDE DEF w
      <3>2. LowerOf(w, writeable) = w
        BY <2>1, <2>2, <3>1 DEF LowerOf
      <3> QED BY <2>2, <3>2 DEF w
    <2>4. /\ head' = (head + w) % K /\ count' = count - w
          /\ room' = room - w /\ writeable' = writeable - w
          /\ written' = written \o [i \in 1 .. w |-> At(i - 1)]
          /\ torn' = (torn \/ sent[1].pos # 1 \/ sent[wrote].pos # sent[wrote].len)
          /\ pc' = pc
      BY <1>3, <2>3 DEF WriteRun, K
    <2> HIDE DEF w, wrote
    <2> DEFINE run == [i \in 1 .. w |-> At(i - 1)]
    <2>5. /\ head' \in 0 .. K - 1 /\ count' \in 0 .. K
          /\ run \in Seq(Word)
          /\ Queue' \in Seq(Word) /\ Len(Queue') = count - w
          /\ Queue = run \o Queue'
      <3>1. s_hostTxQ' = s_hostTxQ
        BY <1>1
      <3> QED BY <2>1, <2>4, <3>1, TakeRemoves
    <2>6. Queue \in Seq(Word) /\ Len(Queue) = count
      BY <2>1, QueueFacts
    <2>7. \A i \in 1 .. w : run[i] = Queue[i]
      <3>1. \A i \in 1 .. w : i \in 1 .. count
        BY <2>1, <2>6
      <3> QED BY <3>1 DEF Queue
    <2>8. run[1].pos = 1 /\ run[w].pos = run[w].len
      <3>1. 1 \in 1 .. w /\ w \in 1 .. w /\ w > 0 /\ Len(Queue) > 0
        BY <2>1, <2>6
      <3>2. run[1] = Queue[1] /\ run[w] = Queue[w]
        BY <2>7, <3>1
      <3> QED BY <2>1, <3>1, <3>2 DEF Framed, Boundary
    <2>9. sent = run
      BY <2>3
    <2> HIDE DEF run, sent
    <2>10. torn' = FALSE
      BY <2>1, <2>3, <2>4, <2>8, <2>9
    <2>11. Len(run) = w
      <3>1. w \in Nat
        BY <2>1, <2>6
      <3> QED BY <3>1 DEF run
    <2>12. Framed(Queue')
      <3>1. Framed(run \o Queue') /\ Boundary(run \o Queue', Len(run))
        BY <2>1, <2>5, <2>11
      <3> QED BY <2>5, <3>1, FramedRest
    <2>13. written \in Seq(Word) /\ written' = written \o run
      BY <2>1, <2>4 DEF TypeOK, run
    <2>14. (queued = written \o Queue)'
      <3>1. queued' = written \o (run \o Queue')
        BY <1>1, <2>1, <2>5
      <3>2. (written \o run) \o Queue' = written \o (run \o Queue')
        BY <2>5, <2>13, ConcatAssociative, SMTT(30)
      <3> QED BY <2>13, <3>1, <3>2
    <2>15. written' \in Seq(Word)
      BY <2>5, <2>13, ConcatProperties
    <2>16. /\ room' \in 0 .. DriverWords /\ writeable' \in 0 .. DriverWords
           /\ room' <= writeable'
      <3>1. room \in 0 .. DriverWords /\ writeable \in 0 .. DriverWords
        BY <2>1 DEF TypeOK
      <3>2. DriverWords \in Nat /\ count \in Nat
        BY <2>1, HostTxQueueAssumption DEF TypeOK
      <3>3. w \in Nat /\ w <= room
        BY <2>1, <3>2
      <3>4. room <= writeable /\ room' = room - w /\ writeable' = writeable - w
        BY <2>2, <2>4
      <3> QED BY <3>1, <3>2, <3>3, <3>4
    <2>17. TypeOK'
      <3>1. s_hostTxQ' \in [0 .. kHostTxQWords - 1 -> Word] /\ pushed' \in Nat
            /\ queued' \in Seq(Word) /\ unmounts' \in Nat /\ pc' \in {"other", "drain"}
        BY <1>1, <2>1, <2>4 DEF TypeOK
      <3>2. {session, mounted, torn}' \subseteq BOOLEAN
        BY <1>1, <2>1, <2>10 DEF TypeOK
      <3> QED BY <2>5, <2>15, <2>16, <3>1, <3>2 DEF TypeOK, K
    <2> QED BY <2>10, <2>12, <2>14, <2>16, <2>17 DEF QueueInv
  <1> QED BY <1>2, <1>3

LEMMA QueueInvHolds ==
    ASSUME EndsAreWhole PROVE Spec => []QueueInv
<1>1. QueueInv /\ [Next]_vars => QueueInv'
  BY PushPacketKeeps, PushEndKeeps, ClearKeeps, BeginKeeps, WriteKeeps, EndKeeps, UsbKeeps,
     SessionKeeps DEF Next, Drain
<1> QED BY <1>1, InitQueue, PTL DEF Spec

-----------------------------------------------------------------------------
(* Theorems.                                                                *)

\* Every variable of the ring keeps its type; in particular the ring never holds
\* more words than it has places, and a drain never counts more room than the
\* driver's FIFO has.
THEOREM HostTxQueueTypes ==
    ASSUME EndsAreWhole PROVE Spec => []TypeOK
<1>1. QueueInv => TypeOK
  BY DEF QueueInv
<1> QED BY <1>1, QueueInvHolds, PTL

\* Nothing is lost, repeated or reordered on the way through the ring, wherever
\* it wraps, and every write call begins and ends at a packet.
THEOREM HostTxQueueInOrder ==
    ASSUME EndsAreWhole PROVE Spec => []InOrder
<1>1. QueueInv => InOrder
  BY DEF QueueInv, InOrder
<1> QED BY <1>1, QueueInvHolds, PTL
=============================================================================
