--------------------------- MODULE UsbStage_proofs ---------------------------
(***************************************************************************)
(* Proof that what onUmp() and usbStageFlush() hand to tusb_ump always     *)
(* fits, however long ago the room was asked for, whatever the USB task    *)
(* does in between and whichever sizes the stage and the FIFO have; and    *)
(* that nothing is lost or overtaken on the way while the host stays.      *)
(***************************************************************************)
EXTENDS UsbStage, SequenceTheorems, TLAPS

\* The promise: what is staged and what is pending fit into the FIFO together.
Promise == Len(stage) + Len(run) <= writeable

StageInv == TypeOK /\ Promise /\ NeverTorn

Ghost == Nat \X Nat

SinkState == [room : 0 .. FifoWords, out : Seq(Ghost), torn : BOOLEAN]

-----------------------------------------------------------------------------
(* Lengths and writes.                                                      *)

LEMMA WordCountRange == \A mt : umpWordCount(mt) \in 1 .. 4
  BY DEF umpWordCount

LEMMA WordsFacts ==
    ASSUME NEW id \in Nat, NEW n \in Nat
    PROVE  Words(id, n) \in Seq(Ghost) /\ Len(Words(id, n)) = n
  <1>1. Words(id, n) = [i \in 1 .. n |-> <<id, i>>]
    BY DEF Words
  <1>2. \A i \in 1 .. n : <<id, i>> \in Ghost
    BY DEF Ghost
  <1>3. Words(id, n) \in [1 .. n -> Ghost]
    BY <1>1, <1>2
  <1>4. Words(id, n) \in Seq(Ghost)
    BY <1>3, IsASeq
  <1>5. DOMAIN Words(id, n) = 1 .. n
    BY <1>1
  <1>6. Len(Words(id, n)) = n
    BY <1>4, <1>5, LenProperties
  <1> QED BY <1>4, <1>6

\* A write of what fits is never cut, and leaves room for the rest.
LEMMA PutFits ==
    ASSUME NEW s \in SinkState, NEW ws \in Seq(Ghost), Len(ws) <= s.room,
           mounted \in BOOLEAN
    PROVE  /\ Put(s, ws) \in SinkState
           /\ Put(s, ws).torn <=> s.torn
           /\ s.room - Len(ws) <= Put(s, ws).room
  <1> DEFINE n == IF mounted THEN LowerOf(Len(ws), s.room) ELSE 0
             part == s.out \o SubSeq(ws, 1, n)
  <1>1. Len(ws) \in Nat /\ s.room \in 0 .. FifoWords /\ s.out \in Seq(Ghost)
    BY LenProperties DEF SinkState
  <1>2. n \in 0 .. Len(ws)
    BY <1>1 DEF LowerOf
  <1>3. SubSeq(ws, 1, n) \in Seq(Ghost)
    BY <1>1, <1>2, SubSeqProperties
  <1>4. part \in Seq(Ghost)
    BY <1>1, <1>3, ConcatProperties
  <1>5. Put(s, ws) = [room |-> s.room - n, out |-> part, torn |-> s.torn \/ Cut(s, Len(ws))]
    BY DEF Put
  <1>6. ~Cut(s, Len(ws))
    BY <1>1 DEF Cut
  <1>7. (s.torn \/ Cut(s, Len(ws))) = s.torn
    BY <1>6 DEF SinkState
  <1>8. s.room - n \in 0 .. FifoWords /\ s.room - Len(ws) <= s.room - n
    BY <1>1, <1>2, UsbStageAssumption
  <1>9. s.torn \in BOOLEAN
    BY DEF SinkState
  <1> HIDE DEF n, part
  <1>10. Put(s, ws) = [room |-> s.room - n, out |-> part, torn |-> s.torn]
    BY <1>5, <1>7
  <1> QED BY <1>4, <1>8, <1>9, <1>10 DEF SinkState

LEMMA SinkFacts ==
    ASSUME StageInv
    PROVE  /\ Sink \in SinkState /\ ~Sink.torn /\ Sink.room = writeable
           /\ Len(stage) \in Nat /\ Len(run) \in Nat /\ writeable \in Nat
           /\ stage \in Seq(Ghost) /\ run \in Seq(Ghost) /\ mounted \in BOOLEAN
           /\ Len(stage) + Len(run) <= writeable /\ Len(stage) <= StageWords
  <1>1. stage \in Seq(Ghost) /\ run \in Seq(Ghost) /\ mounted \in BOOLEAN
    BY DEF StageInv, TypeOK, Ghost
  <1>2. Len(stage) \in Nat /\ Len(run) \in Nat /\ writeable \in Nat
    BY <1>1, LenProperties, UsbStageAssumption DEF StageInv, TypeOK
  <1>3. Sink \in SinkState /\ Sink.room = writeable
    BY DEF Sink, SinkState, StageInv, TypeOK, Ghost
  <1>4. ~Sink.torn
    BY DEF Sink, StageInv, NeverTorn
  <1>5. Len(stage) + Len(run) <= writeable /\ Len(stage) <= StageWords
    BY DEF StageInv, Promise, TypeOK
  <1> QED BY <1>1, <1>2, <1>3, <1>4, <1>5

\* Flushing the run keeps the promise for what is left in the stage.
LEMMA FlushRunKeeps ==
    ASSUME StageInv
    PROVE  /\ FlushRun.sink \in SinkState /\ ~FlushRun.sink.torn
           /\ FlushRun.stage \in Seq(Ghost)
           /\ Len(FlushRun.stage) \in Nat
           /\ Len(FlushRun.stage) <= StageWords
           /\ Len(FlushRun.stage) <= FlushRun.sink.room
  <1> DEFINE flushed == run # <<>> /\ Len(stage) + Len(run) > StageWords
             left    == IF flushed THEN <<>> ELSE stage
             sink    == IF flushed THEN Put(Sink, stage) ELSE Sink
  <1>1. /\ Sink \in SinkState /\ ~Sink.torn /\ Sink.room = writeable
        /\ Len(stage) \in Nat /\ Len(run) \in Nat /\ writeable \in Nat
        /\ stage \in Seq(Ghost) /\ run \in Seq(Ghost) /\ mounted \in BOOLEAN
        /\ Len(stage) + Len(run) <= writeable /\ Len(stage) <= StageWords
    BY SinkFacts
  <1>2. StageWords \in Nat \ {0}
    BY UsbStageAssumption
  <1>3. Len(run) > 0 => run # <<>>
    BY <1>1
  <1>4. run = <<>> => Len(run) = 0
    OBVIOUS
  <1>5. /\ left \in Seq(Ghost) /\ sink \in SinkState /\ ~sink.torn
        /\ Len(left) \in Nat /\ Len(left) + Len(run) <= sink.room
        /\ Len(left) <= StageWords
        /\ Len(run) <= StageWords => Len(left) + Len(run) <= StageWords
    <2>1. CASE flushed
      <3>1. left = <<>> /\ sink = Put(Sink, stage)
        BY <2>1
      <3>2. Len(stage) <= Sink.room
        BY <1>1
      <3>3. /\ Put(Sink, stage) \in SinkState
            /\ Put(Sink, stage).torn <=> Sink.torn
            /\ Sink.room - Len(stage) <= Put(Sink, stage).room
        BY <1>1, <3>2, PutFits
      <3>4. Put(Sink, stage).room \in Nat
        BY <3>3, UsbStageAssumption DEF SinkState
      <3>5. Len(left) = 0 /\ left \in Seq(Ghost)
        <4>1. <<>> \in Seq(Ghost) /\ Len(<<>>) = 0
          BY EmptySeq
        <4> HIDE DEF left
        <4> QED BY <3>1, <4>1
      <3>6. Len(left) + Len(run) <= sink.room
        BY <1>1, <3>1, <3>3, <3>4, <3>5
      <3>7. sink \in SinkState /\ ~sink.torn
        BY <1>1, <3>1, <3>3
      <3> QED BY <1>1, <1>2, <3>5, <3>6, <3>7
    <2>2. CASE ~flushed
      <3>1. left = stage /\ sink = Sink
        BY <2>2
      <3>2. Len(run) = 0 \/ Len(stage) + Len(run) <= StageWords
        BY <1>1, <1>2, <1>4, <2>2
      <3> QED BY <1>1, <1>2, <3>1, <3>2
    <2> QED BY <2>1, <2>2
  <1>6. FlushRun = IF Len(run) > StageWords
                   THEN [stage |-> left, sink |-> Put(sink, run)]
                   ELSE [stage |-> left \o run, sink |-> sink]
    BY DEF FlushRun
  <1> HIDE DEF flushed, left, sink
  <1>7. sink.room \in Nat
    BY <1>5, UsbStageAssumption DEF SinkState
  <1>8. CASE Len(run) > StageWords
    <2>1. FlushRun.stage = left /\ FlushRun.sink = Put(sink, run)
      BY <1>6, <1>8
    <2>2. Len(run) <= sink.room
      BY <1>1, <1>5, <1>7
    <2>3. /\ Put(sink, run) \in SinkState
          /\ Put(sink, run).torn <=> sink.torn
          /\ sink.room - Len(run) <= Put(sink, run).room
      BY <1>1, <1>5, <2>2, PutFits
    <2>4. Put(sink, run).room \in Nat
      BY <2>3, UsbStageAssumption DEF SinkState
    <2>5. Len(left) <= Put(sink, run).room
      BY <1>1, <1>5, <1>7, <2>3, <2>4
    <2>6. ~Put(sink, run).torn
      BY <1>5, <2>3
    <2> QED BY <1>5, <2>1, <2>3, <2>5, <2>6
  <1>9. CASE ~(Len(run) > StageWords)
    <2>1. FlushRun.stage = left \o run /\ FlushRun.sink = sink
      BY <1>6, <1>9
    <2>2. left \o run \in Seq(Ghost) /\ Len(left \o run) = Len(left) + Len(run)
      BY <1>1, <1>5, ConcatProperties
    <2>3. Len(run) <= StageWords
      BY <1>1, <1>2, <1>9
    <2>4. Len(left \o run) \in Nat
      BY <1>1, <1>5, <2>2
    <2> QED BY <1>5, <2>1, <2>2, <2>3, <2>4
  <1> QED BY <1>8, <1>9

-----------------------------------------------------------------------------
(* Steps.                                                                   *)

\* What the variables outside stage, run and the sink keep.
Rest ==
    /\ mounted' \in BOOLEAN
    /\ pc' \in {"tick", "call", "drain"}
    /\ taken' \in Seq(Ghost)
    /\ delivered' \in Nat /\ inCall' \in Nat /\ replies' \in Nat /\ unmounts' \in Nat

\* A step that leaves the sink s, staged words st and pending words r keeps the
\* invariant if they fit.
LEMMA LeavesRoom ==
    ASSUME NEW s \in SinkState, ~s.torn, Wrote(s), Rest,
           stage' \in Seq(Ghost), run' \in Seq(Ghost),
           Len(stage') <= StageWords, Len(stage') + Len(run') <= s.room
    PROVE  StageInv'
  <1>1. writeable' \in 0 .. FifoWords /\ written' \in Seq(Ghost) /\ torn' \in BOOLEAN
    BY DEF Wrote, SinkState
  <1>2. ~torn'
    BY Zenon DEF Wrote
  <1>3. Len(stage') + Len(run') <= writeable'
    BY DEF Wrote
  <1>4. TypeOK'
    BY <1>1 DEF TypeOK, Rest, Ghost
  <1> QED BY <1>2, <1>3, <1>4 DEF StageInv, Promise, NeverTorn

LEMMA NothingStaged == <<>> \in Seq(Ghost) /\ Len(<<>>) = 0
  BY EmptySeq

\* The words of the packet being delivered.
LEMMA PacketFacts ==
    ASSUME TypeOK, NEW n \in 1 .. 4
    PROVE  /\ Words(delivered + 1, n) \in Seq(Ghost) /\ Len(Words(delivered + 1, n)) = n
           /\ taken \o Words(delivered + 1, n) \in Seq(Ghost)
  <1>1. delivered + 1 \in Nat /\ n \in Nat
    BY DEF TypeOK
  <1>2. Words(delivered + 1, n) \in Seq(Ghost) /\ Len(Words(delivered + 1, n)) = n
    BY <1>1, WordsFacts
  <1>3. taken \in Seq(Ghost)
    BY DEF TypeOK, Ghost
  <1> QED BY <1>2, <1>3, ConcatProperties

LEMMA JoinRunKeeps ==
    ASSUME StageInv, JoinRun
    PROVE  StageInv'
  <1>1. /\ Sink \in SinkState /\ ~Sink.torn /\ Sink.room = writeable
        /\ Len(stage) \in Nat /\ Len(run) \in Nat /\ writeable \in Nat
        /\ stage \in Seq(Ghost) /\ run \in Seq(Ghost)
        /\ Len(stage) <= StageWords
    BY SinkFacts
  <1>2. PICK mt \in MsgTypes :
          /\ usbRoomWords(writeable, stage) >= Len(run) + umpWordCount(mt)
          /\ run' = run \o Words(delivered + 1, umpWordCount(mt))
          /\ taken' = taken \o Words(delivered + 1, umpWordCount(mt))
    BY DEF JoinRun
  <1> DEFINE n == umpWordCount(mt)
  <1>3. n \in 1 .. 4
    BY WordCountRange
  <1>4. /\ Words(delivered + 1, n) \in Seq(Ghost) /\ Len(Words(delivered + 1, n)) = n
        /\ taken \o Words(delivered + 1, n) \in Seq(Ghost)
    BY <1>3, PacketFacts DEF StageInv
  <1>5. /\ run' \in Seq(Ghost) /\ taken' \in Seq(Ghost)
        /\ Len(run') = Len(run) + n
    BY <1>1, <1>2, <1>4, ConcatProperties
  <1>6. usbRoomWords(writeable, stage) >= Len(run) + n
    BY <1>2
  <1> HIDE DEF n
  <1>7. Len(stage) + Len(run) + n <= writeable
    BY <1>1, <1>3, <1>6 DEF usbRoomWords
  <1>8. stage' = stage /\ writeable' = writeable /\ written' = written /\ torn' = torn
        /\ mounted' = mounted /\ pc' = pc
        /\ replies' = replies /\ unmounts' = unmounts
        /\ delivered' = delivered + 1 /\ inCall' = inCall + 1
    BY DEF JoinRun, NextPacket, usb
  <1>9. TypeOK'
    <2>1. written' \in Seq(Ghost) /\ stage' \in Seq(Ghost) /\ Len(stage') <= StageWords
      BY <1>1, <1>8 DEF StageInv, TypeOK, Ghost
    <2>2. /\ {mounted', torn'} \subseteq BOOLEAN
          /\ pc' \in {"tick", "call", "drain"}
      BY <1>8 DEF StageInv, TypeOK
    <2>3. /\ writeable' \in 0 .. FifoWords
          /\ delivered' \in Nat /\ inCall' \in Nat /\ replies' \in Nat /\ unmounts' \in Nat
      BY <1>8 DEF StageInv, TypeOK
    <2> QED BY <1>5, <2>1, <2>2, <2>3 DEF TypeOK, Ghost
  <1>10. Promise'
    BY <1>1, <1>3, <1>5, <1>7, <1>8 DEF Promise
  <1> QED BY <1>8, <1>9, <1>10 DEF StageInv, NeverTorn

LEMMA NextPacketRest ==
    ASSUME TypeOK, NextPacket, UNCHANGED <<pc, replies, mounted, unmounts>>,
           taken' \in Seq(Ghost)
    PROVE  Rest
  BY DEF NextPacket, TypeOK, Rest

LEMMA BreakRunKeeps ==
    ASSUME StageInv, BreakRun
    PROVE  StageInv'
  <1> DEFINE f == FlushRun
  <1>1. /\ f.sink \in SinkState /\ ~f.sink.torn /\ f.stage \in Seq(Ghost)
        /\ Len(f.stage) \in Nat /\ Len(f.stage) <= StageWords
        /\ Len(f.stage) <= f.sink.room
    BY FlushRunKeeps
  <1>2. PICK mt \in MsgTypes, more \in 0 .. FifoWords :
          /\ more = 0 \/ (mounted /\ f.sink.room + more <= FifoWords)
          /\ stage' = f.stage
          /\ Wrote([f.sink EXCEPT !.room = f.sink.room + more])
          /\ IF usbRoomWords(f.sink.room + more, f.stage) < umpWordCount(mt)
             THEN run' = <<>> /\ UNCHANGED taken
             ELSE /\ run' = Words(delivered + 1, umpWordCount(mt))
                  /\ taken' = taken \o Words(delivered + 1, umpWordCount(mt))
    BY DEF BreakRun
  <1> DEFINE n == umpWordCount(mt)
             r == f.sink.room + more
             s == [f.sink EXCEPT !.room = r]
  <1>3. n \in 1 .. 4
    BY WordCountRange
  <1>4. f.sink.room \in 0 .. FifoWords /\ more \in Nat
    BY <1>1, UsbStageAssumption DEF SinkState
  <1>5. r \in 0 .. FifoWords /\ f.sink.room <= r
    BY <1>2, <1>4, UsbStageAssumption
  <1>6. s \in SinkState /\ ~s.torn /\ s.room = r
    BY <1>1, <1>5 DEF SinkState
  <1>7. Wrote(s) /\ stage' = f.stage
    BY <1>2
  <1>8. CASE usbRoomWords(r, f.stage) < n
    <2>1. run' = <<>> /\ taken' = taken
      BY <1>2, <1>8
    <2>2. taken' \in Seq(Ghost)
      BY <2>1 DEF StageInv, TypeOK, Ghost
    <2>3. Rest
      BY <2>2, NextPacketRest DEF BreakRun, StageInv
    <2> HIDE DEF f, n, r, s
    <2>4. run' \in Seq(Ghost) /\ Len(run') = 0
      BY <2>1, NothingStaged
    <2>5. Len(stage') + Len(run') <= s.room
      BY <1>1, <1>4, <1>5, <1>6, <1>7, <2>4
    <2> QED BY <1>1, <1>6, <1>7, <2>3, <2>4, <2>5, LeavesRoom
  <1>9. CASE ~(usbRoomWords(r, f.stage) < n)
    <2>1. /\ run' = Words(delivered + 1, n)
          /\ taken' = taken \o Words(delivered + 1, n)
      BY <1>2, <1>9
    <2>2. run' \in Seq(Ghost) /\ Len(run') = n /\ taken' \in Seq(Ghost)
      BY <1>3, <2>1, PacketFacts DEF StageInv
    <2>3. Rest
      BY <2>2, NextPacketRest DEF BreakRun, StageInv
    <2> HIDE DEF f, n, r, s
    <2>4. Len(f.stage) + n <= r
      BY <1>1, <1>3, <1>5, <1>9 DEF usbRoomWords
    <2>5. Len(stage') + Len(run') <= s.room
      BY <1>6, <1>7, <2>2, <2>4
    <2> QED BY <1>1, <1>6, <1>7, <2>2, <2>3, <2>5, LeavesRoom
  <1> QED BY <1>8, <1>9

LEMMA SuppressKeeps ==
    ASSUME StageInv, Suppress
    PROVE  StageInv'
  <1>1. /\ FlushRun.sink \in SinkState /\ ~FlushRun.sink.torn
        /\ FlushRun.stage \in Seq(Ghost) /\ Len(FlushRun.stage) \in Nat
        /\ Len(FlushRun.stage) <= StageWords
        /\ Len(FlushRun.stage) <= FlushRun.sink.room
    BY FlushRunKeeps
  <1>2. stage' = FlushRun.stage /\ run' = <<>> /\ Wrote(FlushRun.sink)
    BY DEF Suppress
  <1>3. taken' \in Seq(Ghost)
    BY DEF Suppress, StageInv, TypeOK, Ghost
  <1>4. Rest
    BY <1>3, NextPacketRest DEF Suppress, StageInv
  <1>5. run' \in Seq(Ghost) /\ Len(run') = 0
    BY <1>2, NothingStaged
  <1>6. Len(stage') + Len(run') <= FlushRun.sink.room
    BY <1>1, <1>2, <1>5, UsbStageAssumption DEF SinkState
  <1> QED BY <1>1, <1>2, <1>4, <1>5, <1>6, LeavesRoom

\* The zero-length End goes out after what is staged, and fits behind it.
LEMMA SuppressEndKeeps ==
    ASSUME StageInv, SuppressEnd
    PROVE  StageInv'
  <1> DEFINE f   == FlushRun
             end == Words(delivered + 1, 2)
             s1  == Put(f.sink, f.stage)
             s2  == Put(s1, end)
  <1>1. /\ f.sink \in SinkState /\ ~f.sink.torn /\ f.stage \in Seq(Ghost)
        /\ Len(f.stage) \in Nat /\ Len(f.stage) <= f.sink.room
    BY FlushRunKeeps
  <1>2. /\ usbRoomWords(f.sink.room, f.stage) >= 2
        /\ stage' = <<>> /\ run' = <<>> /\ Wrote(s2)
        /\ taken' = taken \o end
    BY DEF SuppressEnd
  <1>3. end \in Seq(Ghost) /\ Len(end) = 2 /\ taken \o end \in Seq(Ghost)
    BY PacketFacts DEF StageInv
  <1>4. mounted \in BOOLEAN
    BY SinkFacts
  <1>5. s1 \in SinkState /\ (s1.torn <=> f.sink.torn) /\ f.sink.room - Len(f.stage) <= s1.room
    BY <1>1, <1>4, PutFits
  <1>6. Rest
    BY <1>2, <1>3, NextPacketRest DEF SuppressEnd, StageInv
  <1>7. f.sink.room \in Nat /\ s1.room \in Nat
    BY <1>1, <1>5, UsbStageAssumption DEF SinkState
  <1> HIDE DEF f, end, s1
  <1>8. Len(end) <= s1.room
    BY <1>1, <1>2, <1>3, <1>5, <1>7 DEF usbRoomWords
  <1>9. s2 \in SinkState /\ (s2.torn <=> s1.torn)
    BY <1>3, <1>4, <1>5, <1>8, PutFits
  <1>10. s2.room \in Nat
    BY <1>9, UsbStageAssumption DEF SinkState
  <1>11. ~s2.torn
    BY <1>1, <1>5, <1>9
  <1> HIDE DEF s2
  <1>12. stage' \in Seq(Ghost) /\ run' \in Seq(Ghost) /\ Len(stage') = 0 /\ Len(run') = 0
    BY <1>2, NothingStaged
  <1>13. Len(stage') <= StageWords /\ Len(stage') + Len(run') <= s2.room
    BY <1>10, <1>12, UsbStageAssumption
  <1> QED BY <1>2, <1>6, <1>9, <1>11, <1>12, <1>13, LeavesRoom

LEMMA ReturnKeeps ==
    ASSUME StageInv, Return
    PROVE  StageInv'
  <1>1. /\ FlushRun.sink \in SinkState /\ ~FlushRun.sink.torn
        /\ FlushRun.stage \in Seq(Ghost) /\ Len(FlushRun.stage) \in Nat
        /\ Len(FlushRun.stage) <= StageWords
        /\ Len(FlushRun.stage) <= FlushRun.sink.room
    BY FlushRunKeeps
  <1>2. stage' = FlushRun.stage /\ run' = <<>> /\ Wrote(FlushRun.sink)
    BY DEF Return
  <1>3. Rest
    BY DEF Return, ghosts, Rest, StageInv, TypeOK, Ghost
  <1>4. run' \in Seq(Ghost) /\ Len(run') = 0
    BY <1>2, NothingStaged
  <1>5. Len(stage') + Len(run') <= FlushRun.sink.room
    BY <1>1, <1>2, <1>4, UsbStageAssumption DEF SinkState
  <1> QED BY <1>1, <1>2, <1>3, <1>4, <1>5, LeavesRoom

LEMMA FlushKeeps ==
    ASSUME StageInv, usbStageFlush
    PROVE  StageInv'
  <1> DEFINE s == Put(Sink, stage)
  <1>1. /\ Sink \in SinkState /\ ~Sink.torn /\ Sink.room = writeable
        /\ Len(stage) \in Nat /\ Len(run) \in Nat /\ writeable \in Nat
        /\ stage \in Seq(Ghost) /\ run \in Seq(Ghost) /\ mounted \in BOOLEAN
        /\ Len(stage) + Len(run) <= writeable
    BY SinkFacts
  <1>2. Len(stage) <= Sink.room
    BY <1>1
  <1>3. /\ s \in SinkState /\ (s.torn <=> Sink.torn)
        /\ Sink.room - Len(stage) <= s.room
    BY <1>1, <1>2, PutFits
  <1>4. stage' = <<>> /\ run' = run /\ Wrote(s)
    BY DEF usbStageFlush
  <1>5. Rest
    BY DEF usbStageFlush, ghosts, Rest, StageInv, TypeOK, Ghost
  <1>6. s.room \in Nat
    BY <1>3, UsbStageAssumption DEF SinkState
  <1>7. ~s.torn
    BY <1>1, <1>3
  <1> HIDE DEF s
  <1>8. stage' \in Seq(Ghost) /\ Len(stage') = 0
    BY <1>4, NothingStaged
  <1>9. Len(stage') <= StageWords /\ Len(stage') + Len(run') <= s.room
    BY <1>1, <1>3, <1>4, <1>6, <1>8, UsbStageAssumption
  <1> QED BY <1>1, <1>3, <1>4, <1>5, <1>7, <1>8, <1>9, LeavesRoom

\* A reply may be cut, but there is nothing staged or pending behind it.
LEMMA ReplyKeeps ==
    ASSUME StageInv, StreamReply, stage = <<>>, run = <<>>
    PROVE  StageInv'
  <1> DEFINE ws == Words(0, 4)
             n == IF mounted THEN LowerOf(Len(ws), Sink.room) ELSE 0
  <1>1. Sink \in SinkState /\ Sink.room = writeable /\ writeable \in Nat /\ mounted \in BOOLEAN
    BY SinkFacts
  <1>2. Len(ws) = 4
    BY WordsFacts
  <1>3. Put(Sink, ws).room = Sink.room - n
    BY DEF Put
  <1>4. n \in Nat /\ n <= writeable
    BY <1>1, <1>2 DEF LowerOf
  <1>5. /\ writeable' = Put(Sink, ws).room /\ written' = written
        /\ stage' = stage /\ run' = run /\ torn' = torn /\ pc' = pc /\ taken' = taken
        /\ delivered' = delivered /\ inCall' = inCall
        /\ mounted' = mounted /\ unmounts' = unmounts /\ replies' = replies + 1
    BY DEF StreamReply
  <1> HIDE DEF n, ws
  <1>8. writeable' \in 0 .. FifoWords
    BY <1>1, <1>3, <1>4, <1>5, UsbStageAssumption DEF SinkState
  <1>10. TypeOK'
    <2>1. written' \in Seq(Ghost) /\ writeable' \in 0 .. FifoWords
      BY <1>5, <1>8 DEF StageInv, TypeOK, Ghost
    <2>2. /\ stage' \in Seq(Ghost) /\ Len(stage') <= StageWords /\ run' \in Seq(Ghost)
          /\ taken' \in Seq(Ghost)
      BY <1>5 DEF StageInv, TypeOK, Ghost
    <2>3. mounted' \in BOOLEAN /\ torn' \in BOOLEAN /\ pc' \in {"tick", "call", "drain"}
      BY <1>5 DEF StageInv, TypeOK
    <2>4. delivered' \in Nat /\ inCall' \in Nat /\ replies' \in Nat /\ unmounts' \in Nat
      BY <1>5 DEF StageInv, TypeOK
    <2> QED BY <2>1, <2>2, <2>3, <2>4 DEF TypeOK, Ghost
  <1>11. Len(stage') = 0 /\ Len(run') = 0
    BY <1>5, NothingStaged
  <1>12. Promise'
    BY <1>5, <1>8, <1>11 DEF Promise
  <1> QED BY <1>5, <1>10, <1>12 DEF StageInv, NeverTorn

\* Outside onUmp() no run is pending, and in the drain loop nothing is staged.
Quiet ==
    /\ pc # "call" => run = <<>>
    /\ pc = "drain" => stage = <<>>

\* The USB task only makes room, and the rest leaves stage, run and FIFO alone.
LEMMA OthersKeep ==
    ASSUME StageInv, Call \/ NextTick \/ HostTakes \/ Unmount \/ Mount \/ UNCHANGED vars
    PROVE  StageInv'
  <1>1. /\ stage' = stage /\ run' = run /\ written' = written /\ torn' = torn
        /\ taken' = taken /\ replies' = replies
        /\ delivered' = delivered
    BY DEF Call, NextTick, HostTakes, Unmount, Mount, vars, usb, ghosts
  <1>2. writeable' \in 0 .. FifoWords /\ writeable <= writeable'
    BY UsbStageAssumption DEF Call, NextTick, HostTakes, Unmount, Mount, vars, usb,
       StageInv, TypeOK
  <1>3. mounted' \in BOOLEAN /\ pc' \in {"tick", "call", "drain"}
    BY DEF Call, NextTick, HostTakes, Unmount, Mount, vars, usb, StageInv, TypeOK
  <1>4. inCall' \in Nat /\ unmounts' \in Nat
    BY DEF Call, NextTick, HostTakes, Unmount, Mount, vars, usb, ghosts, StageInv, TypeOK
  <1>5. TypeOK'
    BY <1>1, <1>2, <1>3, <1>4 DEF StageInv, TypeOK
  <1>6. Promise'
    BY <1>1, <1>2, SinkFacts, UsbStageAssumption DEF Promise
  <1> QED BY <1>1, <1>5, <1>6 DEF StageInv, NeverTorn

LEMMA QuietKept ==
    ASSUME StageInv, Quiet, [Next]_vars
    PROVE  Quiet'
  BY DEF StageInv, TypeOK, Quiet, Next, OnUmp, Call, JoinRun, BreakRun, Suppress,
     SuppressEnd, NextPacket, Return, usbStageFlush, StreamReply, NextTick, HostTakes,
     Unmount, Mount, vars

LEMMA StageInvHolds == Spec => [](StageInv /\ Quiet)
<1>1. Init => StageInv /\ Quiet
  <2> SUFFICES ASSUME Init PROVE StageInv /\ Quiet
    OBVIOUS
  <2>1. <<>> \in Seq(Ghost) /\ Len(<<>>) = 0
    BY NothingStaged
  <2>2. TypeOK
    <3>1. /\ stage \in Seq(Ghost) /\ run \in Seq(Ghost)
          /\ taken \in Seq(Ghost) /\ written \in Seq(Ghost)
      BY <2>1 DEF Init
    <3>2. Len(stage) <= StageWords
      BY <2>1, UsbStageAssumption DEF Init
    <3>3. /\ {mounted, torn} \subseteq BOOLEAN
          /\ pc \in {"tick", "call", "drain"}
      BY DEF Init
    <3>4. /\ writeable \in 0 .. FifoWords
          /\ delivered \in Nat /\ inCall \in Nat /\ replies \in Nat /\ unmounts \in Nat
      BY UsbStageAssumption DEF Init
    <3> QED BY <3>1, <3>2, <3>3, <3>4 DEF TypeOK, Ghost
  <2>3. Promise
    BY <2>1, UsbStageAssumption DEF Init, Promise
  <2> QED BY <2>2, <2>3 DEF Init, StageInv, NeverTorn, Quiet
<1>2. StageInv /\ Quiet /\ [Next]_vars => (StageInv /\ Quiet)'
  <2> SUFFICES ASSUME StageInv, Quiet, [Next]_vars PROVE StageInv'
    BY QuietKept
  <2>1. ASSUME StreamReply PROVE StageInv'
    <3>1. stage = <<>> /\ run = <<>>
      BY <2>1 DEF StreamReply, Quiet
    <3> QED BY <2>1, <3>1, ReplyKeeps
  <2> QED BY <2>1, JoinRunKeeps, BreakRunKeeps, SuppressKeeps, SuppressEndKeeps,
             ReturnKeeps, FlushKeeps, OthersKeep DEF Next, OnUmp
<1> QED BY <1>1, <1>2, PTL DEF Spec

\* Every variable keeps its type; in particular the stage never overflows.
THEOREM UsbStageTypes == Spec => []TypeOK
<1>1. StageInv => TypeOK
  BY DEF StageInv
<1> QED BY <1>1, StageInvHolds, PTL

\* No message goes out torn in half: room asked for when a packet is taken is
\* still there when it is written.
THEOREM StageNeverTears == Spec => []NeverTorn
<1>1. StageInv => NeverTorn
  BY DEF StageInv
<1> QED BY <1>1, StageInvHolds, PTL

-----------------------------------------------------------------------------
(* Order.                                                                   *)

\* Until the host goes away once, all that was taken is at tusb_ump, staged or
\* pending, in this order.
FlowInv == unmounts = 0 => mounted = TRUE /\ taken = (written \o stage) \o run

LEMMA Assoc ==
    ASSUME NEW a \in Seq(Ghost), NEW b \in Seq(Ghost), NEW c \in Seq(Ghost)
    PROVE  (a \o b) \o c = a \o (b \o c)
  BY ConcatAssociative

LEMMA Joined ==
    ASSUME NEW a \in Seq(Ghost), NEW b \in Seq(Ghost)
    PROVE  a \o b \in Seq(Ghost) /\ a \o <<>> = a /\ <<>> \o a = a
  BY ConcatProperties, ConcatEmptySeq

\* A write of what fits, to a host that is there, takes all of it.
LEMMA PutWhole ==
    ASSUME NEW s \in SinkState, NEW ws \in Seq(Ghost), Len(ws) <= s.room, mounted = TRUE
    PROVE  Put(s, ws).out = s.out \o ws
  <1>1. Len(ws) \in Nat /\ s.room \in Int
    BY UsbStageAssumption DEF SinkState
  <1>2. LowerOf(Len(ws), s.room) = Len(ws)
    BY DEF LowerOf
  <1>3. SubSeq(ws, 1, Len(ws)) = ws
    OBVIOUS
  <1>4. Put(s, ws).out = s.out \o SubSeq(ws, 1, LowerOf(Len(ws), s.room))
    BY DEF Put
  <1> QED BY <1>2, <1>3, <1>4

\* Whichever way out the run takes, it stays behind what was staged.
LEMMA FlushRunOrder ==
    ASSUME StageInv, mounted = TRUE
    PROVE  FlushRun.sink.out \o FlushRun.stage = (written \o stage) \o run
  <1> DEFINE flushed == run # <<>> /\ Len(stage) + Len(run) > StageWords
             left    == IF flushed THEN <<>> ELSE stage
             sink    == IF flushed THEN Put(Sink, stage) ELSE Sink
  <1>1. /\ Sink \in SinkState /\ Sink.room = writeable
        /\ Len(stage) \in Nat /\ Len(run) \in Nat /\ writeable \in Nat
        /\ stage \in Seq(Ghost) /\ run \in Seq(Ghost)
        /\ Len(stage) + Len(run) <= writeable
    BY SinkFacts
  <1>2. written \in Seq(Ghost) /\ Sink.out = written
    BY DEF StageInv, TypeOK, Sink, Ghost
  <1>3. StageWords \in Nat \ {0} /\ (run = <<>> => Len(run) = 0)
    BY UsbStageAssumption
  <1>4. Len(stage) <= Sink.room
    BY <1>1
  <1>5. /\ Put(Sink, stage) \in SinkState
        /\ Sink.room - Len(stage) <= Put(Sink, stage).room
        /\ Put(Sink, stage).out = written \o stage
    <2>1. Put(Sink, stage).out = Sink.out \o stage
      BY <1>1, <1>4, PutWhole
    <2> QED BY <1>1, <1>2, <1>4, <2>1, PutFits
  <1>6. FlushRun = IF Len(run) > StageWords
                   THEN [stage |-> left, sink |-> Put(sink, run)]
                   ELSE [stage |-> left \o run, sink |-> sink]
    BY DEF FlushRun
  <1>7. written \o stage \in Seq(Ghost)
    BY <1>1, <1>2, Joined
  <1>8. CASE flushed
    <2>1. left = <<>> /\ sink = Put(Sink, stage)
      BY <1>8
    <2> HIDE DEF flushed, left, sink
    <2>2. CASE Len(run) > StageWords
      <3>1. FlushRun.stage = <<>> /\ FlushRun.sink = Put(sink, run)
        BY <1>6, <2>1, <2>2
      <3>2. sink \in SinkState /\ sink.out = written \o stage /\ Len(run) <= sink.room
        <4>1. sink \in SinkState /\ sink.out = written \o stage
              /\ Sink.room - Len(stage) <= sink.room
          BY <1>5, <2>1
        <4>2. sink.room \in Nat
          BY <4>1, UsbStageAssumption DEF SinkState
        <4> QED BY <1>1, <4>1, <4>2
      <3>3. FlushRun.sink.out = (written \o stage) \o run
        BY <1>1, <3>1, <3>2, PutWhole
      <3>4. (written \o stage) \o run \in Seq(Ghost)
        BY <1>1, <1>7, Joined
      <3> QED BY <3>1, <3>3, <3>4, Joined
    <2>3. CASE ~(Len(run) > StageWords)
      <3>1. FlushRun.stage = <<>> \o run /\ FlushRun.sink = sink
        BY <1>6, <2>1, <2>3
      <3>2. <<>> \o run = run
        BY <1>1, Joined
      <3> QED BY <1>5, <2>1, <3>1, <3>2
    <2> QED BY <2>2, <2>3
  <1>9. CASE ~flushed
    <2>1. left = stage /\ sink = Sink
      BY <1>9
    <2>2. ~(Len(run) > StageWords)
      BY <1>1, <1>3, <1>9
    <2>3. FlushRun.stage = stage \o run /\ FlushRun.sink = Sink
      BY <1>6, <2>1, <2>2
    <2>4. (written \o stage) \o run = written \o (stage \o run)
      BY <1>1, <1>2, Assoc
    <2>5. FlushRun.sink.out = written
      BY <1>2, <2>3
    <2> QED BY <2>3, <2>4, <2>5, Zenon
  <1> QED BY <1>8, <1>9

\* What a step writes and leaves, once the run is flushed.
LEMMA FlushedOrder ==
    ASSUME StageInv, FlowInv, unmounts = 0
    PROVE  /\ mounted = TRUE /\ FlushRun.sink.out \o FlushRun.stage = taken
           /\ FlushRun.sink \in SinkState /\ FlushRun.stage \in Seq(Ghost)
           /\ FlushRun.sink.out \in Seq(Ghost) /\ taken \in Seq(Ghost)
  <1>1. mounted = TRUE /\ taken = (written \o stage) \o run
    BY DEF FlowInv
  <1>2. FlushRun.sink \in SinkState /\ FlushRun.stage \in Seq(Ghost)
    BY FlushRunKeeps
  <1>3. FlushRun.sink.out \in Seq(Ghost) /\ taken \in Seq(Ghost)
    BY <1>2 DEF SinkState, StageInv, TypeOK, Ghost
  <1> QED BY <1>1, <1>2, <1>3, FlushRunOrder

LEMMA JoinRunOrder ==
    ASSUME StageInv, FlowInv, JoinRun PROVE FlowInv'
  <1>1. PICK mt \in MsgTypes :
          /\ run' = run \o Words(delivered + 1, umpWordCount(mt))
          /\ taken' = taken \o Words(delivered + 1, umpWordCount(mt))
    BY DEF JoinRun
  <1> DEFINE p == Words(delivered + 1, umpWordCount(mt))
  <1>2. p \in Seq(Ghost)
    BY WordCountRange, PacketFacts DEF StageInv
  <1>3. stage' = stage /\ written' = written /\ mounted' = mounted /\ unmounts' = unmounts
        /\ run' = run \o p /\ taken' = taken \o p
    BY <1>1 DEF JoinRun, usb
  <1>4. written \in Seq(Ghost) /\ stage \in Seq(Ghost) /\ run \in Seq(Ghost)
    BY DEF StageInv, TypeOK, Ghost
  <1> HIDE DEF p
  <1>5. written \o stage \in Seq(Ghost)
    BY <1>4, Joined
  <1>6. ((written \o stage) \o run) \o p = (written \o stage) \o (run \o p)
    BY <1>2, <1>4, <1>5, Assoc
  <1> QED BY <1>3, <1>6 DEF FlowInv

LEMMA BreakRunOrder ==
    ASSUME StageInv, FlowInv, BreakRun PROVE FlowInv'
  <1>1. PICK mt \in MsgTypes, more \in 0 .. FifoWords :
          /\ stage' = FlushRun.stage
          /\ Wrote([FlushRun.sink EXCEPT !.room = FlushRun.sink.room + more])
          /\ IF usbRoomWords(FlushRun.sink.room + more, FlushRun.stage) < umpWordCount(mt)
             THEN run' = <<>> /\ UNCHANGED taken
             ELSE /\ run' = Words(delivered + 1, umpWordCount(mt))
                  /\ taken' = taken \o Words(delivered + 1, umpWordCount(mt))
    BY DEF BreakRun
  <1> DEFINE p == Words(delivered + 1, umpWordCount(mt))
  <1>2. p \in Seq(Ghost)
    BY WordCountRange, PacketFacts DEF StageInv
  <1>3. (run' = <<>> /\ taken' = taken) \/ (run' = p /\ taken' = taken \o p)
    BY <1>1
  <1>4. mounted' = mounted /\ unmounts' = unmounts /\ stage' = FlushRun.stage
    BY <1>1 DEF BreakRun
  <1> SUFFICES ASSUME unmounts = 0 PROVE mounted' = TRUE /\ taken' = (written' \o stage') \o run'
    BY <1>4 DEF FlowInv
  <1>5. /\ mounted = TRUE /\ FlushRun.sink.out \o FlushRun.stage = taken
        /\ FlushRun.sink \in SinkState /\ taken \in Seq(Ghost)
    BY FlushedOrder
  <1>6. written' = FlushRun.sink.out
    BY <1>1, <1>5 DEF Wrote, SinkState
  <1> HIDE DEF p
  <1>7. written' \o stage' = taken
    BY <1>4, <1>5, <1>6
  <1>8. taken \o <<>> = taken
    BY <1>5, Joined
  <1> QED BY <1>3, <1>4, <1>5, <1>7, <1>8

LEMMA SuppressOrder ==
    ASSUME StageInv, FlowInv, Suppress \/ Return PROVE FlowInv'
  <1>1. /\ stage' = FlushRun.stage /\ run' = <<>> /\ written' = FlushRun.sink.out
        /\ taken' = taken /\ mounted' = mounted /\ unmounts' = unmounts
    BY DEF Suppress, Return, Wrote, ghosts
  <1> SUFFICES ASSUME unmounts = 0 PROVE mounted' = TRUE /\ taken' = (written' \o stage') \o run'
    BY <1>1 DEF FlowInv
  <1>2. /\ mounted = TRUE /\ FlushRun.sink.out \o FlushRun.stage = taken
        /\ taken \in Seq(Ghost)
    BY FlushedOrder
  <1>3. taken \o <<>> = taken
    BY <1>2, Joined
  <1> QED BY <1>1, <1>2, <1>3

\* The End is written behind all that was taken before it.
LEMMA SuppressEndOrder ==
    ASSUME StageInv, FlowInv, SuppressEnd PROVE FlowInv'
  <1> DEFINE f   == FlushRun
             end == Words(delivered + 1, 2)
             s1  == Put(f.sink, f.stage)
             s2  == Put(s1, end)
  <1>1. /\ usbRoomWords(f.sink.room, f.stage) >= 2
        /\ stage' = <<>> /\ run' = <<>> /\ written' = s2.out
        /\ taken' = taken \o end /\ mounted' = mounted /\ unmounts' = unmounts
    BY DEF SuppressEnd, Wrote
  <1> SUFFICES ASSUME unmounts = 0 PROVE mounted' = TRUE /\ taken' = (written' \o stage') \o run'
    BY <1>1 DEF FlowInv
  <1>2. /\ mounted = TRUE /\ f.sink.out \o f.stage = taken
        /\ f.sink \in SinkState /\ f.stage \in Seq(Ghost) /\ taken \in Seq(Ghost)
    BY FlushedOrder
  <1>3. Len(f.stage) \in Nat /\ Len(f.stage) <= f.sink.room
    BY FlushRunKeeps
  <1>4. end \in Seq(Ghost) /\ Len(end) = 2 /\ taken \o end \in Seq(Ghost)
    BY PacketFacts DEF StageInv
  <1>5. s1 \in SinkState /\ f.sink.room - Len(f.stage) <= s1.room
    BY <1>2, <1>3, PutFits
  <1>6. s1.out = taken
    BY <1>2, <1>3, PutWhole
  <1>7. f.sink.room \in Nat /\ s1.room \in Nat
    BY <1>2, <1>5, UsbStageAssumption DEF SinkState
  <1> HIDE DEF f, end, s1
  <1>8. Len(end) <= s1.room
    BY <1>1, <1>3, <1>4, <1>5, <1>7 DEF usbRoomWords
  <1>9. s2.out = taken \o end
    BY <1>2, <1>4, <1>5, <1>6, <1>8, PutWhole
  <1>10. ((taken \o end) \o <<>>) \o <<>> = taken \o end
    BY <1>4, Joined
  <1> QED BY <1>1, <1>2, <1>9, <1>10

LEMMA FlushOrder ==
    ASSUME StageInv, FlowInv, usbStageFlush PROVE FlowInv'
  <1>1. /\ stage' = <<>> /\ run' = run /\ written' = Put(Sink, stage).out
        /\ taken' = taken /\ mounted' = mounted /\ unmounts' = unmounts
    BY DEF usbStageFlush, Wrote, ghosts
  <1> SUFFICES ASSUME unmounts = 0 PROVE mounted' = TRUE /\ taken' = (written' \o stage') \o run'
    BY <1>1 DEF FlowInv
  <1>2. mounted = TRUE /\ taken = (written \o stage) \o run
    BY DEF FlowInv
  <1>3. /\ Sink \in SinkState /\ stage \in Seq(Ghost) /\ Sink.room = writeable
        /\ Len(stage) \in Nat /\ Len(run) \in Nat /\ writeable \in Nat
        /\ Len(stage) + Len(run) <= writeable
    BY SinkFacts
  <1>4. written \in Seq(Ghost) /\ Sink.out = written
    BY DEF StageInv, TypeOK, Sink, Ghost
  <1>5. Len(stage) <= Sink.room
    BY <1>3
  <1>6. written' = written \o stage
    BY <1>1, <1>2, <1>3, <1>4, <1>5, PutWhole
  <1>7. written \o stage \in Seq(Ghost)
    BY <1>3, <1>4, Joined
  <1>8. (written \o stage) \o <<>> = written \o stage
    BY <1>7, Joined
  <1> QED BY <1>1, <1>2, <1>6, <1>8

LEMMA OthersOrder ==
    ASSUME StageInv, FlowInv,
           Call \/ StreamReply \/ NextTick \/ HostTakes \/ Unmount \/ Mount \/ UNCHANGED vars
    PROVE  FlowInv'
  <1>1. stage' = stage /\ run' = run /\ written' = written /\ taken' = taken
    BY DEF Call, StreamReply, NextTick, HostTakes, Unmount, Mount, vars, usb, ghosts
  <1>2. unmounts \in Nat
    BY DEF StageInv, TypeOK
  <1>3. CASE Unmount
    <2>1. unmounts' = unmounts + 1
      BY <1>3 DEF Unmount
    <2>2. unmounts' # 0
      BY <1>2, <2>1
    <2> QED BY <2>2 DEF FlowInv
  <1>4. CASE Call \/ StreamReply \/ NextTick \/ HostTakes \/ Mount \/ UNCHANGED vars
    <2>1. unmounts' = unmounts /\ (mounted' = mounted \/ mounted' = TRUE)
      BY <1>4 DEF Call, StreamReply, NextTick, HostTakes, Mount, vars, usb
    <2> QED BY <1>1, <2>1 DEF FlowInv
  <1> QED BY <1>3, <1>4

LEMMA FlowInvHolds == Spec => []FlowInv
<1>1. Init => FlowInv
  <2> SUFFICES ASSUME Init PROVE FlowInv
    OBVIOUS
  <2>1. (<<>> \o <<>>) \o <<>> = <<>>
    BY NothingStaged, Joined
  <2> QED BY <2>1 DEF Init, FlowInv
<1>2. StageInv /\ FlowInv /\ [Next]_vars => FlowInv'
  BY JoinRunOrder, BreakRunOrder, SuppressOrder, SuppressEndOrder, FlushOrder, OthersOrder
     DEF Next, OnUmp
<1> QED BY <1>1, <1>2, StageInvHolds, PTL DEF Spec

\* Every packet taken goes out once and in order, and all of them are out
\* before a Stream reply is.
THEOREM StageInOrder == Spec => []InOrder
<1>1. StageInv /\ Quiet /\ FlowInv => InOrder
  <2> SUFFICES ASSUME StageInv, Quiet, FlowInv, unmounts = 0
               PROVE  /\ taken = written \o stage \o run
                      /\ pc = "drain" => taken = written
    BY DEF InOrder
  <2>1. taken = (written \o stage) \o run
    BY DEF FlowInv
  <2>2. ASSUME pc = "drain" PROVE taken = written
    <3>1. stage = <<>> /\ run = <<>>
      BY <2>2 DEF Quiet
    <3>2. written \in Seq(Ghost)
      BY DEF StageInv, TypeOK, Ghost
    <3>3. (written \o <<>>) \o <<>> = written
      BY <3>2, Joined
    <3> QED BY <2>1, <3>1, <3>3
  <2> QED BY <2>1, <2>2
<1> QED BY <1>1, StageInvHolds, FlowInvHolds, PTL
=============================================================================
