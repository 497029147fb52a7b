-------------------------- MODULE UsbToNet_proofs --------------------------
(***************************************************************************)
(* Proofs about UsbToNet for every FIFO size, every mix of Message Types   *)
(* and every number of packets: the types; that only whole packets reach   *)
(* sendUmp() unless a peer is unplugged mid-packet; and that until then    *)
(* the loop implements the in-order pipe of PacketPipe.                    *)
(***************************************************************************)
EXTENDS UsbToNet, SequenceTheorems, TLAPS

-----------------------------------------------------------------------------
(* The framer's operators.                                                 *)

\* A Message Type announces between one and four words.
LEMMA WordCountRange ==
    ASSUME NEW mt PROVE umpWordCount(mt) \in 1 .. 4
  BY DEF umpWordCount

\* A peek announces a packet only when all of its words are there.
LEMMA PeekComplete ==
    ASSUME NEW f \in Seq(Word)
    PROVE  /\ peek(f) \in 0 .. 4
           /\ peek(f) # 0 => /\ f # <<>>
                             /\ peek(f) = umpWordCount(f[1].mt)
                             /\ peek(f) <= Len(f)
  BY WordCountRange DEF peek

\* Consuming n words leaves the others, in order.
LEMMA ConsumeDrops ==
    ASSUME NEW f \in Seq(Word), NEW n \in 1 .. Len(f)
    PROVE  /\ consume(f, n) \in Seq(Word)
           /\ Len(consume(f, n)) = Len(f) - n
           /\ \A i \in 1 .. Len(f) - n : consume(f, n)[i] = f[i + n]
  <1>1. CASE n = Len(f)
    BY <1>1 DEF consume
  <1>2. CASE n < Len(f)
    <2>1. \A i \in n + 1 .. Len(f) : f[i] \in Word
      BY ElementOfSeq
    <2>2. consume(f, n) = SubSeq(f, n + 1, Len(f))
      BY <1>2 DEF consume
    <2>3. /\ SubSeq(f, n + 1, Len(f)) \in Seq(Word)
          /\ Len(SubSeq(f, n + 1, Len(f))) = Len(f) - (n + 1) + 1
          /\ \A i \in 1 .. Len(f) - (n + 1) + 1 :
                SubSeq(f, n + 1, Len(f))[i] = f[n + 1 + i - 1]
      BY <1>2, <2>1, SubSeqProperties
    <2> QED BY <1>2, <2>2, <2>3
  <1> QED BY <1>1, <1>2

\* The first n words of a sequence, and those behind them.
LEMMA PrefixAndRest ==
    ASSUME NEW s \in Seq(Word), NEW n \in 0 .. Len(s)
    PROVE  /\ SubSeq(s, 1, n) \in Seq(Word)
           /\ Len(SubSeq(s, 1, n)) = n
           /\ \A i \in 1 .. n : SubSeq(s, 1, n)[i] = s[i]
           /\ SubSeq(s, n + 1, Len(s)) \in Seq(Word)
           /\ Len(SubSeq(s, n + 1, Len(s))) = Len(s) - n
           /\ \A i \in 1 .. Len(s) - n : SubSeq(s, n + 1, Len(s))[i] = s[n + i]
  <1>1. /\ \A i \in 1 .. n : s[i] \in Word
        /\ \A i \in n + 1 .. Len(s) : s[i] \in Word
    BY ElementOfSeq
  <1>2. /\ SubSeq(s, 1, n) \in Seq(Word)
        /\ Len(SubSeq(s, 1, n)) = IF 1 <= n THEN n - 1 + 1 ELSE 0
        /\ \A i \in 1 .. n - 1 + 1 : SubSeq(s, 1, n)[i] = s[1 + i - 1]
    BY <1>1, SubSeqProperties
  <1>3. /\ SubSeq(s, n + 1, Len(s)) \in Seq(Word)
        /\ Len(SubSeq(s, n + 1, Len(s))) = IF n + 1 <= Len(s) THEN Len(s) - (n + 1) + 1 ELSE 0
        /\ \A i \in 1 .. Len(s) - (n + 1) + 1 : SubSeq(s, n + 1, Len(s))[i] = s[n + 1 + i - 1]
    BY <1>1, SubSeqProperties
  <1> QED BY <1>2, <1>3

\* The head packet and what consuming it leaves make up the framer.
LEMMA HeadAndRest ==
    ASSUME NEW f \in Seq(Word), NEW n \in 1 .. Len(f)
    PROVE  f = SubSeq(f, 1, n) \o consume(f, n)
  <1>1. CASE n = Len(f)
    <2>1. consume(f, n) = <<>> /\ SubSeq(f, 1, n) = f
      BY <1>1, SubSeqFull DEF consume
    <2>2. f \o <<>> = f
      BY ConcatEmptySeq
    <2> QED BY <2>1, <2>2
  <1>2. CASE n < Len(f)
    <2>1. consume(f, n) = SubSeq(f, n + 1, Len(f))
      BY <1>2 DEF consume
    <2>2. /\ 1 \in 1 .. Len(f) + 1 /\ n \in 1 - 1 .. Len(f)
          /\ Len(f) \in n .. Len(f)
      BY LenProperties
    <2>3. SubSeq(f, 1, n) \o SubSeq(f, n + 1, Len(f)) = SubSeq(f, 1, Len(f))
      BY <2>2, ConcatAdjacentSubSeq
    <2> QED BY <2>1, <2>3, SubSeqFull
  <1> QED BY <1>1, <1>2

\* A packet the peer starts is made of words and is Whole.
LEMMA PacketIsWhole ==
    ASSUME NEW mt \in MessageType, NEW pid \in Nat, DataNibble \in MessageType
    PROVE  /\ Packet(mt, pid) \in Seq(Word)
           /\ Len(Packet(mt, pid)) = umpWordCount(mt)
           /\ \A i \in 1 .. umpWordCount(mt) :
                /\ Packet(mt, pid)[i].pos = i
                /\ Packet(mt, pid)[i].pid = pid
                /\ Packet(mt, pid)[i].len = umpWordCount(mt)
           /\ Packet(mt, pid)[1].mt = mt
  <1>1. umpWordCount(mt) \in 1 .. 4
    BY WordCountRange
  <1>2. \A i \in 1 .. umpWordCount(mt) :
          [mt  |-> IF i = 1 THEN mt ELSE DataNibble,
           pid |-> pid, pos |-> i, len |-> umpWordCount(mt)] \in Word
    BY <1>1 DEF Word
  <1> QED BY <1>1, <1>2 DEF Packet

\* What disposing of the head packet does to the framer.
LEMMA HeadPacketFacts ==
    ASSUME framer \in Seq(Word), peek(framer) # 0
    PROVE  /\ peek(framer) \in 1 .. Len(framer)
           /\ consume(framer, peek(framer)) \in Seq(Word)
           /\ Len(consume(framer, peek(framer))) = Len(framer) - peek(framer)
           /\ \A i \in 1 .. Len(framer) - peek(framer) :
                 consume(framer, peek(framer))[i] = framer[i + peek(framer)]
           /\ HeadPacket \in Seq(Word)
           /\ Len(HeadPacket) = peek(framer)
           /\ \A i \in 1 .. peek(framer) : HeadPacket[i] = framer[i]
           /\ framer[1] \in Word
  <1>1. peek(framer) \in 1 .. Len(framer)
    <2>1. peek(framer) \in 0 .. 4 /\ peek(framer) <= Len(framer)
      BY PeekComplete
    <2> QED BY <2>1
  <1>2. framer[1] \in Word
    BY <1>1, ElementOfSeq
  <1> DEFINE n == peek(framer)
  <1> HIDE DEF n
  <1>3. n \in 1 .. Len(framer)
    BY <1>1 DEF n
  <1>4. /\ consume(framer, n) \in Seq(Word)
        /\ Len(consume(framer, n)) = Len(framer) - n
        /\ \A i \in 1 .. Len(framer) - n : consume(framer, n)[i] = framer[i + n]
    BY <1>3, ConsumeDrops
  <1>5. n \in 0 .. Len(framer)
    BY <1>3
  <1>6. /\ SubSeq(framer, 1, n) \in Seq(Word)
        /\ Len(SubSeq(framer, 1, n)) = n
        /\ \A i \in 1 .. n : SubSeq(framer, 1, n)[i] = framer[i]
    BY <1>5, PrefixAndRest
  <1>7. HeadPacket = SubSeq(framer, 1, n)
    BY DEF HeadPacket, n
  <1> QED BY <1>2, <1>3, <1>4, <1>6, <1>7 DEF n

\* What a read does to the framer and to the FIFO.
LEMMA ReadFacts ==
    ASSUME framer \in Seq(Word), usb \in Seq(Word), hasRoomFor(framer, 4),
           NEW wc, wc = LowerOf(4, Len(usb))
    PROVE  /\ wc \in 0 .. 4 /\ wc <= Len(usb)
           /\ push(framer, SubSeq(usb, 1, wc)) \in Seq(Word)
           /\ Len(push(framer, SubSeq(usb, 1, wc))) = Len(framer) + wc
           /\ Len(framer) + wc <= kCapacity
           /\ \A i \in 1 .. Len(framer) + wc :
                 push(framer, SubSeq(usb, 1, wc))[i] =
                   IF i <= Len(framer) THEN framer[i] ELSE usb[i - Len(framer)]
           /\ SubSeq(usb, wc + 1, Len(usb)) \in Seq(Word)
           /\ Len(SubSeq(usb, wc + 1, Len(usb))) = Len(usb) - wc
           /\ \A i \in 1 .. Len(usb) - wc : SubSeq(usb, wc + 1, Len(usb))[i] = usb[wc + i]
  <1>1. wc \in 0 .. Len(usb) /\ wc \in 0 .. 4
    <2>1. Len(usb) \in Nat
      BY LenProperties
    <2>2. CASE 4 <= Len(usb)
      <3>1. wc = 4
        BY <2>2 DEF LowerOf
      <3> QED BY <2>1, <2>2, <3>1
    <2>3. CASE ~(4 <= Len(usb))
      <3>1. wc = Len(usb)
        BY <2>3 DEF LowerOf
      <3> QED BY <2>1, <2>3, <3>1
    <2> QED BY <2>2, <2>3
  <1>2. /\ SubSeq(usb, 1, wc) \in Seq(Word)
        /\ Len(SubSeq(usb, 1, wc)) = wc
        /\ \A i \in 1 .. wc : SubSeq(usb, 1, wc)[i] = usb[i]
        /\ SubSeq(usb, wc + 1, Len(usb)) \in Seq(Word)
        /\ Len(SubSeq(usb, wc + 1, Len(usb))) = Len(usb) - wc
        /\ \A i \in 1 .. Len(usb) - wc : SubSeq(usb, wc + 1, Len(usb))[i] = usb[wc + i]
    BY <1>1, PrefixAndRest
  <1> DEFINE ws == SubSeq(usb, 1, wc)
  <1> HIDE DEF ws
  <1>3. /\ ws \in Seq(Word) /\ Len(ws) = wc
        /\ \A i \in 1 .. wc : ws[i] = usb[i]
    BY <1>2 DEF ws
  <1>4. Len(framer) \in Nat /\ Len(framer) + 4 <= kCapacity
    BY DEF hasRoomFor
  <1>5. Len(framer) + wc <= kCapacity
    BY <1>1, <1>4 DEF kCapacity
  <1>6. push(framer, ws) = framer \o ws
    BY <1>3, <1>5 DEF push, hasRoomFor
  <1>7. /\ framer \o ws \in Seq(Word)
        /\ Len(framer \o ws) = Len(framer) + wc
        /\ \A i \in 1 .. Len(framer) + wc :
              (framer \o ws)[i] = IF i <= Len(framer) THEN framer[i] ELSE ws[i - Len(framer)]
    <2>1. /\ framer \o ws \in Seq(Word)
          /\ Len(framer \o ws) = Len(framer) + Len(ws)
          /\ \A i \in 1 .. Len(framer) + Len(ws) :
               (framer \o ws)[i] = IF i <= Len(framer) THEN framer[i] ELSE ws[i - Len(framer)]
      BY <1>3, ConcatProperties
    <2> QED BY <1>3, <2>1
  <1>8. \A i \in 1 .. Len(framer) + wc :
              (framer \o ws)[i] = IF i <= Len(framer) THEN framer[i] ELSE usb[i - Len(framer)]
    BY <1>1, <1>3, <1>4, <1>7
  <1>9. ws = SubSeq(usb, 1, wc)
    BY DEF ws
  <1>10. wc <= Len(usb)
    BY <1>1
  <1>11. /\ push(framer, ws) \in Seq(Word)
         /\ Len(push(framer, ws)) = Len(framer) + wc
         /\ \A i \in 1 .. Len(framer) + wc :
               push(framer, ws)[i] = IF i <= Len(framer) THEN framer[i] ELSE usb[i - Len(framer)]
    BY <1>6, <1>7, <1>8
  <1> QED BY <1>1, <1>2, <1>5, <1>9, <1>10, <1>11

\* A read takes at most what is there, and the framer takes all of it.
LEMMA ReadPushes ==
    ASSUME framer \in Seq(Word), usb \in Seq(Word), hasRoomFor(framer, 4)
    PROVE  LET wc == LowerOf(4, Len(usb))
           IN  /\ wc \in 0 .. Len(usb)
               /\ push(framer, SubSeq(usb, 1, wc)) = framer \o SubSeq(usb, 1, wc)
  <1> DEFINE wc == LowerOf(4, Len(usb))
             ws == SubSeq(usb, 1, wc)
  <1>1. wc \in 0 .. Len(usb) /\ wc \in 0 .. 4
    <2>1. wc \in 0 .. 4 /\ wc <= Len(usb)
      BY ReadFacts
    <2> QED BY <2>1, LenProperties
  <1>2. ws \in Seq(Word) /\ Len(ws) = wc
    BY <1>1, PrefixAndRest
  <1>3. Len(framer) \in Nat /\ Len(framer) + 4 <= kCapacity
    BY LenProperties DEF hasRoomFor
  <1> HIDE DEF wc, ws
  <1>4. hasRoomFor(framer, Len(ws))
    BY <1>1, <1>2, <1>3 DEF hasRoomFor, kCapacity
  <1>5. push(framer, ws) = framer \o ws
    BY <1>4 DEF push
  <1> QED BY <1>1, <1>5 DEF wc, ws

-----------------------------------------------------------------------------
(* Types.                                                                  *)

\* TypeOK is not inductive alone: an iteration entered from the refill point
\* does not test the bound on reads again, and stays within it because refills
\* happen only below it.
TypeInv ==
    /\ TypeOK
    /\ pc = "refill" => drained < kMaxUmpPerPass

\* No step changes which program runs.
LEMMA BuildKept ==
    ASSUME build \in Builds, [Next]_vars
    PROVE  /\ build' \in Builds /\ kMaxUsbRefills \in Nat
           /\ kMaxUsbRefills' = kMaxUsbRefills /\ DeviceRole' = DeviceRole
  <1>1. build' = build
    BY DEF Next, DrainLoop, UsbSide, PeerStarts, WordArrives, Unmount, Mount,
           BeginPass, EnterIteration, Refill, LeaveLoop, ReadUsb, AnswerStream,
           SendAccepted, SendRefused, DiscardGated, NoWholePacket, Tick,
           SessionMoves, HeldUp, Resumes, vars
  <1>2. build \in Build
    BY UsbToNetAssumption
  <1>3. kMaxUsbRefills \in Nat
    BY <1>2 DEF Build, kMaxUsbRefills
  <1> QED BY <1>1, <1>3 DEF kMaxUsbRefills, DeviceRole

\* TypeInv is inductive.
LEMMA TypeInvHolds == Spec => []TypeInv
<1> USE UsbToNetAssumption DEF TypeOK, TypeInv, kCapacity
<1>1. Init => TypeInv
  <2> SUFFICES ASSUME Init PROVE TypeInv
    OBVIOUS
  <2> USE DEF Init
  <2>1. <<>> \in Seq(Word) /\ <<>> \in Seq(Seq(Word)) /\ Len(<<>>) = 0
    OBVIOUS
  <2>2. usb \in Seq(Word) /\ Len(usb) <= FifoWords
    BY <2>1
  <2>3. framer \in Seq(Word) /\ Len(framer) <= kCapacity
    BY <2>1
  <2>4. sending \in Seq(Word) /\ Len(sending) <= 4
    BY <2>1
  <2>5. mounted \in BOOLEAN /\ torn \in BOOLEAN
    OBVIOUS
  <2>6. session \in SessionState
    BY DEF SessionState
  <2>7. txUsed \in 0 .. TxSlots
    OBVIOUS
  <2>8. /\ build \in Builds
        /\ drained \in 0 .. kMaxUmpPerPass /\ refills \in 0 .. kMaxUsbRefills
    <3>1. build \in Build
      OBVIOUS
    <3>2. kMaxUsbRefills \in Nat
      BY <3>1 DEF Build, kMaxUsbRefills
    <3> QED BY <3>2
  <2>9. started \in Nat /\ unmounts \in Nat /\ answered \in SUBSET Nat
    OBVIOUS
  <2> QED BY <2>1, <2>2, <2>3, <2>4, <2>5, <2>6, <2>7, <2>8, <2>9
<1>2. TypeInv /\ [Next]_vars => TypeInv'
  <2> SUFFICES ASSUME TypeInv, [Next]_vars PROVE TypeInv'
    OBVIOUS
  <2>0. /\ build' \in Builds /\ kMaxUsbRefills \in Nat
        /\ kMaxUsbRefills' = kMaxUsbRefills
    BY BuildKept
  <2> USE <2>0
  <2>1. CASE PeerStarts
    <3>1. PICK mt \in MsgTypes : sending' = Packet(mt, started + 1)
      BY <2>1 DEF PeerStarts
    <3>2. mt \in MessageType /\ DataNibble \in MessageType /\ started + 1 \in Nat
      BY <3>1
    <3>3. umpWordCount(mt) \in 1 .. 4
      BY WordCountRange
    <3>4. /\ Packet(mt, started + 1) \in Seq(Word)
          /\ Len(Packet(mt, started + 1)) = umpWordCount(mt)
      BY <3>2, PacketIsWhole
    <3>5. sending' \in Seq(Word) /\ Len(sending') <= 4
      BY <3>1, <3>3, <3>4
    <3> QED BY <2>1, <3>5 DEF PeerStarts, bridgeVars
  <2>2. CASE WordArrives
    <3>1. /\ Head(sending) \in Word
          /\ Tail(sending) \in Seq(Word)
          /\ Len(Tail(sending)) = Len(sending) - 1
      BY <2>2, HeadTailProperties DEF WordArrives
    <3>2. /\ Append(usb, Head(sending)) \in Seq(Word)
          /\ Len(Append(usb, Head(sending))) = Len(usb) + 1
      BY <3>1, AppendProperties
    <3>3. /\ usb' = Append(usb, Head(sending)) /\ sending' = Tail(sending)
          /\ Len(usb) < FifoWords
      BY <2>2 DEF WordArrives
    <3>4. /\ Len(usb) \in Nat /\ Len(sending) \in Nat
      BY LenProperties
    <3>5. /\ usb' \in Seq(Word) /\ Len(usb') <= FifoWords
          /\ sending' \in Seq(Word) /\ Len(sending') <= 4
      BY <3>1, <3>2, <3>3, <3>4
    <3>6. UNCHANGED <<framer, pc, drained, refills, txUsed, session, sent, answered,
                      started, mounted, unmounts, torn>>
      BY <2>2 DEF WordArrives, bridgeVars
    <3>7. mounted' \in BOOLEAN /\ torn' \in BOOLEAN /\ session' \in SessionState
      BY <3>6
    <3>8. /\ framer' \in Seq(Word) /\ Len(framer') <= kCapacity
          /\ sent' \in Seq(Seq(Word))
      BY <3>6
    <3>9. /\ txUsed' \in 0 .. TxSlots
          /\ pc' \in {"held", "task", "drain", "refill", "read", "packets", "tick"}
          /\ drained' \in 0 .. kMaxUmpPerPass /\ refills' \in 0 .. kMaxUsbRefills'
          /\ started' \in Nat /\ unmounts' \in Nat
          /\ answered' \in SUBSET Nat
          /\ pc' = "refill" => drained' < kMaxUmpPerPass
      BY <3>6
    <3> QED BY <3>5, <3>7, <3>8, <3>9
  <2>3. CASE Unmount
    <3>1. /\ usb' = <<>> /\ sending' = <<>> /\ mounted' = FALSE
          /\ unmounts' = unmounts + 1
          /\ UNCHANGED <<framer, pc, drained, refills, txUsed, session, sent,
                         answered, started>>
      BY <2>3 DEF Unmount, bridgeVars
    <3>2. torn' \in BOOLEAN
      BY <2>3 DEF Unmount
    <3>3. <<>> \in Seq(Word) /\ Len(<<>>) = 0
      OBVIOUS
    <3>4. mounted' \in BOOLEAN /\ session' \in SessionState
      BY <3>1
    <3>5. /\ usb' \in Seq(Word) /\ Len(usb') <= FifoWords
          /\ sending' \in Seq(Word) /\ Len(sending') <= 4
      BY <3>1, <3>3
    <3>6. /\ framer' \in Seq(Word) /\ Len(framer') <= kCapacity
          /\ sent' \in Seq(Seq(Word))
      BY <3>1
    <3>7. /\ txUsed' \in 0 .. TxSlots
          /\ pc' \in {"held", "task", "drain", "refill", "read", "packets", "tick"}
          /\ drained' \in 0 .. kMaxUmpPerPass /\ refills' \in 0 .. kMaxUsbRefills'
          /\ started' \in Nat /\ unmounts' \in Nat
          /\ answered' \in SUBSET Nat
          /\ pc' = "refill" => drained' < kMaxUmpPerPass
      BY <3>1
    <3> QED BY <3>2, <3>4, <3>5, <3>6, <3>7
  <2>4. CASE Mount
    BY <2>4 DEF Mount, bridgeVars
  <2>5. CASE BeginPass
    BY <2>5 DEF BeginPass, peerVars
  <2>6. CASE EnterIteration
    BY <2>6 DEF EnterIteration, peerVars
  <2>7. CASE Refill
    BY <2>7 DEF Refill, peerVars
  <2>8. CASE LeaveLoop
    BY <2>8 DEF LeaveLoop, peerVars
  <2>9. CASE ReadUsb
    <3> DEFINE wc == LowerOf(4, Len(usb))
    <3>1. CASE hasRoomFor(framer, 4)
      <4>1. /\ framer' = push(framer, SubSeq(usb, 1, wc))
            /\ usb' = SubSeq(usb, wc + 1, Len(usb))
            /\ pc' \in {"tick", "packets"}
        BY <2>9, <3>1 DEF ReadUsb
      <4>2. /\ wc \in 0 .. 4
            /\ framer' \in Seq(Word) /\ Len(framer') = Len(framer) + wc
            /\ Len(framer) + wc <= kCapacity
            /\ usb' \in Seq(Word) /\ Len(usb') = Len(usb) - wc
        <5> HIDE DEF TypeInv
        <5>1. framer \in Seq(Word) /\ usb \in Seq(Word)
          BY DEF TypeInv
        <5> QED BY <3>1, <4>1, <5>1, ReadFacts
      <4>3. Len(framer') <= kCapacity /\ Len(usb') <= FifoWords
        BY <4>2, LenProperties, SMTT(30)
      <4> QED BY <2>9, <4>1, <4>2, <4>3 DEF ReadUsb
    <3>2. CASE ~hasRoomFor(framer, 4)
      BY <2>9, <3>2 DEF ReadUsb
    <3> QED BY <3>1, <3>2
  <2>10. ASSUME AtPacket
         PROVE  /\ consume(framer, peek(framer)) \in Seq(Word)
                /\ Len(consume(framer, peek(framer))) <= kCapacity
                /\ HeadPacket \in Seq(Word)
                /\ framer[1].pid \in Nat
    <3>1. framer \in Seq(Word) /\ Len(framer) <= kCapacity
      OBVIOUS
    <3> HIDE DEF TypeInv, TypeOK
    <3> QED BY <2>10, <3>1, HeadPacketFacts DEF AtPacket, Word
  <2>11. CASE AnswerStream
    BY <2>10, <2>11 DEF AnswerStream, AtPacket, peerVars
  <2>12. CASE SendAccepted
    BY <2>10, <2>12 DEF SendAccepted, AtPacket, txSpaceAvailable, peerVars
  <2>13. CASE SendRefused
    BY <2>13 DEF SendRefused, peerVars
  <2>14. CASE DiscardGated
    BY <2>10, <2>14 DEF DiscardGated, AtPacket, peerVars
  <2>15. CASE NoWholePacket
    BY <2>15 DEF NoWholePacket, peerVars
  <2>16. CASE Tick
    BY <2>16 DEF Tick, peerVars
  <2>17. CASE SessionMoves
    BY <2>17 DEF SessionMoves, peerVars
  <2>18. CASE UNCHANGED vars
    BY <2>18 DEF vars, bridgeVars, peerVars
  <2>19. CASE HeldUp
    BY <2>19 DEF HeldUp, peerVars, SessionState
  <2>20. CASE Resumes
    BY <2>20 DEF Resumes, peerVars, SessionState
  <2> QED
    BY <2>1, <2>2, <2>3, <2>4, <2>5, <2>6, <2>7, <2>8, <2>9, <2>11, <2>12, <2>13,
       <2>14, <2>15, <2>16, <2>17, <2>18, <2>19, <2>20 DEF Next, DrainLoop, UsbSide
<1> QED BY <1>1, <1>2, PTL DEF Spec

\* The counters, FIFO lengths and words keep their ranges along every behaviour.
THEOREM UsbToNetTypes == Spec => []TypeOK
<1>1. TypeInv => TypeOK
  BY DEF TypeInv
<1> QED BY <1>1, TypeInvHolds, PTL

-----------------------------------------------------------------------------
(* Framing.                                                                *)

\* Dropping whole packets from the front leaves whole packets.
LEMMA FramedDrop ==
    ASSUME NEW s \in Seq(Word), NEW t \in Seq(Word), NEW k \in 0 .. Len(s),
           Len(t) = Len(s) - k,
           \A i \in 1 .. Len(t) : t[i] = s[i + k],
           k = 0 \/ s[k].pos = s[k].len,
           Framed(s)
    PROVE  Framed(t)
  <1>1. Len(s) \in Nat /\ Len(t) \in Nat
    BY LenProperties
  <1>2. ASSUME t # <<>> PROVE t[1].pos = 1 /\ EndsAtBoundary(t)
    <2>1. Len(t) # 0
      BY <1>2, EmptySeq
    <2>2. Len(s) # 0 /\ t[1] = s[1 + k] /\ t[Len(t)] = s[Len(s)]
      <3>1. Len(s) # 0 /\ 1 \in 1 .. Len(t) /\ Len(t) \in 1 .. Len(t)
        BY <1>1, <2>1
      <3>2. t[1] = s[1 + k]
        BY <3>1
      <3>3. t[Len(t)] = s[Len(t) + k]
        BY <3>1
      <3>4. Len(t) + k = Len(s)
        BY <1>1
      <3> QED BY <3>1, <3>2, <3>3, <3>4
    <2>3. s # <<>>
      BY <2>2, EmptySeq
    <2>4. s[1].pos = 1 /\ s[Len(s)].pos = s[Len(s)].len
      BY <2>3 DEF Framed, EndsAtBoundary
    <2>5. t[1].pos = 1
      <3>1. CASE k = 0
        BY <2>2, <2>4, <3>1
      <3>2. CASE k # 0
        <4>1. k \in 1 .. Len(s) - 1
          BY <1>1, <2>1, <3>2
        <4>2. Follows(s[k], s[k + 1])
          BY <4>1 DEF Framed
        <4>3. s[k].pos = s[k].len /\ s[k].pos \in 1 .. 4
          <5>1. s[k] \in Word
            BY <1>1, <4>1, ElementOfSeq
          <5> QED BY <3>2, <5>1 DEF Word
        <4>4. ~(s[k].pos < s[k].len)
          BY <4>3
        <4> QED BY <2>2, <4>2, <4>4 DEF Follows
      <3> QED BY <3>1, <3>2
    <2>6. EndsAtBoundary(t)
      BY <2>2, <2>4 DEF EndsAtBoundary
    <2> QED BY <2>5, <2>6
  <1>3. ASSUME NEW i \in 1 .. Len(t) - 1 PROVE Follows(t[i], t[i + 1])
    <2>1. i + k \in 1 .. Len(s) - 1 /\ i \in 1 .. Len(t) /\ i + 1 \in 1 .. Len(t)
      BY <1>1, <1>3
    <2>2. Follows(s[i + k], s[i + k + 1])
      BY <2>1 DEF Framed
    <2>3. t[i] = s[i + k] /\ t[i + 1] = s[i + 1 + k] /\ i + 1 + k = i + k + 1
      BY <2>1
    <2> QED BY <2>2, <2>3
  <1>4. ASSUME NEW i \in 1 .. Len(t), t[i].pos = 1
        PROVE  umpWordCount(t[i].mt) = t[i].len
    <2>1. i + k \in 1 .. Len(s) /\ t[i] = s[i + k]
      BY <1>1, <1>4
    <2> QED BY <1>4, <2>1 DEF Framed
  <1> QED BY <1>2, <1>3, <1>4 DEF Framed

\* A prefix that ends where a packet ends is made of whole packets.
LEMMA FramedTake ==
    ASSUME NEW s \in Seq(Word), NEW t \in Seq(Word), Len(t) <= Len(s),
           \A i \in 1 .. Len(t) : t[i] = s[i],
           EndsAtBoundary(t),
           Framed(s)
    PROVE  Framed(t)
  <1>1. Len(s) \in Nat /\ Len(t) \in Nat
    BY LenProperties
  <1>2. ASSUME t # <<>> PROVE t[1].pos = 1
    <2>1. Len(t) # 0
      BY <1>2, EmptySeq
    <2>2. Len(s) # 0 /\ t[1] = s[1]
      BY <1>1, <2>1
    <2>3. s # <<>>
      BY <2>2, EmptySeq
    <2> QED BY <2>2, <2>3 DEF Framed
  <1>3. ASSUME NEW i \in 1 .. Len(t) - 1 PROVE Follows(t[i], t[i + 1])
    <2>1. i \in 1 .. Len(s) - 1 /\ i \in 1 .. Len(t) /\ i + 1 \in 1 .. Len(t)
      BY <1>1, <1>3
    <2>2. Follows(s[i], s[i + 1])
      BY <2>1 DEF Framed
    <2> QED BY <2>1, <2>2
  <1>4. ASSUME NEW i \in 1 .. Len(t), t[i].pos = 1
        PROVE  umpWordCount(t[i].mt) = t[i].len
    <2>1. i \in 1 .. Len(s) /\ t[i] = s[i]
      BY <1>1, <1>4
    <2> QED BY <1>4, <2>1 DEF Framed
  <1> QED BY <1>2, <1>3, <1>4 DEF Framed

\* A packet put behind whole packets makes whole packets.
LEMMA FramedAppend ==
    ASSUME NEW s \in Seq(Word), NEW mt \in MessageType, NEW pid \in Nat,
           DataNibble \in MessageType, Framed(s)
    PROVE  Framed(s \o Packet(mt, pid))
  <1> DEFINE p == Packet(mt, pid)
             n == umpWordCount(mt)
             m == Len(s)
             t == s \o p
  <1>1. n \in 1 .. 4 /\ m \in Nat
    BY WordCountRange, LenProperties
  <1>2. /\ p \in Seq(Word) /\ Len(p) = n /\ p[1].mt = mt
        /\ \A i \in 1 .. n : p[i].pos = i /\ p[i].pid = pid /\ p[i].len = n
    BY PacketIsWhole
  <1> HIDE DEF p, n
  <1>3. /\ t \in Seq(Word) /\ Len(t) = m + n
        /\ \A i \in 1 .. m + n : t[i] = IF i <= m THEN s[i] ELSE p[i - m]
    BY <1>2, ConcatProperties
  <1> HIDE DEF t, m
  <1>4. /\ \A i \in 1 .. m : t[i] = s[i]
        /\ \A j \in 1 .. n : t[m + j] = p[j]
    BY <1>1, <1>3
  <1>5. t[1].pos = 1
    <2>1. CASE m = 0
      <3>1. t[1] = p[1]
        BY <1>1, <1>4, <2>1
      <3> QED BY <1>1, <1>2, <3>1
    <2>2. CASE m # 0
      <3>1. s # <<>> /\ t[1] = s[1]
        BY <1>1, <1>4, <2>2, EmptySeq DEF m
      <3> QED BY <3>1 DEF Framed
    <2> QED BY <2>1, <2>2
  <1>6. EndsAtBoundary(t)
    <2>1. t[Len(t)] = p[n]
      BY <1>1, <1>3, <1>4
    <2> QED BY <1>1, <1>2, <2>1 DEF EndsAtBoundary
  <1>7. ASSUME NEW i \in 1 .. Len(t) - 1 PROVE Follows(t[i], t[i + 1])
    <2>1. CASE i < m
      <3>1. /\ i \in 1 .. Len(s) - 1
            /\ t[i] = s[i] /\ t[i + 1] = s[i + 1]
        BY <1>1, <1>4, <2>1 DEF m
      <3> QED BY <3>1 DEF Framed
    <2>2. CASE i = m
      <3>1. t[i] = s[m] /\ t[i + 1] = p[1] /\ m # 0 /\ s # <<>>
        BY <1>1, <1>4, <2>2, EmptySeq DEF m
      <3>2. s[m].pos = s[m].len /\ s[m].pos \in 1 .. 4
        <4>1. s[m].pos = s[m].len
          BY <3>1 DEF Framed, EndsAtBoundary, m
        <4>2. s[m] \in Word
          BY <1>1, <3>1, ElementOfSeq DEF m
        <4> QED BY <4>1, <4>2 DEF Word
      <3>3. ~(s[m].pos < s[m].len) /\ p[1].pos = 1
        BY <1>1, <1>2, <3>2
      <3> QED BY <3>1, <3>3 DEF Follows
    <2>3. CASE i > m
      <3>1. PICK j \in 1 .. n - 1 : i = m + j
        <4>1. i - m \in 1 .. n - 1 /\ i = m + (i - m)
          BY <1>1, <1>3, <2>3
        <4> QED BY <4>1
      <3>2. t[i] = p[j] /\ t[i + 1] = p[j + 1]
        BY <1>1, <1>4, <3>1
      <3>3. /\ p[j].pos = j /\ p[j].pid = pid /\ p[j].len = n
            /\ p[j + 1].pos = j + 1 /\ p[j + 1].pid = pid /\ p[j + 1].len = n
        <4>1. j \in 1 .. n /\ j + 1 \in 1 .. n
          BY <1>1, <3>1
        <4> QED BY <1>2, <4>1
      <3>4. j < n
        BY <1>1, <3>1
      <3> QED BY <3>2, <3>3, <3>4 DEF Follows
    <2> QED BY <1>1, <1>7, <2>1, <2>2, <2>3
  <1>8. ASSUME NEW i \in 1 .. Len(t), t[i].pos = 1
        PROVE  umpWordCount(t[i].mt) = t[i].len
    <2>1. CASE i <= m
      <3>1. i \in 1 .. Len(s) /\ t[i] = s[i]
        BY <1>1, <1>4, <2>1 DEF m
      <3> QED BY <1>8, <3>1 DEF Framed
    <2>2. CASE i > m
      <3>1. PICK j \in 1 .. n : i = m + j
        <4>1. i - m \in 1 .. n /\ i = m + (i - m)
          BY <1>1, <1>3, <2>2
        <4> QED BY <4>1
      <3>2. t[i] = p[j] /\ p[j].pos = j /\ p[j].len = n
        BY <1>2, <1>4, <3>1
      <3>3. j = 1
        BY <1>8, <3>2
      <3> QED BY <1>2, <3>2, <3>3 DEF n
    <2> QED BY <1>1, <2>1, <2>2
  <1>9. Framed(t)
    BY <1>5, <1>6, <1>7, <1>8 DEF Framed
  <1> QED BY <1>9 DEF t, p

\* At the head of whole packets, peek() announces exactly the head packet.
LEMMA HeadIsWhole ==
    ASSUME NEW f \in Seq(Word), NEW s \in Seq(Word), Framed(s),
           peek(f) # 0, peek(f) <= Len(s),
           NEW p \in Seq(Word), Len(p) = peek(f),
           \A i \in 1 .. peek(f) : p[i] = f[i] /\ p[i] = s[i]
    PROVE  Whole(p) /\ s[peek(f)].pos = s[peek(f)].len
  <1> DEFINE n == peek(f)
  <1>1. n \in 1 .. 4 /\ n <= Len(f) /\ f # <<>> /\ n = umpWordCount(f[1].mt)
    BY PeekComplete
  <1> HIDE DEF n
  <1>2. Len(f) \in Nat /\ Len(s) \in Nat
    BY LenProperties
  <1>3. n <= Len(s) /\ \A i \in 1 .. n : p[i] = s[i] /\ f[i] = s[i]
    BY <1>1, <1>2 DEF n
  <1>4. s[1].pos = 1 /\ s[1].len = n
    <2>1. s # <<>> /\ 1 \in 1 .. Len(s) /\ f[1] = s[1]
      BY <1>1, <1>2, <1>3, EmptySeq
    <2>2. s[1].pos = 1
      BY <2>1 DEF Framed
    <2>3. umpWordCount(s[1].mt) = s[1].len
      BY <2>1, <2>2 DEF Framed
    <2> QED BY <1>1, <2>1, <2>2, <2>3
  <1>5. ASSUME NEW i \in 1 .. n - 1,
               s[i].pos = i, s[i].pid = s[1].pid, s[i].len = n
        PROVE  s[i + 1].pos = i + 1 /\ s[i + 1].pid = s[1].pid /\ s[i + 1].len = n
    <2>1. i \in 1 .. Len(s) - 1 /\ i < n
      BY <1>1, <1>2, <1>3
    <2>2. Follows(s[i], s[i + 1])
      BY <2>1 DEF Framed
    <2> QED BY <1>5, <2>1, <2>2 DEF Follows
  <1> DEFINE OK(i) == s[i].pos = i /\ s[i].pid = s[1].pid /\ s[i].len = n
  <1>6. OK(1)
    BY <1>4
  <1>7. /\ n >= 2 => OK(2)
        /\ n >= 3 => OK(3)
        /\ n >= 4 => OK(4)
    <2>1. ASSUME n >= 2 PROVE OK(2)
      <3>1. 1 \in 1 .. n - 1 /\ 1 + 1 = 2
        BY <1>1, <2>1
      <3>2. OK(1 + 1)
        BY <1>5, <1>6, <3>1
      <3> QED BY <3>1, <3>2
    <2>2. ASSUME n >= 3 PROVE OK(3)
      <3>1. 2 \in 1 .. n - 1 /\ 2 + 1 = 3 /\ n >= 2
        BY <1>1, <2>2
      <3>2. OK(2 + 1)
        BY <1>5, <2>1, <3>1
      <3> QED BY <3>1, <3>2
    <2>3. ASSUME n >= 4 PROVE OK(4)
      <3>1. 3 \in 1 .. n - 1 /\ 3 + 1 = 4 /\ n >= 3
        BY <1>1, <2>3
      <3>2. OK(3 + 1)
        BY <1>5, <2>2, <3>1
      <3> QED BY <3>1, <3>2
    <2> QED BY <2>1, <2>2, <2>3
  <1>8. \A i \in 1 .. n : OK(i)
    BY <1>1, <1>6, <1>7, SMTT(30)
  <1>9. \A i \in 1 .. n : p[i].pos = i /\ p[i].pid = p[1].pid /\ p[i].len = n
    BY <1>1, <1>3, <1>8
  <1>10. Len(p) = n
    BY DEF n
  <1>11. Whole(p)
    BY <1>1, <1>9, <1>10 DEF Whole
  <1>12. s[n].pos = s[n].len
    BY <1>1, <1>8
  <1> QED BY <1>11, <1>12 DEF n

\* Concatenation of words is associative.
LEMMA Associative ==
    \A a, b, c \in Seq(Word) : (a \o b) \o c = a \o (b \o c)
  <1> TAKE a, b, c \in Seq(Word)
  <1> QED BY ConcatAssociative

\* What a split of the framer's words into a head and a rest does to the line.
LEMMA LineSplits ==
    ASSUME NEW h \in Seq(Word), NEW r \in Seq(Word), NEW u \in Seq(Word),
           NEW d \in Seq(Word)
    PROVE  /\ (h \o r) \o u \o d = h \o (r \o u \o d)
           /\ r \o u \o d \in Seq(Word)
  <1>1. r \o u \in Seq(Word) /\ h \o r \in Seq(Word)
    BY ConcatProperties
  <1>2. (h \o r) \o u = h \o (r \o u)
    BY ConcatAssociative
  <1> DEFINE ru == r \o u
  <1>3. ru \in Seq(Word)
    BY <1>1
  <1> HIDE DEF ru
  <1>4. /\ (h \o ru) \o d = h \o (ru \o d)
        /\ ru \o d \in Seq(Word)
    <2>1. (h \o ru) \o d = h \o (ru \o d)
      <3>1. h \in Seq(Word) /\ ru \in Seq(Word) /\ d \in Seq(Word)
        BY <1>3
      <3> QED BY <3>1, Associative, SMTT(30)
    <2>2. ru \o d \in Seq(Word)
      BY <1>3, ConcatProperties
    <2> QED BY <2>1, <2>2
  <1> QED BY <1>2, <1>4 DEF ru

-----------------------------------------------------------------------------
(* Whole packets only.  SentWhole is not inductive: that the next packet     *)
(* taken from the framer is whole follows from LineFramed, and LineFramed    *)
(* from what is still behind it in the FIFO and on the bus.                  *)

FramingInv == LineFramed /\ SentWhole

LineWords ==
    /\ framer \in Seq(Word) /\ usb \in Seq(Word) /\ sending \in Seq(Word)
    /\ sent \in Seq(Seq(Word)) /\ started \in Nat

\* Taking the head packet off the framer keeps the line framed, and the packet
\* taken is whole.
LEMMA HeadTaken ==
    ASSUME LineWords, LineFramed, ~torn, peek(framer) # 0,
           framer' = consume(framer, peek(framer)),
           usb' = usb, sending' = sending
    PROVE  Framed(Line') /\ Whole(HeadPacket)
  <1> DEFINE n == peek(framer)
             h == HeadPacket
             r == consume(framer, n)
             t == r \o usb \o sending
  <1>1. /\ n \in 1 .. Len(framer)
        /\ r \in Seq(Word) /\ Len(r) = Len(framer) - n
        /\ \A i \in 1 .. Len(framer) - n : r[i] = framer[i + n]
        /\ h \in Seq(Word) /\ Len(h) = n
        /\ \A i \in 1 .. n : h[i] = framer[i]
    BY HeadPacketFacts DEF LineWords
  <1>2. framer \in Seq(Word) /\ usb \in Seq(Word) /\ sending \in Seq(Word)
    BY DEF LineWords
  <1>3. framer = h \o r
    BY <1>1, <1>2, HeadAndRest DEF HeadPacket
  <1> HIDE DEF r, h
  <1>4. Line = h \o t /\ t \in Seq(Word) /\ Line' = t
    <2>1. (h \o r) \o usb \o sending = h \o t /\ t \in Seq(Word)
      BY <1>1, <1>2, LineSplits
    <2>2. Line' = t
      BY DEF Line, r
    <2> QED BY <1>3, <2>1, <2>2 DEF Line
  <1> HIDE DEF t, n
  <1>5. /\ h \o t \in Seq(Word) /\ Len(h \o t) = n + Len(t) /\ Len(t) \in Nat
        /\ \A i \in 1 .. n + Len(t) : (h \o t)[i] = IF i <= n THEN h[i] ELSE t[i - n]
    <2>1. h \in Seq(Word) /\ t \in Seq(Word) /\ Len(h) = n
      BY <1>1, <1>4 DEF n
    <2>2. /\ h \o t \in Seq(Word) /\ Len(h \o t) = Len(h) + Len(t)
          /\ \A i \in 1 .. Len(h) + Len(t) :
               (h \o t)[i] = IF i <= Len(h) THEN h[i] ELSE t[i - Len(h)]
      BY <2>1, ConcatProperties
    <2>3. Len(t) \in Nat
      BY <2>1, LenProperties
    <2> QED BY <2>1, <2>2, <2>3
  <1> DEFINE s == h \o t
  <1>6. Framed(s) /\ Line = s
    BY <1>4 DEF LineFramed
  <1> HIDE DEF s
  <1>7. s \in Seq(Word) /\ Len(s) = n + Len(t) /\ Len(t) \in Nat
    BY <1>5 DEF s
  <1>8. n \in Nat /\ n # 0
    BY <1>1, <1>2, LenProperties
  <1>9. \A i \in 1 .. n : h[i] = s[i]
    BY <1>5, <1>8 DEF s
  <1>10. \A i \in 1 .. Len(t) : t[i] = s[i + n]
    <2>1. ASSUME NEW i \in 1 .. Len(t) PROVE t[i] = s[i + n]
      <3> DEFINE j == i + n
      <3>1. j \in 1 .. n + Len(t) /\ ~(j <= n) /\ j - n = i
        BY <1>5, <1>8
      <3> HIDE DEF j
      <3>2. s[j] = t[j - n]
        BY <1>5, <3>1 DEF s
      <3>3. s[j] = t[i]
        BY <3>1, <3>2
      <3> QED BY <3>3 DEF j
    <2> QED BY <2>1
  <1>11. Whole(h) /\ s[n].pos = s[n].len
    <2>1. /\ peek(framer) = n /\ Len(h) = peek(framer)
          /\ h \in Seq(Word) /\ s \in Seq(Word) /\ framer \in Seq(Word)
      BY <1>1, <1>2, <1>7 DEF n
    <2>2. peek(framer) # 0 /\ peek(framer) <= Len(s)
      BY <1>7, <1>8 DEF n
    <2>3. \A i \in 1 .. peek(framer) : h[i] = framer[i] /\ h[i] = s[i]
      BY <1>1, <1>9 DEF n
    <2>4. Whole(h) /\ s[peek(framer)].pos = s[peek(framer)].len
      BY <1>6, <2>1, <2>2, <2>3, HeadIsWhole
    <2> QED BY <2>4 DEF n
  <1>12. n \in 0 .. Len(s) /\ Len(t) = Len(s) - n
    BY <1>7, <1>8
  <1>13. Framed(t)
    BY <1>4, <1>6, <1>7, <1>10, <1>11, <1>12, FramedDrop
  <1> QED BY <1>4, <1>11, <1>13 DEF h

\* A step that only moves words along the line keeps FramingInv.
LEMMA LineKept ==
    ASSUME FramingInv, torn' = torn, sent' = sent, Line' = Line,
           DeviceRole' = DeviceRole
    PROVE  FramingInv'
  BY DEF FramingInv, LineFramed, SentWhole

\* A read moves words from the FIFO to the framer; the line stays what it was.
LEMMA ReadKeepsLine ==
    ASSUME LineWords, ReadUsb PROVE Line' = Line
  <1>1. CASE ~hasRoomFor(framer, 4)
    BY <1>1 DEF ReadUsb, Line
  <1>2. CASE hasRoomFor(framer, 4)
    <2> DEFINE wc == LowerOf(4, Len(usb))
               a  == SubSeq(usb, 1, wc)
               b  == SubSeq(usb, wc + 1, Len(usb))
    <2>1. framer' = push(framer, a) /\ usb' = b /\ sending' = sending
      BY <1>2 DEF ReadUsb
    <2>2. framer \in Seq(Word) /\ usb \in Seq(Word) /\ sending \in Seq(Word)
      BY DEF LineWords
    <2>3. wc \in 0 .. Len(usb) /\ push(framer, a) = framer \o a
      BY <1>2, <2>2, ReadPushes
    <2> HIDE DEF wc
    <2>4. a \in Seq(Word) /\ b \in Seq(Word)
      BY <2>2, <2>3, PrefixAndRest
    <2>5. a \o b = usb
      <3>1. /\ 1 \in 1 .. Len(usb) + 1 /\ wc \in 1 - 1 .. Len(usb)
            /\ Len(usb) \in wc .. Len(usb)
        BY <2>2, <2>3, LenProperties
      <3>2. a \o b = SubSeq(usb, 1, Len(usb))
        BY <2>2, <3>1, ConcatAdjacentSubSeq
      <3> QED BY <2>2, <3>2, SubSeqFull
    <2> HIDE DEF a, b
    <2>6. (framer \o a) \o b = framer \o (a \o b)
      BY <2>2, <2>4, ConcatAssociative, SMTT(30)
    <2> QED BY <2>1, <2>3, <2>5, <2>6 DEF Line
  <1> QED BY <1>1, <1>2

\* A word that arrives moves from the packet being sent to the FIFO.
LEMMA ArrivalKeepsLine ==
    ASSUME LineWords, WordArrives PROVE Line' = Line
  <1> DEFINE h == Head(sending)
             t == Tail(sending)
  <1>1. /\ usb' = Append(usb, h) /\ sending' = t /\ framer' = framer
        /\ sending # <<>>
    BY DEF WordArrives, bridgeVars
  <1>2. framer \in Seq(Word) /\ usb \in Seq(Word) /\ sending \in Seq(Word)
    BY DEF LineWords
  <1>3. h \in Word /\ t \in Seq(Word)
    BY <1>1, <1>2, HeadTailProperties
  <1>4. sending = <<h>> \o t
    <2>1. /\ Len(sending) \in Nat \ {0} /\ h = sending[1]
          /\ t = SubSeq(sending, 2, Len(sending))
      BY <1>1, <1>2, EmptySeq, TailIsSubSeq
    <2>2. 1 \in 1 .. Len(sending) /\ Len(sending) \in 1 .. Len(sending)
      BY <2>1
    <2>3. SubSeq(sending, 1, Len(sending))
             = <<sending[1]>> \o SubSeq(sending, 1 + 1, Len(sending))
      BY <1>2, <2>2, SubSeqRecursiveFirst
    <2>4. SubSeq(sending, 1, Len(sending)) = sending
      BY <1>2, SubSeqFull
    <2> QED BY <2>1, <2>3, <2>4
  <1>5. Append(usb, h) = usb \o <<h>> /\ <<h>> \in Seq(Word)
    BY <1>2, <1>3, AppendIsConcat
  <1> HIDE DEF h, t
  <1> DEFINE o == <<h>>
  <1>6. o \in Seq(Word)
    BY <1>5
  <1> HIDE DEF o
  <1>7. (framer \o usb) \o o = framer \o (usb \o o)
    BY <1>2, <1>6, ConcatAssociative
  <1> DEFINE fu == framer \o usb
  <1>8. fu \in Seq(Word)
    BY <1>2, ConcatProperties
  <1> HIDE DEF fu
  <1>9. (fu \o o) \o t = fu \o (o \o t)
    BY <1>3, <1>6, <1>8, ConcatAssociative, SMTT(30)
  <1>10. Line = fu \o (o \o t)
    BY <1>4 DEF Line, fu, o
  <1>11. Line' = (framer \o (usb \o o)) \o t
    BY <1>1, <1>5 DEF Line, o
  <1> QED BY <1>7, <1>9, <1>10, <1>11 DEF fu

\* FramingInv is inductive, given the types.
LEMMA FramingStep ==
    ASSUME TypeInv, TypeInv', FramingInv, [Next]_vars PROVE FramingInv'
<1> USE UsbToNetAssumption
<1>0. DeviceRole' = DeviceRole
  BY BuildKept DEF TypeInv, TypeOK
<1>1. LineWords /\ LineWords'
  BY DEF TypeInv, TypeOK, LineWords
<1>2. CASE PeerStarts
  <2>1. PICK mt \in MsgTypes : sending' = Packet(mt, started + 1)
    BY <1>2 DEF PeerStarts
  <2>2. /\ sending = <<>> /\ framer' = framer /\ usb' = usb
        /\ torn' = torn /\ sent' = sent
    BY <1>2 DEF PeerStarts, bridgeVars
  <2>3. SentWhole'
    BY <1>0, <2>2 DEF FramingInv, SentWhole
  <2>4. ASSUME ~torn PROVE Framed(Line')
    <3> DEFINE fu == framer \o usb
    <3>1. fu \in Seq(Word) /\ Line = fu \o <<>>
      BY <1>1, <2>2, ConcatProperties DEF LineWords, Line
    <3> HIDE DEF fu
    <3>2. Line = fu
      BY <3>1, ConcatEmptySeq
    <3>3. Framed(fu)
      BY <2>4, <3>2 DEF FramingInv, LineFramed
    <3>4. mt \in MessageType /\ started + 1 \in Nat /\ DataNibble \in MessageType
      BY <1>1, <2>1 DEF LineWords
    <3>5. Framed(fu \o Packet(mt, started + 1))
      BY <3>1, <3>3, <3>4, FramedAppend
    <3> QED BY <2>1, <2>2, <3>5 DEF Line, fu
  <2> QED BY <2>2, <2>3, <2>4 DEF FramingInv, LineFramed
<1>3. CASE WordArrives
  <2>1. Line' = Line
    BY <1>1, <1>3, ArrivalKeepsLine
  <2> QED BY <1>3, <2>1, <1>0, LineKept DEF WordArrives, bridgeVars
<1>4. CASE Unmount
  <2>1. /\ framer' = framer /\ usb' = <<>> /\ sending' = <<>> /\ sent' = sent
        /\ torn' = (torn \/ ~EndsAtBoundary(framer))
    BY <1>4 DEF Unmount, bridgeVars
  <2>2. SentWhole'
    BY <1>0, <2>1 DEF FramingInv, SentWhole
  <2>3. ASSUME ~torn' PROVE Framed(Line')
    <3>1. ~torn /\ EndsAtBoundary(framer)
      BY <2>1, <2>3
    <3>2. framer \in Seq(Word) /\ usb \in Seq(Word) /\ sending \in Seq(Word)
      BY <1>1 DEF LineWords
    <3> DEFINE ud == usb \o sending
               s  == framer \o ud
    <3>3. ud \in Seq(Word)
      BY <3>2, ConcatProperties
    <3>4. Line = s
      BY <3>2, Associative DEF Line
    <3> HIDE DEF ud
    <3>5. /\ s \in Seq(Word) /\ Len(s) = Len(framer) + Len(ud)
          /\ \A i \in 1 .. Len(framer) + Len(ud) :
               s[i] = IF i <= Len(framer) THEN framer[i] ELSE ud[i - Len(framer)]
      BY <3>2, <3>3, ConcatProperties
    <3>6. Len(framer) \in Nat /\ Len(ud) \in Nat
      BY <3>2, <3>3, LenProperties
    <3> HIDE DEF s
    <3>7. /\ Len(framer) <= Len(s)
          /\ \A i \in 1 .. Len(framer) : framer[i] = s[i]
      BY <3>5, <3>6
    <3>8. Framed(s)
      BY <3>1, <3>4 DEF FramingInv, LineFramed
    <3>9. Framed(framer)
      BY <3>1, <3>2, <3>5, <3>7, <3>8, FramedTake
    <3>10. Line' = framer
      <4>1. Line' = framer \o <<>> \o <<>>
        BY <2>1 DEF Line
      <4>2. framer \o <<>> = framer
        BY <3>2, ConcatEmptySeq
      <4> QED BY <4>1, <4>2
    <3> QED BY <3>9, <3>10
  <2> QED BY <2>2, <2>3 DEF FramingInv, LineFramed
<1>5. CASE ReadUsb
  <2>1. Line' = Line
    BY <1>1, <1>5, ReadKeepsLine
  <2> QED BY <1>5, <2>1, <1>0, LineKept DEF ReadUsb
<1>6. ASSUME AtPacket, framer' = consume(framer, peek(framer)),
             usb' = usb, sending' = sending, torn' = torn
      PROVE  LineFramed' /\ (~torn => Whole(HeadPacket))
  <2>1. ASSUME ~torn PROVE Framed(Line') /\ Whole(HeadPacket)
    <3>1. LineFramed /\ peek(framer) # 0
      BY <1>6 DEF FramingInv, AtPacket
    <3> QED BY <1>1, <1>6, <2>1, <3>1, HeadTaken
  <2> QED BY <1>6, <2>1 DEF LineFramed
<1>7. CASE AnswerStream \/ DiscardGated
  <2>1. /\ AtPacket /\ framer' = consume(framer, peek(framer))
        /\ usb' = usb /\ sending' = sending /\ torn' = torn /\ sent' = sent
    BY <1>7 DEF AnswerStream, DiscardGated, peerVars
  <2>2. SentWhole'
    BY <1>0, <2>1 DEF FramingInv, SentWhole
  <2> QED BY <1>6, <2>1, <2>2 DEF FramingInv
<1>8. CASE SendAccepted
  <2>1. /\ AtPacket /\ ~HeadIsAnswered /\ framer' = consume(framer, peek(framer))
        /\ usb' = usb /\ sending' = sending /\ torn' = torn
        /\ sent' = Append(sent, HeadPacket)
    BY <1>8 DEF SendAccepted, peerVars
  <2>2. LineFramed' /\ (~torn => Whole(HeadPacket))
    BY <1>6, <2>1
  <2>3. HeadPacket \in Seq(Word) /\ HeadPacket[1] = framer[1]
    <3>1. /\ peek(framer) \in 1 .. Len(framer) /\ HeadPacket \in Seq(Word)
          /\ \A i \in 1 .. peek(framer) : HeadPacket[i] = framer[i]
      BY <1>1, <2>1, HeadPacketFacts DEF AtPacket, LineWords
    <3>2. 1 \in 1 .. peek(framer)
      BY <3>1
    <3> QED BY <3>1, <3>2
  <2>4. /\ Len(sent') = Len(sent) + 1
        /\ \A k \in 1 .. Len(sent) : sent'[k] = sent[k]
        /\ sent'[Len(sent) + 1] = HeadPacket
    BY <1>1, <2>1, <2>3, AppendProperties DEF LineWords
  <2>5. ASSUME ~torn, NEW k \in 1 .. Len(sent')
        PROVE  Whole(sent'[k]) /\ (DeviceRole => sent'[k][1].mt # StreamMessage)
    <3>1. CASE k = Len(sent) + 1
      BY <2>1, <2>2, <2>3, <2>4, <2>5, <3>1 DEF HeadIsAnswered
    <3>2. CASE k # Len(sent) + 1
      <4>1. k \in 1 .. Len(sent)
        BY <1>1, <2>4, <3>2, LenProperties DEF LineWords
      <4> QED BY <2>4, <2>5, <4>1 DEF FramingInv, SentWhole
    <3> QED BY <3>1, <3>2
  <2>6. SentWhole'
    BY <1>0, <2>1, <2>5 DEF SentWhole
  <2> QED BY <2>2, <2>6 DEF FramingInv
<1>9. CASE \/ Mount \/ BeginPass \/ EnterIteration \/ Refill \/ LeaveLoop
           \/ SendRefused \/ NoWholePacket \/ Tick \/ SessionMoves
           \/ HeldUp \/ Resumes \/ UNCHANGED vars
  <2>1. /\ framer' = framer /\ usb' = usb /\ sending' = sending
        /\ torn' = torn /\ sent' = sent
    BY <1>9 DEF Mount, BeginPass, EnterIteration, Refill, LeaveLoop, SendRefused,
                NoWholePacket, Tick, SessionMoves, HeldUp, Resumes, vars,
                bridgeVars, peerVars
  <2> QED BY <2>1, <1>0, LineKept DEF Line
<1> QED BY <1>2, <1>3, <1>4, <1>5, <1>7, <1>8, <1>9 DEF Next, DrainLoop, UsbSide

\* The initial line is empty.
LEMMA FramingInit == Init => FramingInv
<1> SUFFICES ASSUME Init PROVE FramingInv
  OBVIOUS
<1>1. Line = <<>> /\ sent = <<>>
  <2>1. <<>> \o <<>> = <<>>
    BY EmptySeq, ConcatEmptySeq
  <2> QED BY <2>1 DEF Init, Line
<1>2. Framed(<<>>)
  BY DEF Framed
<1> QED BY <1>1, <1>2 DEF FramingInv, LineFramed, SentWhole

\* FramingInv holds along every behaviour.
LEMMA FramingInvHolds == Spec => []FramingInv
<1>1. TypeInv /\ TypeInv' /\ FramingInv /\ [Next]_vars => FramingInv'
  BY FramingStep
<1> QED BY <1>1, FramingInit, TypeInvHolds, PTL DEF Spec

\* However the transfers and the reads cut the stream, the framer never takes a
\* word from the middle of a packet for the first one, for every FIFO size and
\* every mix of Message Types.
THEOREM UsbToNetFramed == Spec => []LineFramed
<1>1. FramingInv => LineFramed
  BY DEF FramingInv
<1> QED BY <1>1, FramingInvHolds, PTL

\* What sendUmp() accepts is one whole packet, and never a Stream message in
\* the DEVICE builds, unless a peer was unplugged mid-packet.
THEOREM UsbToNetSentWhole == Spec => []SentWhole
<1>1. FramingInv => SentWhole
  BY DEF FramingInv
<1> QED BY <1>1, FramingInvHolds, PTL

-----------------------------------------------------------------------------
(* An in-order pipe.  PacketPipe tells packets apart by their numbers, and  *)
(* the refinement needs that the words on the line carry them in order: a   *)
(* number does not fall along the line, and rises at every first word.      *)

Ordered(ws) ==
    \A i, j \in 1 .. Len(ws) : i < j =>
        /\ ws[i].pid <= ws[j].pid
        /\ ws[j].pos = 1 => ws[i].pid < ws[j].pid

OrderInv ==
    /\ Ordered(Line)
    /\ \A i \in 1 .. Len(Line) : Line[i].pid <= started

Numbers(ws) == {ws[i].pid : i \in 1 .. Len(ws)}

LEMMA LineIsWords == ASSUME LineWords PROVE Line \in Seq(Word) /\ Waiting = Numbers(Line)
<1> DEFINE fu == framer \o usb
<1>1. fu \in Seq(Word)
  BY ConcatProperties DEF LineWords
<1> HIDE DEF fu
<1>2. fu \o sending \in Seq(Word)
  BY <1>1, ConcatProperties DEF LineWords
<1>3. Line \in Seq(Word)
  BY <1>2 DEF Line, fu
<1>4. DOMAIN Line = 1 .. Len(Line)
  BY <1>3, LenProperties
<1> QED BY <1>3, <1>4 DEF Waiting, Numbers

LEMMA LineIsWordsNext == ASSUME LineWords' PROVE Waiting' = Numbers(Line')
<1>1. framer' \in Seq(Word) /\ usb' \in Seq(Word) /\ sending' \in Seq(Word)
  BY DEF LineWords
<1> DEFINE fu == framer' \o usb'
<1>2. fu \in Seq(Word)
  BY <1>1, ConcatProperties
<1> HIDE DEF fu
<1>3. fu \o sending' \in Seq(Word)
  BY <1>1, <1>2, ConcatProperties
<1>4. Line' = fu \o sending'
  BY DEF Line, fu
<1>5. DOMAIN Line' = 1 .. Len(Line')
  BY <1>3, <1>4, LenProperties
<1> QED BY <1>5 DEF Waiting, Numbers

\* Part of an ordered line is ordered.
LEMMA OrderedPart ==
    ASSUME NEW s \in Seq(Word), NEW t \in Seq(Word), NEW n \in Nat, n + Len(t) <= Len(s),
           \A i \in 1 .. Len(t) : t[i] = s[i + n],
           Ordered(s)
    PROVE  Ordered(t)
<1>1. Len(s) \in Nat /\ Len(t) \in Nat
  BY LenProperties
<1> SUFFICES ASSUME NEW i \in 1 .. Len(t), NEW j \in 1 .. Len(t), i < j
             PROVE  /\ t[i].pid <= t[j].pid
                    /\ t[j].pos = 1 => t[i].pid < t[j].pid
  BY DEF Ordered
<1>2. i + n \in 1 .. Len(s) /\ j + n \in 1 .. Len(s) /\ i + n < j + n
  BY <1>1
<1>3. t[i] = s[i + n] /\ t[j] = s[j + n]
  OBVIOUS
<1> QED BY <1>2, <1>3 DEF Ordered

\* Two halves of a line, by position.
LEMMA Halves ==
    ASSUME NEW a \in Seq(Word), NEW b \in Seq(Word)
    PROVE  /\ a \o b \in Seq(Word) /\ Len(a \o b) = Len(a) + Len(b)
           /\ Len(a) \in Nat /\ Len(b) \in Nat
           /\ \A i \in 1 .. Len(a) : i \in 1 .. Len(a \o b) /\ (a \o b)[i] = a[i]
           /\ \A i \in 1 .. Len(b) : i + Len(a) \in 1 .. Len(a \o b)
                                     /\ (a \o b)[i + Len(a)] = b[i]
<1>1. /\ a \o b \in Seq(Word) /\ Len(a \o b) = Len(a) + Len(b)
      /\ \A i \in 1 .. Len(a) + Len(b) :
            (a \o b)[i] = IF i <= Len(a) THEN a[i] ELSE b[i - Len(a)]
  BY ConcatProperties
<1>2. Len(a) \in Nat /\ Len(b) \in Nat
  BY LenProperties
<1>3. ASSUME NEW i \in 1 .. Len(a) PROVE i \in 1 .. Len(a \o b) /\ (a \o b)[i] = a[i]
  BY <1>1, <1>2
<1>4. ASSUME NEW i \in 1 .. Len(b)
      PROVE  i + Len(a) \in 1 .. Len(a \o b) /\ (a \o b)[i + Len(a)] = b[i]
  <2> DEFINE j == i + Len(a)
  <2>1. j \in 1 .. Len(a) + Len(b) /\ ~(j <= Len(a)) /\ j - Len(a) = i
    BY <1>2
  <2> HIDE DEF j
  <2>2. j \in 1 .. Len(a \o b) /\ (a \o b)[j] = b[i]
    BY <1>1, <2>1
  <2> QED BY <2>2 DEF j
<1> QED BY <1>1, <1>2, <1>3, <1>4

\* A position is in one half or in the other.
LEMMA InAHalf ==
    ASSUME NEW a \in Seq(Word), NEW b \in Seq(Word), NEW i \in 1 .. Len(a \o b)
    PROVE  \/ i \in 1 .. Len(a)
           \/ \E j \in 1 .. Len(b) : i = j + Len(a)
<1>1. /\ Len(a \o b) = Len(a) + Len(b)
      /\ Len(a) \in Nat /\ Len(b) \in Nat
  BY Halves
<1>2. CASE i <= Len(a)
  BY <1>1, <1>2
<1>3. CASE ~(i <= Len(a))
  <2>1. i - Len(a) \in 1 .. Len(b) /\ i = (i - Len(a)) + Len(a)
    BY <1>1, <1>3
  <2> QED BY <2>1
<1> QED BY <1>2, <1>3

LEMMA NumbersOfHalves ==
    ASSUME NEW a \in Seq(Word), NEW b \in Seq(Word)
    PROVE  Numbers(a \o b) = Numbers(a) \union Numbers(b)
<1>1. ASSUME NEW i \in 1 .. Len(a \o b)
      PROVE  (a \o b)[i].pid \in Numbers(a) \union Numbers(b)
  <2>1. CASE i \in 1 .. Len(a)
    BY <2>1, Halves DEF Numbers
  <2>2. CASE \E j \in 1 .. Len(b) : i = j + Len(a)
    BY <2>2, Halves DEF Numbers
  <2> QED BY <2>1, <2>2, InAHalf
<1>2. ASSUME NEW i \in 1 .. Len(a) PROVE a[i].pid \in Numbers(a \o b)
  <2>1. i \in 1 .. Len(a \o b) /\ (a \o b)[i].pid = a[i].pid
    BY Halves
  <2> QED BY <2>1, Zenon DEF Numbers
<1>3. ASSUME NEW i \in 1 .. Len(b) PROVE b[i].pid \in Numbers(a \o b)
  <2>1. i + Len(a) \in 1 .. Len(a \o b) /\ (a \o b)[i + Len(a)].pid = b[i].pid
    BY Halves
  <2> QED BY <2>1, Zenon DEF Numbers
<1> QED BY <1>1, <1>2, <1>3 DEF Numbers

\* When the second half starts with a first word, its numbers are all greater.
LEMMA HalvesOrdered ==
    ASSUME NEW a \in Seq(Word), NEW b \in Seq(Word), Ordered(a \o b),
           b # <<>> => b[1].pos = 1
    PROVE  /\ Ordered(a) /\ Ordered(b)
           /\ \A p \in Numbers(a), q \in Numbers(b) : p \in Nat /\ q \in Nat /\ p < q
<1> DEFINE s == a \o b
<1>1. /\ s \in Seq(Word) /\ Len(s) = Len(a) + Len(b)
      /\ Len(a) \in Nat /\ Len(b) \in Nat
      /\ \A i \in 1 .. Len(a) : i \in 1 .. Len(s) /\ s[i] = a[i]
      /\ \A i \in 1 .. Len(b) : i + Len(a) \in 1 .. Len(s) /\ s[i + Len(a)] = b[i]
  BY Halves
<1>2. Ordered(s)
  OBVIOUS
<1> HIDE DEF s
<1>3. Ordered(a)
  <2>1. 0 + Len(a) <= Len(s) /\ \A i \in 1 .. Len(a) : a[i] = s[i + 0]
    BY <1>1
  <2> QED BY <1>1, <1>2, <2>1, OrderedPart
<1>4. Ordered(b)
  <2>1. Len(a) + Len(b) <= Len(s) /\ \A i \in 1 .. Len(b) : b[i] = s[i + Len(a)]
    BY <1>1
  <2> QED BY <1>1, <1>2, <2>1, OrderedPart
<1>5. ASSUME NEW i \in 1 .. Len(a), NEW j \in 1 .. Len(b)
      PROVE  a[i].pid \in Nat /\ b[j].pid \in Nat /\ a[i].pid < b[j].pid
  <2>1. a[i] \in Word /\ b[j] \in Word /\ b[1] \in Word /\ b # <<>>
    BY <1>1, ElementOfSeq, EmptySeq
  <2>2. a[i].pid \in Nat /\ b[j].pid \in Nat /\ b[1].pid \in Nat /\ b[1].pos = 1
    BY <2>1 DEF Word
  <2>3. a[i].pid < b[1].pid
    <3>1. 1 \in 1 .. Len(b)
      BY <1>1
    <3>2. /\ i \in 1 .. Len(s) /\ s[i] = a[i]
          /\ 1 + Len(a) \in 1 .. Len(s) /\ s[1 + Len(a)] = b[1]
          /\ i < 1 + Len(a)
      BY <1>1, <3>1
    <3> QED BY <1>2, <2>2, <3>2 DEF Ordered
  <2>4. b[1].pid <= b[j].pid
    <3>1. CASE j = 1
      BY <2>2, <3>1
    <3>2. CASE j # 1
      <4>1. 1 \in 1 .. Len(b) /\ 1 < j
        BY <1>1, <3>2
      <4> QED BY <1>4, <4>1 DEF Ordered
    <3> QED BY <3>1, <3>2
  <2> QED BY <2>2, <2>3, <2>4
<1> QED BY <1>3, <1>4, <1>5 DEF Numbers

\* A new packet carries the next number.
LEMMA NewPacketOrdered ==
    ASSUME NEW s \in Seq(Word), NEW n \in Nat, Ordered(s),
           \A i \in 1 .. Len(s) : s[i].pid <= n,
           NEW mt \in MessageType, DataNibble \in MessageType
    PROVE  /\ Ordered(s \o Packet(mt, n + 1))
           /\ \A i \in 1 .. Len(s \o Packet(mt, n + 1)) : (s \o Packet(mt, n + 1))[i].pid <= n + 1
           /\ Numbers(Packet(mt, n + 1)) = {n + 1}
<1> DEFINE p == Packet(mt, n + 1)
<1>1. /\ p \in Seq(Word) /\ Len(p) \in 1 .. 4 /\ 1 \in 1 .. Len(p)
      /\ \A i \in 1 .. Len(p) : p[i].pos = i /\ p[i].pid = n + 1
  <2>1. n + 1 \in Nat /\ umpWordCount(mt) \in 1 .. 4 /\ 1 \in 1 .. umpWordCount(mt)
    BY WordCountRange
  <2>2. /\ p \in Seq(Word) /\ Len(p) = umpWordCount(mt)
        /\ \A i \in 1 .. umpWordCount(mt) : p[i].pos = i /\ p[i].pid = n + 1
    BY <2>1, PacketIsWhole
  <2> QED BY <2>1, <2>2
<1> HIDE DEF p
<1> DEFINE t == s \o p
<1>2. /\ t \in Seq(Word) /\ Len(t) = Len(s) + Len(p)
      /\ Len(s) \in Nat
      /\ \A i \in 1 .. Len(s) : t[i] = s[i]
      /\ \A i \in 1 .. Len(p) : t[i + Len(s)] = p[i]
  BY <1>1, Halves
<1>3. \A i \in 1 .. Len(t) : i \in 1 .. Len(s) \/ \E j \in 1 .. Len(p) : i = j + Len(s)
  BY <1>1, InAHalf
<1>4. \A i \in 1 .. Len(s) : s[i].pid \in Nat
  <2>1. \A i \in 1 .. Len(s) : s[i] \in Word
    BY ElementOfSeq
  <2> QED BY <2>1 DEF Word
<1> HIDE DEF t
<1>5. \A i \in 1 .. Len(t) : t[i].pid <= n + 1
  <2> TAKE i \in 1 .. Len(t)
  <2>1. CASE i \in 1 .. Len(s)
    BY <1>2, <1>4, <2>1
  <2>2. CASE \E j \in 1 .. Len(p) : i = j + Len(s)
    <3>1. PICK j \in 1 .. Len(p) : i = j + Len(s)
      BY <2>2
    <3>2. t[i] = p[j]
      BY <1>2, <3>1
    <3>3. p[j].pid = n + 1
      BY <1>1
    <3> QED BY <3>2, <3>3
  <2> QED BY <1>3, <2>1, <2>2
<1>6. Ordered(t)
  <2> SUFFICES ASSUME NEW i \in 1 .. Len(t), NEW j \in 1 .. Len(t), i < j
               PROVE  /\ t[i].pid <= t[j].pid
                      /\ t[j].pos = 1 => t[i].pid < t[j].pid
    BY DEF Ordered
  <2>1. CASE j \in 1 .. Len(s)
    <3>1. i \in 1 .. Len(s)
      BY <1>2, <2>1
    <3> QED BY <1>2, <2>1, <3>1 DEF Ordered
  <2>2. CASE \E k \in 1 .. Len(p) : j = k + Len(s)
    <3>1. PICK k \in 1 .. Len(p) : j = k + Len(s)
      BY <2>2
    <3>2. t[j].pid = n + 1 /\ t[j].pos = k
      <4>1. t[j] = p[k]
        BY <1>2, <3>1
      <4>2. p[k].pid = n + 1 /\ p[k].pos = k
        BY <1>1
      <4> QED BY <4>1, <4>2
    <3>3. CASE i \in 1 .. Len(s)
      <4>1. t[i].pid \in Nat /\ t[i].pid <= n
        BY <1>2, <1>4, <3>3
      <4> QED BY <3>2, <4>1
    <3>4. CASE \E m \in 1 .. Len(p) : i = m + Len(s)
      <4>1. PICK m \in 1 .. Len(p) : i = m + Len(s)
        BY <3>4
      <4>2. t[i].pid = n + 1
        <5>1. t[i] = p[m]
          BY <1>2, <4>1
        <5>2. p[m].pid = n + 1
          BY <1>1
        <5> QED BY <5>1, <5>2
      <4>3. k # 1
        BY <1>1, <1>2, <3>1, <4>1
      <4> QED BY <3>2, <4>2, <4>3
    <3> QED BY <1>3, <3>3, <3>4
  <2> QED BY <1>3, <2>1, <2>2
<1>7. Numbers(p) = {n + 1}
  <2>1. \A i \in 1 .. Len(p) : p[i].pid = n + 1
    BY <1>1
  <2> QED BY <1>1, <2>1, Zenon DEF Numbers
<1> QED BY <1>5, <1>6, <1>7 DEF t, p

\* The head packet and the line that is left when it is taken off.
LEMMA HeadSplitsLine ==
    ASSUME LineWords, peek(framer) # 0,
           framer' = consume(framer, peek(framer)), usb' = usb, sending' = sending
    PROVE  /\ HeadPacket \in Seq(Word) /\ Line' \in Seq(Word)
           /\ Line = HeadPacket \o Line'
           /\ HeadPacket[1] = framer[1]
<1> DEFINE n == peek(framer)
           h == HeadPacket
           r == consume(framer, n)
<1>1. /\ n \in 1 .. Len(framer) /\ r \in Seq(Word) /\ h \in Seq(Word)
      /\ \A i \in 1 .. n : h[i] = framer[i]
  BY HeadPacketFacts DEF LineWords
<1>2. framer \in Seq(Word) /\ usb \in Seq(Word) /\ sending \in Seq(Word)
  BY DEF LineWords
<1>3. framer = h \o r
  BY <1>1, <1>2, HeadAndRest DEF HeadPacket
<1>4. h[1] = framer[1]
  <2>1. 1 \in 1 .. n
    BY <1>1, <1>2, LenProperties
  <2> QED BY <1>1, <2>1
<1> HIDE DEF r, h
<1>5. (h \o r) \o usb \o sending = h \o (r \o usb \o sending) /\ r \o usb \o sending \in Seq(Word)
  BY <1>1, <1>2, LineSplits
<1>6. Line' = r \o usb \o sending
  BY DEF Line, r
<1> QED BY <1>1, <1>3, <1>4, <1>5, <1>6 DEF Line, h

\* The head packet has the least number on the line, and takes only that with it.
LEMMA HeadLeavesFirst ==
    ASSUME LineWords, LineFramed, ~torn, OrderInv, peek(framer) # 0,
           framer' = consume(framer, peek(framer)), usb' = usb, sending' = sending
    PROVE  /\ Pipe!IsNext(framer[1].pid)
           /\ {Line'[i].pid : i \in 1 .. Len(Line')} = Waiting \ {framer[1].pid}
<1> DEFINE h == HeadPacket
           t == Line'
           p == framer[1].pid
<1>1. h \in Seq(Word) /\ t \in Seq(Word) /\ Line = h \o t /\ h[1] = framer[1]
  BY HeadSplitsLine
<1>2. Framed(t) /\ Whole(h)
  BY HeadTaken
<1>3. Ordered(h \o t)
  BY <1>1 DEF OrderInv
<1> HIDE DEF h, t
<1>4. t # <<>> => t[1].pos = 1
  BY <1>2 DEF Framed
<1>5. \A x \in Numbers(h), y \in Numbers(t) : x \in Nat /\ y \in Nat /\ x < y
  BY <1>1, <1>3, <1>4, HalvesOrdered
<1>6. Numbers(h) = {p}
  <2>1. 1 \in 1 .. Len(h)
    BY <1>2 DEF Whole
  <2>2. \A i \in 1 .. Len(h) : h[i].pid = h[1].pid
    BY <1>2 DEF Whole
  <2> QED BY <1>1, <2>1, <2>2, Zenon DEF Numbers
<1> HIDE DEF p
<1>7. Waiting = {p} \union Numbers(t)
  BY <1>1, <1>6, LineIsWords, NumbersOfHalves
<1>8. Numbers(t) = Waiting \ {p}
  <2>1. \A y \in Numbers(t) : p \in Nat /\ y \in Nat /\ p < y
    BY <1>5, <1>6
  <2>2. p \notin Numbers(t)
    BY <2>1
  <2> QED BY <1>7, <2>2
<1>9. p \in Waiting /\ \A q \in Waiting : p <= q
  <2>1. p \in Nat
    <3>1. h[1] \in Word
      <4>1. 1 \in 1 .. Len(h)
        BY <1>2 DEF Whole
      <4> QED BY <1>1, <4>1, ElementOfSeq
    <3> QED BY <1>1, <3>1 DEF Word, p
  <2> QED BY <1>5, <1>6, <1>7, <2>1
<1>10. Pipe!IsNext(p)
  BY <1>9 DEF Pipe!IsNext
<1>11. Numbers(t) = {Line'[i].pid : i \in 1 .. Len(Line')}
  BY DEF Numbers, t
<1> QED BY <1>8, <1>10, <1>11 DEF p

\* What the peer starts to send is put at the end of the line.
LEMMA NewPacketOnLine ==
    ASSUME LineWords, sending = <<>>, framer' = framer, usb' = usb
    PROVE  Line' = Line \o sending'
<1> DEFINE fu == framer \o usb
<1>1. fu \in Seq(Word) /\ Line = fu \o <<>>
  BY ConcatProperties DEF LineWords, Line
<1> HIDE DEF fu
<1>2. Line = fu
  BY <1>1, ConcatEmptySeq
<1> QED BY <1>2 DEF Line, fu

\* Of a peer that goes away the framer's words stay.
LEMMA UnmountCutsLine ==
    ASSUME LineWords, Unmount
    PROVE  /\ Line' = framer /\ framer' = framer
           /\ Line = Line' \o (usb \o sending)
<1>1. framer \in Seq(Word) /\ usb \in Seq(Word) /\ sending \in Seq(Word)
  BY DEF LineWords
<1>2. framer' = framer /\ usb' = <<>> /\ sending' = <<>>
  BY DEF Unmount, bridgeVars
<1>3. Line' = framer
  <2>1. framer \o <<>> = framer
    BY <1>1, ConcatEmptySeq
  <2> QED BY <1>2, <2>1 DEF Line
<1>4. Line = framer \o (usb \o sending)
  BY <1>1, Associative DEF Line
<1> QED BY <1>2, <1>3, <1>4

\* What is left of the line when some words are cut off at either end.
LEMMA OrderKept ==
    ASSUME OrderInv, started' = started, Line \in Seq(Word), Line' \in Seq(Word),
           NEW n \in Nat, n + Len(Line') <= Len(Line),
           \A i \in 1 .. Len(Line') : Line'[i] = Line[i + n]
    PROVE  OrderInv'
<1> DEFINE s == Line
           t == Line'
<1>1. /\ s \in Seq(Word) /\ t \in Seq(Word) /\ n + Len(t) <= Len(s) /\ Ordered(s)
      /\ \A i \in 1 .. Len(t) : t[i] = s[i + n]
      /\ \A i \in 1 .. Len(s) : s[i].pid <= started
  BY DEF OrderInv
<1> HIDE DEF s, t
<1>2. Ordered(t)
  BY <1>1, OrderedPart
<1>3. \A i \in 1 .. Len(t) : t[i].pid <= started
  <2> TAKE i \in 1 .. Len(t)
  <2>1. i + n \in 1 .. Len(s)
    BY <1>1, LenProperties
  <2> QED BY <1>1, <2>1
<1> QED BY <1>2, <1>3 DEF OrderInv, t

LEMMA OrderStep ==
    ASSUME TypeInv, TypeInv', OrderInv, [Next]_vars PROVE OrderInv'
<1> USE UsbToNetAssumption
<1>1. LineWords /\ LineWords'
  BY DEF TypeInv, TypeOK, LineWords
<1>2. Line \in Seq(Word) /\ Line' \in Seq(Word)
  <2>1. Line \in Seq(Word)
    BY <1>1, LineIsWords
  <2>2. framer' \in Seq(Word) /\ usb' \in Seq(Word) /\ sending' \in Seq(Word)
    BY <1>1 DEF LineWords
  <2>3. framer' \o usb' \in Seq(Word)
    BY <2>2, ConcatProperties
  <2> DEFINE fu == framer' \o usb'
  <2> HIDE DEF fu
  <2>4. fu \o sending' \in Seq(Word)
    BY <2>2, <2>3, ConcatProperties DEF fu
  <2> QED BY <2>1, <2>4 DEF Line, fu
<1>3. ASSUME Line' = Line, started' = started PROVE OrderInv'
  BY <1>3 DEF OrderInv
<1>4. CASE PeerStarts
  <2>1. PICK mt \in MsgTypes : sending' = Packet(mt, started + 1)
    BY <1>4 DEF PeerStarts
  <2>2. /\ sending = <<>> /\ framer' = framer /\ usb' = usb /\ started' = started + 1
    BY <1>4 DEF PeerStarts, bridgeVars
  <2>3. Line' = Line \o Packet(mt, started + 1)
    BY <1>1, <2>1, <2>2, NewPacketOnLine
  <2>4. mt \in MessageType /\ DataNibble \in MessageType /\ started \in Nat
    BY <1>1, <2>1 DEF LineWords
  <2>5. Ordered(Line) /\ \A i \in 1 .. Len(Line) : Line[i].pid <= started
    BY DEF OrderInv
  <2> DEFINE s == Line
             t == Line'
  <2>6. /\ s \in Seq(Word) /\ Ordered(s) /\ \A i \in 1 .. Len(s) : s[i].pid <= started
        /\ t = s \o Packet(mt, started + 1)
    BY <1>2, <2>3, <2>5
  <2> HIDE DEF s, t
  <2>7. Ordered(t) /\ \A i \in 1 .. Len(t) : t[i].pid <= started + 1
    BY <2>4, <2>6, NewPacketOrdered
  <2> QED BY <2>2, <2>7 DEF OrderInv, t
<1>5. CASE WordArrives
  BY <1>1, <1>3, <1>5, ArrivalKeepsLine DEF WordArrives
<1>6. CASE ReadUsb
  BY <1>1, <1>3, <1>6, ReadKeepsLine DEF ReadUsb
<1>7. CASE Unmount
  <2>1. started' = started /\ Line = Line' \o (usb \o sending)
    BY <1>1, <1>7, UnmountCutsLine DEF Unmount
  <2>2. usb \o sending \in Seq(Word)
    BY <1>1, ConcatProperties DEF LineWords
  <2> DEFINE s == Line
             t == Line'
             u == usb \o sending
  <2>3. s \in Seq(Word) /\ t \in Seq(Word) /\ u \in Seq(Word) /\ s = t \o u
    BY <1>2, <2>1, <2>2
  <2> HIDE DEF s, t, u
  <2>4. 0 + Len(t) <= Len(s) /\ \A i \in 1 .. Len(t) : t[i] = s[i + 0]
    BY <2>3, Halves
  <2> QED BY <1>2, <2>1, <2>4, OrderKept DEF s, t
<1>8. CASE AnswerStream \/ SendAccepted \/ DiscardGated
  <2>1. /\ peek(framer) # 0 /\ framer' = consume(framer, peek(framer))
        /\ usb' = usb /\ sending' = sending /\ started' = started
    BY <1>8 DEF AnswerStream, SendAccepted, DiscardGated, AtPacket, peerVars
  <2> DEFINE s == Line
             t == Line'
             h == HeadPacket
  <2>2. h \in Seq(Word) /\ t \in Seq(Word) /\ s = h \o t
    BY <1>1, <2>1, HeadSplitsLine
  <2> HIDE DEF s, t, h
  <2>3. /\ Len(h) \in Nat /\ Len(h) + Len(t) <= Len(s)
        /\ \A i \in 1 .. Len(t) : t[i] = s[i + Len(h)]
    BY <2>2, Halves
  <2> QED BY <1>2, <2>1, <2>3, OrderKept DEF s, t
<1>9. CASE \/ Mount \/ BeginPass \/ EnterIteration \/ Refill \/ LeaveLoop
           \/ SendRefused \/ NoWholePacket \/ Tick \/ SessionMoves
           \/ HeldUp \/ Resumes \/ UNCHANGED vars
  <2>1. framer' = framer /\ usb' = usb /\ sending' = sending /\ started' = started
    BY <1>9 DEF Mount, BeginPass, EnterIteration, Refill, LeaveLoop, SendRefused,
                NoWholePacket, Tick, SessionMoves, HeldUp, Resumes, vars,
                bridgeVars, peerVars
  <2> QED BY <1>3, <2>1 DEF Line
<1> QED BY <1>4, <1>5, <1>6, <1>7, <1>8, <1>9 DEF Next, DrainLoop, UsbSide

LEMMA OrderInit == Init => OrderInv
<1> SUFFICES ASSUME Init PROVE OrderInv
  OBVIOUS
<1>1. Line = <<>>
  <2>1. <<>> \o <<>> = <<>>
    BY EmptySeq, ConcatEmptySeq
  <2> QED BY <2>1 DEF Init, Line
<1>2. Len(<<>>) = 0
  OBVIOUS
<1> QED BY <1>1, <1>2 DEF OrderInv, Ordered

LEMMA OrderInvHolds == Spec => []OrderInv
<1>1. TypeInv /\ TypeInv' /\ OrderInv /\ [Next]_vars => OrderInv'
  BY OrderStep
<1> QED BY <1>1, OrderInit, TypeInvHolds, PTL DEF Spec

\* The initial states are the pipe's.
LEMMA PipeInit == Init => Pipe!Init
<1> SUFFICES ASSUME Init PROVE Pipe!Init
  OBVIOUS
<1>1. Line = <<>>
  <2>1. <<>> \o <<>> = <<>>
    BY EmptySeq, ConcatEmptySeq
  <2> QED BY <2>1 DEF Init, Line
<1>2. Waiting = {}
  BY <1>1 DEF Waiting
<1>3. Accepted = <<>>
  BY DEF Init, Accepted
<1>4. started = 0 /\ answered = {}
  BY DEF Init
<1>5. (session = "Established") \in BOOLEAN
  OBVIOUS
<1> QED BY <1>2, <1>3, <1>4, <1>5 DEF Pipe!Init

\* A step that leaves the line, the ghosts and the session alone is a stutter.
LEMMA PipeStutters ==
    ASSUME Line' = Line, UNCHANGED <<started, sent, answered, session>>
    PROVE  UNCHANGED Pipe!vars
<1>1. Waiting' = Waiting
  BY Zenon DEF Waiting
<1>2. Accepted' = Accepted
  BY Zenon DEF Accepted
<1>3. (session = "Established")' = (session = "Established")
  OBVIOUS
<1> QED BY <1>1, <1>2, <1>3, Zenon DEF Pipe!vars

\* A packet the peer starts is one that is offered.
LEMMA PipeOffers ==
    ASSUME TypeInv, OrderInv, PeerStarts, LineWords' PROVE Pipe!Offer
<1> USE UsbToNetAssumption
<1>1. LineWords
  BY DEF TypeInv, TypeOK, LineWords
<1>2. PICK mt \in MsgTypes : sending' = Packet(mt, started + 1)
  BY DEF PeerStarts
<1>3. /\ Line' = Line \o Packet(mt, started + 1)
      /\ started' = started + 1 /\ UNCHANGED <<sent, answered, session>>
  BY <1>1, <1>2, NewPacketOnLine DEF PeerStarts, bridgeVars
<1>4. mt \in MessageType /\ DataNibble \in MessageType /\ started \in Nat /\ started + 1 \in Nat
  BY <1>1, <1>2 DEF LineWords
<1>5. Line \in Seq(Word) /\ Packet(mt, started + 1) \in Seq(Word)
  BY <1>1, <1>4, LineIsWords, PacketIsWhole
<1>6. Numbers(Packet(mt, started + 1)) = {started + 1}
  <2>1. Ordered(Line) /\ \A i \in 1 .. Len(Line) : Line[i].pid <= started
    BY DEF OrderInv
  <2> QED BY <1>4, <1>5, <2>1, NewPacketOrdered
<1>7. Waiting' = Waiting \union {started + 1}
  <2>1. Numbers(Line \o Packet(mt, started + 1)) = Numbers(Line) \union {started + 1}
    BY <1>5, <1>6, NumbersOfHalves
  <2>2. Numbers(Line') = Numbers(Line) \union {started + 1}
    BY <1>3, <2>1, Zenon
  <2>3. Waiting' = Numbers(Line')
    BY LineIsWordsNext
  <2> QED BY <1>1, <2>2, <2>3, LineIsWords
<1>8. Accepted' = Accepted
  BY <1>3, Zenon DEF Accepted
<1> QED BY <1>3, <1>7, <1>8 DEF Pipe!Offer

\* A first word follows what ends at a boundary, so that the framer's numbers are
\* those below the ones that go.
LEMMA PipeLosesPeer ==
    ASSUME TypeInv, FramingInv, OrderInv, Unmount, LineWords', ~torn'
    PROVE  \E k \in 0 .. started + 1 : Pipe!PeerLost(k)
<1> DEFINE f == framer
           u == usb \o sending
<1>1. LineWords
  BY DEF TypeInv, TypeOK, LineWords
<1>2. f \in Seq(Word) /\ u \in Seq(Word)
  BY <1>1, ConcatProperties DEF LineWords
<1>3. Line' = f /\ Line = f \o u /\ framer' = framer
  BY <1>1, UnmountCutsLine
<1>4. ~torn /\ EndsAtBoundary(f) /\ UNCHANGED <<sent, answered, session, started>>
  BY DEF Unmount, bridgeVars
<1>5. Framed(Line) /\ Ordered(Line) /\ \A i \in 1 .. Len(Line) : Line[i].pid <= started
  BY <1>4 DEF FramingInv, LineFramed, OrderInv
<1>6. started \in Nat
  BY <1>1 DEF LineWords
<1> HIDE DEF f, u
<1>7. u # <<>> => u[1].pos = 1
  <2> SUFFICES ASSUME u # <<>> PROVE u[1].pos = 1
    OBVIOUS
  <2>1. Framed(f \o u)
    BY <1>3, <1>5
  <2>2. /\ Len(u) \in Nat /\ Len(f) \in Nat /\ Len(u) # 0
        /\ Len(f \o u) = Len(f) + Len(u)
        /\ \A i \in 1 .. Len(f) : (f \o u)[i] = f[i]
        /\ \A i \in 1 .. Len(u) : (f \o u)[i + Len(f)] = u[i]
    BY <1>2, Halves, EmptySeq
  <2>3. 1 \in 1 .. Len(u)
    BY <2>2
  <2>4. (f \o u)[1 + Len(f)] = u[1]
    BY <2>2, <2>3
  <2>5. CASE f = <<>>
    <3>1. Len(f) = 0
      BY <2>5
    <3>2. (f \o u)[1] = u[1]
      BY <2>4, <3>1
    <3>3. f \o u # <<>>
      BY <2>2, EmptySeq
    <3> QED BY <2>1, <3>2, <3>3 DEF Framed
  <2>6. CASE f # <<>>
    <3> DEFINE n == Len(f)
    <3>1. n \in 1 .. Len(f) /\ n # 0
      BY <1>2, <2>2, <2>6, EmptySeq
    <3>2. n \in 1 .. Len(f \o u) - 1 /\ n + 1 = 1 + Len(f)
      BY <2>2, <3>1
    <3>3. Follows((f \o u)[n], (f \o u)[n + 1])
      BY <2>1, <3>2 DEF Framed
    <3>4. (f \o u)[n] = f[n] /\ f[n].pos = f[n].len /\ f[n].pos \in 1 .. 4
      <4>1. f[n] \in Word
        BY <1>2, <3>1, ElementOfSeq
      <4> QED BY <1>4, <2>2, <2>6, <3>1, <4>1 DEF EndsAtBoundary, Word
    <3>5. (f \o u)[n + 1] = u[1]
      BY <2>4, <3>2
    <3> HIDE DEF n
    <3>6. ~(f[n].pos < f[n].len)
      BY <3>4
    <3> QED BY <3>3, <3>4, <3>5, <3>6 DEF Follows
  <2> QED BY <2>5, <2>6
<1>8. \A x \in Numbers(f), y \in Numbers(u) : x \in Nat /\ y \in Nat /\ x < y
  BY <1>2, <1>3, <1>5, <1>7, HalvesOrdered
<1>9. Waiting = Numbers(f) \union Numbers(u) /\ Waiting' = Numbers(f)
  <2>1. Waiting = Numbers(f) \union Numbers(u)
    BY <1>1, <1>2, <1>3, LineIsWords, NumbersOfHalves
  <2>2. Waiting' = Numbers(f)
    BY <1>3, LineIsWordsNext
  <2> QED BY <2>1, <2>2
<1>10. \E k \in 0 .. started + 1 : Waiting' = {p \in Waiting : p < k}
  <2>1. \A y \in Numbers(f) \union Numbers(u) : y \in Nat /\ y <= started
    <3>1. \A i \in 1 .. Len(Line) : Line[i] \in Word
      BY <1>1, LineIsWords, ElementOfSeq
    <3>2. \A i \in 1 .. Len(Line) : Line[i].pid \in Nat
      BY <3>1 DEF Word
    <3>3. \A y \in Numbers(Line) : y \in Nat /\ y <= started
      BY <1>5, <3>2 DEF Numbers
    <3> QED BY <1>1, <1>9, <3>3, LineIsWords
  <2>2. CASE f = <<>>
    <3>1. Numbers(f) = {}
      <4>1. Len(f) = 0
        BY <2>2
      <4> QED BY <4>1 DEF Numbers
    <3>2. Waiting' = {p \in Waiting : p < 0}
      <4>1. \A p \in Waiting : ~(p < 0)
        BY <1>9, <2>1
      <4> QED BY <1>9, <3>1, <4>1
    <3>3. 0 \in 0 .. started + 1
      BY <1>6
    <3> QED BY <3>2, <3>3
  <2>3. CASE f # <<>>
    <3> DEFINE m == f[Len(f)].pid
    <3>1. m \in Numbers(f) /\ \A x \in Numbers(f) : x <= m
      <4>1. Len(f) \in Nat /\ Len(f) # 0
        BY <1>2, <2>3, EmptySeq
      <4>2. Len(f) \in 1 .. Len(f)
        BY <4>1
      <4>3. m \in Numbers(f) /\ m \in Nat
        <5>1. m \in Numbers(f)
          BY <4>2, Zenon DEF Numbers
        <5> QED BY <2>1, <5>1
      <4>4. ASSUME NEW i \in 1 .. Len(f) PROVE f[i].pid <= m
        <5>1. CASE i = Len(f)
          BY <4>3, <5>1
        <5>2. CASE i # Len(f)
          <6>1. i < Len(f)
            BY <4>1, <5>2
          <6>2. Ordered(f)
            BY <1>2, <1>3, <1>5, <1>7, HalvesOrdered
          <6> QED BY <4>2, <6>1, <6>2 DEF Ordered
        <5> QED BY <5>1, <5>2
      <4> HIDE DEF m
      <4> QED BY <4>3, <4>4 DEF Numbers
    <3> HIDE DEF m
    <3>2. m \in Nat /\ m <= started
      BY <2>1, <3>1
    <3>3. \A x \in Numbers(f) : x < m + 1
      BY <2>1, <3>1, <3>2
    <3>4. \A y \in Numbers(u) : ~(y < m + 1)
      BY <1>8, <3>1
    <3>5. Waiting' = {p \in Waiting : p < m + 1}
      BY <1>9, <3>3, <3>4
    <3>6. m + 1 \in 0 .. started + 1
      BY <1>6, <3>2
    <3> QED BY <3>5, <3>6
  <2> QED BY <2>2, <2>3
<1>11. Accepted' = Accepted
  BY <1>4, Zenon DEF Accepted
<1> QED BY <1>4, <1>10, <1>11 DEF Pipe!PeerLost

\* What takes the head packet off the framer takes the oldest of the pipe.
LEMMA PipeTakes ==
    ASSUME TypeInv, FramingInv, OrderInv, LineWords', ~torn, AtPacket,
           framer' = consume(framer, peek(framer)), UNCHANGED peerVars
    PROVE  /\ Pipe!IsNext(framer[1].pid) /\ framer[1].pid \in Waiting
           /\ Waiting' = Waiting \ {framer[1].pid}
           /\ started' = started
<1>1. LineWords
  BY DEF TypeInv, TypeOK, LineWords
<1>2. peek(framer) # 0 /\ usb' = usb /\ sending' = sending /\ started' = started
  BY DEF AtPacket, peerVars
<1>3. LineFramed
  BY DEF FramingInv
<1>4. /\ Pipe!IsNext(framer[1].pid)
      /\ {Line'[i].pid : i \in 1 .. Len(Line')} = Waiting \ {framer[1].pid}
  BY <1>1, <1>2, <1>3, HeadLeavesFirst
<1>5. framer[1].pid \in Waiting
  BY <1>4 DEF Pipe!IsNext
<1>6. Waiting' = Waiting \ {framer[1].pid}
  BY <1>4, LineIsWordsNext, Zenon DEF Numbers
<1> QED BY <1>2, <1>4, <1>5, <1>6

\* A packet more that was sent is one more that was accepted.
LEMMA AcceptedGrows ==
    ASSUME LineWords, peek(framer) # 0, sent' = Append(sent, HeadPacket)
    PROVE  Accepted' = Append(Accepted, framer[1].pid)
<1>1. HeadPacket \in Seq(Word) /\ HeadPacket[1] = framer[1]
  <2>1. /\ peek(framer) \in 1 .. Len(framer) /\ HeadPacket \in Seq(Word)
        /\ \A i \in 1 .. peek(framer) : HeadPacket[i] = framer[i]
    BY HeadPacketFacts DEF LineWords
  <2>2. 1 \in 1 .. peek(framer)
    BY <2>1, LenProperties DEF LineWords
  <2> QED BY <2>1, <2>2
<1>2. /\ Len(sent) \in Nat /\ Len(sent') = Len(sent) + 1
      /\ \A k \in 1 .. Len(sent) : sent'[k] = sent[k]
      /\ sent'[Len(sent) + 1] = HeadPacket
  BY <1>1, AppendProperties, LenProperties DEF LineWords
<1> DEFINE n == Len(sent)
           new == [k \in 1 .. n + 1 |-> sent'[k][1].pid]
<1>3. Accepted' = new
  BY <1>2 DEF Accepted
<1>4. Accepted = [k \in 1 .. n |-> sent[k][1].pid]
  BY DEF Accepted
<1>5. Len(Accepted) = n /\ DOMAIN Accepted = 1 .. n
  BY <1>2, <1>4
<1>6. Append(Accepted, framer[1].pid)
        = [k \in 1 .. n + 1 |-> IF k = n + 1 THEN framer[1].pid ELSE Accepted[k]]
  <2> DEFINE x == framer[1].pid
             S == {Accepted[k] : k \in 1 .. n} \union {x}
  <2>1. Accepted \in [1 .. n -> S]
    BY <1>4, Zenon
  <2>2. Accepted \in Seq(S) /\ x \in S
    BY <1>2, <2>1
  <2> HIDE DEF x, S, n
  <2>3. /\ Append(Accepted, x) \in Seq(S) /\ Len(Append(Accepted, x)) = n + 1
        /\ \A k \in 1 .. n : Append(Accepted, x)[k] = Accepted[k]
        /\ Append(Accepted, x)[n + 1] = x
    BY <1>5, <2>2, AppendProperties
  <2> DEFINE t == Append(Accepted, x)
  <2>4. t \in Seq(S) /\ DOMAIN t = 1 .. n + 1
    BY <2>3, LenProperties
  <2>5. \A k \in 1 .. n + 1 : t[k] = IF k = n + 1 THEN x ELSE Accepted[k]
    <3>1. n \in Nat
      BY <1>2 DEF n
    <3> QED BY <2>3, <3>1
  <2> HIDE DEF t
  <2>6. t = [k \in 1 .. n + 1 |-> t[k]]
    BY <2>4
  <2> QED BY <2>5, <2>6, Zenon DEF t, x
<1>7. ASSUME NEW k \in 1 .. n + 1
      PROVE  sent'[k][1].pid = IF k = n + 1 THEN framer[1].pid ELSE Accepted[k]
  <2>1. CASE k = n + 1
    BY <1>1, <1>2, <2>1
  <2>2. CASE k # n + 1
    <3>1. k \in 1 .. n
      BY <1>2, <2>2
    <3> QED BY <1>2, <1>4, <2>2, <3>1
  <2> QED BY <2>1, <2>2
<1> QED BY <1>3, <1>6, <1>7, Zenon

\* Up to the step that tears a peer off mid-packet every step is the pipe's, or
\* a stutter.
LEMMA PipeStep ==
    ASSUME TypeInv, TypeInv', FramingInv, OrderInv, [Next]_vars
    PROVE  torn' \/ Pipe!Next \/ UNCHANGED Pipe!vars
<1> SUFFICES ASSUME ~torn' PROVE Pipe!Next \/ UNCHANGED Pipe!vars
  OBVIOUS
<1>1. LineWords /\ LineWords'
  BY DEF TypeInv, TypeOK, LineWords
<1>2. ASSUME NEW p \in Waiting,
             Pipe!Accept(p) \/ Pipe!Answer(p) \/ Pipe!Discard(p)
      PROVE  Pipe!Next
  BY <1>2, Zenon DEF Pipe!Next
<1>3. CASE PeerStarts
  BY <1>1, <1>3, PipeOffers, Zenon DEF Pipe!Next
<1>4. CASE Unmount
  BY <1>1, <1>4, PipeLosesPeer, Zenon DEF Pipe!Next
<1>5. CASE WordArrives \/ ReadUsb
  <2>1. Line' = Line
    BY <1>1, <1>5, ArrivalKeepsLine, ReadKeepsLine
  <2>2. UNCHANGED <<started, sent, answered, session>>
    BY <1>5 DEF WordArrives, ReadUsb, bridgeVars
  <2> QED BY <2>1, <2>2, PipeStutters
<1>6. ASSUME AtPacket, framer' = consume(framer, peek(framer)), UNCHANGED peerVars
      PROVE  /\ Pipe!IsNext(framer[1].pid) /\ framer[1].pid \in Waiting
             /\ Waiting' = Waiting \ {framer[1].pid}
             /\ started' = started
  <2>1. ~torn
    BY <1>6 DEF peerVars
  <2> QED BY <1>1, <1>6, <2>1, PipeTakes
<1>7. CASE AnswerStream
  <2>1. /\ AtPacket /\ framer' = consume(framer, peek(framer)) /\ UNCHANGED peerVars
        /\ answered' = answered \union {framer[1].pid}
        /\ UNCHANGED <<sent, session>>
    BY <1>7 DEF AnswerStream
  <2>2. Accepted' = Accepted
    BY <2>1, Zenon DEF Accepted
  <2>3. Pipe!Answer(framer[1].pid)
    BY <1>6, <2>1, <2>2, Zenon DEF Pipe!Answer
  <2> QED BY <1>2, <1>6, <2>1, <2>3
<1>8. CASE DiscardGated
  <2>1. /\ AtPacket /\ framer' = consume(framer, peek(framer)) /\ UNCHANGED peerVars
        /\ UNCHANGED <<sent, answered, session>> /\ Gated
    BY <1>8 DEF DiscardGated
  <2>2. Accepted' = Accepted
    BY <2>1, Zenon DEF Accepted
  <2>3. session # "Established"
    BY <2>1 DEF Gated
  <2>4. Pipe!Discard(framer[1].pid)
    BY <1>6, <2>1, <2>2, <2>3, Zenon DEF Pipe!Discard
  <2> QED BY <1>2, <1>6, <2>1, <2>4
<1>9. CASE SendAccepted
  <2>1. /\ AtPacket /\ framer' = consume(framer, peek(framer)) /\ UNCHANGED peerVars
        /\ UNCHANGED <<answered, session>>
        /\ sent' = Append(sent, HeadPacket) /\ txSpaceAvailable > 0
    BY <1>9 DEF SendAccepted
  <2>2. Accepted' = Append(Accepted, framer[1].pid)
    BY <1>1, <2>1, AcceptedGrows DEF AtPacket
  <2>3. session = "Established"
    BY <2>1 DEF txSpaceAvailable
  <2>4. Pipe!Accept(framer[1].pid)
    BY <1>6, <2>1, <2>2, <2>3, Zenon DEF Pipe!Accept
  <2> QED BY <1>2, <1>6, <2>1, <2>4
<1>10. CASE SessionMoves \/ HeldUp \/ Resumes
  <2>1. UNCHANGED <<framer, usb, sending, started, sent, answered>>
    BY <1>10 DEF SessionMoves, HeldUp, Resumes, peerVars
  <2>2. Line' = Line
    BY <2>1 DEF Line
  <2>3. Waiting' = Waiting /\ Accepted' = Accepted
    BY <2>1, <2>2, Zenon DEF Waiting, Accepted
  <2>4. CASE (session = "Established") = (session' = "Established")
    BY <2>1, <2>3, <2>4, Zenon DEF Pipe!vars
  <2>5. CASE (session = "Established") # (session' = "Established")
    <3>1. (session' = "Established") = ~(session = "Established")
      BY <2>5
    <3> QED BY <2>1, <2>3, <3>1, Zenon DEF Pipe!Next, Pipe!SessionChanges
  <2> QED BY <2>4, <2>5
<1>11. CASE \/ Mount \/ BeginPass \/ EnterIteration \/ Refill \/ LeaveLoop
            \/ SendRefused \/ NoWholePacket \/ Tick \/ UNCHANGED vars
  <2>1. UNCHANGED <<framer, usb, sending, started, sent, answered, session>>
    BY <1>11 DEF Mount, BeginPass, EnterIteration, Refill, LeaveLoop, SendRefused,
                 NoWholePacket, Tick, vars, bridgeVars, peerVars
  <2>2. Line' = Line
    BY <2>1 DEF Line
  <2> QED BY <2>1, <2>2, PipeStutters
<1> QED BY <1>3, <1>4, <1>5, <1>7, <1>8, <1>9, <1>10, <1>11 DEF Next, DrainLoop, UsbSide

\* The loop is an in-order pipe of whole packets up to the moment a peer is torn
\* off mid-packet, for every FIFO size, mix of Message Types, number of packets
\* and number of replugs, in each of the builds.
THEOREM UsbToNetIsAPipe == Spec => ImplementsPacketPipe
<1>1. TypeInv /\ TypeInv' /\ FramingInv /\ OrderInv /\ [Next]_vars
        => torn' \/ Pipe!Next \/ UNCHANGED Pipe!vars
  BY PipeStep
<1> QED BY <1>1, PipeInit, TypeInvHolds, FramingInvHolds, OrderInvHolds, PTL
         DEF Spec, ImplementsPacketPipe
=============================================================================
