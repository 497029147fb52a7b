-------------------------- MODULE NetToUsb_proofs --------------------------
(***************************************************************************)
(* Proofs about the network -> USB half of a bridge, for every FIFO size,  *)
(* message length and number of Groups.  As long as no Group carries two   *)
(* SysEx streams at once, SysExDropGate never lets parts of a message be   *)
(* joined across what was refused, owes an End to what it has seen begun   *)
(* and to nothing else, and keeps back no more messages than it has been   *)
(* left armed for.                                                         *)
(***************************************************************************)
EXTENDS NetToUsb, FiniteSetTheorems, TLAPS

\* What Ump.h leaves out: two streams on one Group share a slot.
OneStreamPerGroup == \A j, k \in Keys : j.group = k.group => j = k

\* The source's counters and the receiver's assemblers.
CountersOK ==
    /\ source \in [Keys -> [msg : Nat, part : Nat]]
    /\ receiver \in [Keys -> [msg : Nat, parts : Nat, mixed : BOOLEAN]]
    /\ gate \in [Groups -> Slot]
    /\ messages \in Nat

-----------------------------------------------------------------------------
(* Packets.                                                                 *)

\* What the sender may put out next for a Key.
LEMMA PacketFacts ==
    ASSUME CountersOK, NEW k \in Keys, NEW p \in NextFrom(k)
    PROVE  /\ p.mt = k.mt /\ p.group = k.group /\ p.streamId = k.streamId
           /\ KeyOf(p) = k /\ IsSysEx(p)
           /\ p.msg \in Nat \ {0} /\ p.part \in Nat \ {0} /\ p.status \in Status
           /\ p.status \in {kContinue, kEnd} =>
                 p.msg = source[k].msg /\ p.part = source[k].part + 1
           /\ AfterSending(p) \in [msg : Nat, part : Nat]
           /\ AfterSending(p).msg # 0 =>
                 /\ p.status \in {kStart, kContinue}
                 /\ AfterSending(p).msg = p.msg /\ AfterSending(p).part = p.part
                 /\ p.status = kStart => p.part = 1
  <1> USE NetToUsbAssumption
  <1>1. k \in Key /\ source[k] \in [msg : Nat, part : Nat] /\ messages \in Nat
    BY DEF CountersOK
  <1>2. k = [mt |-> k.mt, group |-> k.group, streamId |-> k.streamId]
    BY <1>1 DEF Key
  <1>3. k.mt \in {SysEx7, SysEx8}
    BY <1>1 DEF Key
  <1>4. PICK st \in Status, m \in Nat \ {0}, i \in Nat \ {0} :
          /\ p = SysExPacket(k, st, m, i)
          /\ st \in {kContinue, kEnd} => m = source[k].msg /\ i = source[k].part + 1
          /\ st = kStart => i = 1
    <2>1. CASE source[k].msg = 0
      <3>1. p \in {SysExPacket(k, kComplete, messages + 1, 1),
                   SysExPacket(k, kStart, messages + 1, 1)}
        BY <2>1 DEF NextFrom, NextPackets
      <3>2. messages + 1 \in Nat \ {0} /\ 1 \in Nat \ {0}
        BY <1>1
      <3>3. kComplete \in Status /\ kStart \in Status
            /\ kComplete \notin {kContinue, kEnd, kStart} /\ kStart \notin {kContinue, kEnd}
        BY DEF Status, kComplete, kStart, kContinue, kEnd
      <3> QED BY <3>1, <3>2, <3>3
    <2>2. CASE source[k].msg # 0
      <3>1. p \in {SysExPacket(k, kEnd, source[k].msg, source[k].part + 1),
                   SysExPacket(k, kContinue, source[k].msg, source[k].part + 1)}
        BY <2>2 DEF NextFrom, NextPackets
      <3>2. source[k].msg \in Nat \ {0} /\ source[k].part + 1 \in Nat \ {0}
        BY <1>1, <2>2
      <3>3. kContinue \in Status /\ kEnd \in Status
            /\ kContinue # kStart /\ kEnd # kStart
        BY DEF Status, kComplete, kStart, kContinue, kEnd
      <3> QED BY <3>1, <3>2, <3>3
    <2> QED BY <2>1, <2>2
  <1>5. /\ p.mt = k.mt /\ p.group = k.group /\ p.streamId = k.streamId
        /\ p.status = st /\ p.msg = m /\ p.part = i
    BY <1>4 DEF SysExPacket
  <1>6. KeyOf(p) = k /\ IsSysEx(p)
    BY <1>2, <1>3, <1>5 DEF KeyOf, IsSysEx
  <1>7. CASE st \in {kStart, kContinue}
    <2>1. AfterSending(p) = [msg |-> m, part |-> i]
      BY <1>5, <1>7 DEF AfterSending
    <2> QED BY <1>4, <1>5, <1>6, <1>7, <2>1
  <1>8. CASE st \notin {kStart, kContinue}
    <2>1. AfterSending(p) = [msg |-> 0, part |-> 0]
      BY <1>5, <1>8 DEF AfterSending, Idle
    <2> QED BY <1>4, <1>5, <1>6, <1>8, <2>1
  <1> QED BY <1>7, <1>8

\* The gate's operators keep slots slots.
LEMMA GateTypes ==
    ASSUME gate \in [Groups -> Slot], CountersOK, NEW k \in Keys, NEW p \in NextFrom(k)
    PROVE  /\ k.group \in Groups
           /\ noteSent(gate, p) \in [Groups -> Slot]
           /\ noteRefused(gate, p) \in [Groups -> Slot]
           /\ AfterTerminator(gate, p) \in [Groups -> Slot]
           /\ \A h \in Groups : h # k.group =>
                 /\ noteSent(gate, p)[h] = gate[h]
                 /\ noteRefused(gate, p)[h] = gate[h]
                 /\ AfterTerminator(gate, p)[h] = gate[h]
  <1> USE NetToUsbAssumption
  <1>1. k.group \in Groups /\ p.group = k.group /\ p.streamId = k.streamId
    BY PacketFacts DEF Groups
  <1>2. p.streamId \in 0 .. 255
    BY <1>1 DEF Key
  <1> DEFINE armed == [abandoning |-> TRUE, owesEnd |-> p.status # kStart,
                       isSysEx8 |-> p.mt = SysEx8, streamId |-> p.streamId]
             freed == [gate[p.group] EXCEPT !.abandoning = FALSE, !.owesEnd = FALSE]
  <1>3. armed \in Slot
    BY <1>2 DEF Slot
  <1>4. freed \in Slot
    <2>1. gate[p.group] \in Slot
      BY <1>1
    <2> QED BY <2>1 DEF Slot
  <1>5. Forgotten(gate, p.group) = [gate EXCEPT ![p.group] = freed]
    BY <1>1 DEF Forgotten, Slot
  <1>6. noteSent(gate, p) \in {gate, [gate EXCEPT ![p.group] = freed]}
    BY <1>5 DEF noteSent
  <1>7. AfterTerminator(gate, p) \in {gate, [gate EXCEPT ![p.group] = freed]}
    BY <1>5 DEF AfterTerminator
  <1>8. noteRefused(gate, p) \in {gate, [gate EXCEPT ![p.group] = armed]}
    BY DEF noteRefused
  <1> HIDE DEF armed, freed
  <1> QED BY <1>1, <1>3, <1>4, <1>6, <1>7, <1>8

\* The slot of a stream that has its Group to itself.
Matches(slot, k) ==
    slot.abandoning =>
        /\ slot.isSysEx8 <=> k.mt = SysEx8
        /\ k.mt = SysEx8 => slot.streamId = k.streamId

\* What the gate's operators do to the slot of the packet's Group.
LEMMA GateMeaning ==
    ASSUME CountersOK, NEW k \in Keys, NEW p \in NextFrom(k),
           Matches(gate[k.group], k)
    PROVE  LET slot == gate[k.group] IN
           /\ suppress(gate, p) <=> slot.abandoning
           /\ ~slot.abandoning => ~noteSent(gate, p)[k.group].abandoning
           /\ Matches(noteRefused(gate, p)[k.group], k)
           /\ p.status # kComplete => noteRefused(gate, p)[k.group].abandoning
           /\ Matches(AfterTerminator(gate, p)[k.group], k)
           /\ p.status \notin {kEnd, kComplete} => AfterTerminator(gate, p) = gate
  <1> DEFINE slot == gate[k.group]
             freed == [slot EXCEPT !.abandoning = FALSE, !.owesEnd = FALSE]
             armed == [abandoning |-> TRUE, owesEnd |-> p.status # kStart,
                       isSysEx8 |-> p.mt = SysEx8, streamId |-> p.streamId]
  <1>1. /\ p.mt = k.mt /\ p.group = k.group /\ p.streamId = k.streamId
        /\ IsSysEx(p) /\ p.status \in Status
    BY PacketFacts
  <1>2. k.group \in Groups /\ gate \in [Groups -> Slot] /\ slot \in Slot
    BY DEF Groups, CountersOK
  <1>3. suppress(gate, p) <=> slot.abandoning
    BY <1>1 DEF suppress, Matches
  <1>4. ~freed.abandoning
    BY <1>2 DEF Slot
  <1>5. Forgotten(gate, p.group)[k.group] = freed
    <2>1. Forgotten(gate, p.group) = [gate EXCEPT ![k.group] = freed]
      BY <1>1, <1>2 DEF Forgotten, Slot
    <2> QED BY <1>2, <2>1
  <1> HIDE DEF freed
  <1>6. ~slot.abandoning => ~noteSent(gate, p)[k.group].abandoning
    BY <1>4, <1>5 DEF noteSent
  <1>7. noteRefused(gate, p)[k.group] = IF p.status # kComplete THEN armed ELSE slot
    BY <1>1, <1>2 DEF noteRefused
  <1>8. AfterTerminator(gate, p)[k.group] \in {freed, slot}
    BY <1>5 DEF AfterTerminator
  <1>9. p.status \notin {kEnd, kComplete} => AfterTerminator(gate, p) = gate
    BY DEF AfterTerminator, EndsSysEx
  <1>10. Matches(freed, k)
    BY <1>4 DEF Matches
  <1>11. Matches(armed, k) /\ armed.abandoning
    BY <1>1 DEF Matches
  <1> HIDE DEF armed
  <1> QED BY <1>3, <1>6, <1>7, <1>8, <1>9, <1>10, <1>11

\* A zero-length End closes whatever the receiver had open, and mixes nothing.
LEMMA ZeroEndCloses ==
    ASSUME NEW k \in Keys, NEW a
    PROVE  /\ IsSysEx(ZeroEnd(k)) /\ KeyOf(ZeroEnd(k)) = k /\ ZeroEnd(k).mt = k.mt
           /\ Assemble(a, ZeroEnd(k)) = Closed
           /\ ~a.mixed => ~FinishesMixed(a, ZeroEnd(k))
  <1>1. k \in Key
    BY NetToUsbAssumption
  <1>2. k = [mt |-> k.mt, group |-> k.group, streamId |-> k.streamId]
    BY <1>1 DEF Key
  <1>3. /\ ZeroEnd(k).mt = k.mt /\ ZeroEnd(k).group = k.group
        /\ ZeroEnd(k).streamId = k.streamId
        /\ ZeroEnd(k).status = kEnd /\ ZeroEnd(k).msg = 0
    BY DEF ZeroEnd, SysExPacket
  <1>4. IsSysEx(ZeroEnd(k)) /\ KeyOf(ZeroEnd(k)) = k
    BY <1>1, <1>2, <1>3 DEF Key, KeyOf, IsSysEx
  <1>5. Assemble(a, ZeroEnd(k)) = Closed
    BY <1>3 DEF Assemble, kEnd, kStart, kContinue
  <1>6. ~a.mixed => ~FinishesMixed(a, ZeroEnd(k))
    BY <1>3 DEF FinishesMixed
  <1> QED BY <1>3, <1>4, <1>5, <1>6

-----------------------------------------------------------------------------
(* Types.                                                                   *)

Assembly == [msg : Nat, parts : Nat, mixed : BOOLEAN]

LEMMA AssembleTypes ==
    ASSUME NEW a \in Assembly, NEW p, p.msg \in Nat
    PROVE  /\ Assemble(a, p) \in Assembly
           /\ FinishesMixed(a, p) \in BOOLEAN /\ JoinsNothing(a, p) \in BOOLEAN
  <1>1. CASE p.status = kStart
    BY <1>1 DEF Assemble, Assembly, FinishesMixed, JoinsNothing
  <1>2. CASE p.status # kStart /\ p.status = kContinue /\ a.msg # 0
    <2>1. (a.mixed \/ ~Joins(a, p)) \in BOOLEAN
      BY DEF Assembly, Joins
    <2> QED BY <1>2, <2>1 DEF Assemble, Assembly, FinishesMixed, JoinsNothing
  <1>3. CASE p.status # kStart /\ ~(p.status = kContinue /\ a.msg # 0)
    BY <1>3 DEF Assemble, Assembly, Closed, FinishesMixed, JoinsNothing
  <1> QED BY <1>1, <1>2, <1>3

LEMMA WriteTypes ==
    ASSUME TypeOK, NEW p, Write(p), p.msg \in Nat, IsSysEx(p) => KeyOf(p) \in Keys
    PROVE  /\ receiver' \in [Keys -> Assembly]
           /\ spoilt' \in BOOLEAN /\ stray' \in BOOLEAN
  <1>1. receiver \in [Keys -> Assembly] /\ spoilt \in BOOLEAN /\ stray \in BOOLEAN
    BY DEF TypeOK, Assembly
  <1>3. CASE IsSysEx(p)
    <2> DEFINE k == KeyOf(p)
               a == Assemble(receiver[k], p)
    <2>1. k \in Keys /\ receiver[k] \in Assembly
      BY <1>1, <1>3
    <2> HIDE DEF k
    <2>2. a \in Assembly
      BY <2>1, AssembleTypes
    <2>3. receiver' = [receiver EXCEPT ![k] = a]
      BY <1>3 DEF Write, k
    <2>4. spoilt' \in BOOLEAN /\ stray' \in BOOLEAN
      BY <1>3 DEF Write
    <2> HIDE DEF a
    <2> QED BY <1>1, <2>1, <2>2, <2>3, <2>4
  <1>4. CASE ~IsSysEx(p)
    BY <1>1, <1>4 DEF Write, wire
  <1> QED BY <1>3, <1>4

LEMMA WordCount == \A mt : umpWordCount(mt) \in 1 .. 4
  BY DEF umpWordCount

LEMMA RoomAfterWrite ==
    ASSUME TypeOK, NEW words \in 1 .. 4, NEW r \in 0 .. FifoWords,
           HasRoom(words, r)
    PROVE  r - words \in 0 .. FifoWords /\ stalled' \in BOOLEAN
  <1>1. r - words \in 0 .. FifoWords
    BY NetToUsbAssumption DEF HasRoom
  <1>2. stalled' \in BOOLEAN
    BY DEF HasRoom, TypeOK
  <1> QED BY <1>1, <1>2

LEMMA BuildFlags ==
    ASSUME TypeOK
    PROVE  WaitsForRoom \in BOOLEAN /\ DropsUnmounted \in BOOLEAN
  <1>1. build \in Build
    BY NetToUsbAssumption DEF TypeOK
  <1> QED BY <1>1 DEF Build, WaitsForRoom, DropsUnmounted

\* Every variable keeps its type; in particular no write ever takes more words
\* than there is room for.
THEOREM NetToUsbTypes == Spec => []TypeOK
<1> USE NetToUsbAssumption
<1>1. Init => TypeOK
  <2> SUFFICES ASSUME Init PROVE TypeOK
    OBVIOUS
  <2> USE DEF Init
  <2>1. gate \in [Groups -> Slot]
    <3>1. EmptySlot \in Slot
      BY DEF EmptySlot, Slot
    <3> QED BY <3>1
  <2>2. {stalled, mounted, spoilt, stray} \subseteq BOOLEAN
    OBVIOUS
  <2>3. source \in [Keys -> [msg : Nat, part : Nat]]
    BY DEF Idle
  <2>4. receiver \in [Keys -> [msg : Nat, parts : Nat, mixed : BOOLEAN]]
    BY DEF Closed
  <2>5. {refused, endRefused, suppressed, cut} \subseteq SUBSET Nat /\ unclosed \subseteq Keys
    OBVIOUS
  <2> QED BY <2>1, <2>2, <2>3, <2>4, <2>5 DEF TypeOK
<1>2. TypeOK /\ [Next]_vars => TypeOK'
  <2> SUFFICES ASSUME TypeOK, [Next]_vars PROVE TypeOK'
    OBVIOUS
  <2>1. CASE UNCHANGED vars
    BY <2>1 DEF vars, sender, verdict, wire, TypeOK
  <2>2. CASE UsbTakes
    BY <2>2 DEF UsbTakes, sender, verdict, wire, TypeOK
  <2>3. CASE Mount
    BY <2>3 DEF Mount, sender, verdict, wire, TypeOK
  <2>4. CASE Unmount
    <3>1. receiver' \in [Keys -> [msg : Nat, parts : Nat, mixed : BOOLEAN]]
      BY <2>4 DEF Unmount, Closed
    <3>2. mounted' \in BOOLEAN
      BY <2>4 DEF Unmount
    <3>4. room' \in 0 .. FifoWords /\ unmounts' \in Nat
      BY <2>4 DEF Unmount, TypeOK
    <3>3. UNCHANGED <<build, gate, stalled, sender, verdict, spoilt, stray>>
      BY <2>4 DEF Unmount
    <3> QED BY <3>1, <3>2, <3>3, <3>4 DEF TypeOK, sender, verdict
  <2>5. ASSUME NEW mt \in OtherTypes, OtherTraffic(mt) PROVE TypeOK'
    <3> DEFINE words == umpWordCount(mt)
    <3>1. words \in 1 .. 4
      BY WordCount
    <3>2. UNCHANGED <<build, gate, mounted, unmounts, sender, verdict>>
      BY <2>5 DEF OtherTraffic
    <3>3. room' \in 0 .. FifoWords /\ stalled' \in BOOLEAN
      <4>1. CASE \E r \in 0 .. FifoWords : HasRoom(words, r) /\ room' = r - words
        BY <3>1, <4>1, RoomAfterWrite
      <4>2. CASE \E r \in 0 .. FifoWords : NoRoom(words, r) /\ room' = r
        BY <4>2, BuildFlags DEF NoRoom
      <4> QED BY <2>5, <4>1, <4>2 DEF OtherTraffic
    <3>4. receiver' \in [Keys -> Assembly] /\ {spoilt, stray}' \subseteq BOOLEAN
      <4>1. CASE Write(OtherPacket(mt))
        <5>1. OtherPacket(mt).msg = 0 /\ ~IsSysEx(OtherPacket(mt))
          BY DEF OtherPacket, IsSysEx
        <5> QED BY <4>1, <5>1, WriteTypes
      <4>2. CASE UNCHANGED wire
        BY <4>2 DEF wire, TypeOK, Assembly
      <4> QED BY <2>5, <4>1, <4>2 DEF OtherTraffic
    <3> QED BY <3>2, <3>3, <3>4 DEF TypeOK, sender, verdict, Assembly
  <2>6. ASSUME NEW k \in Keys, NEW p \in NextFrom(k),
               \/ Unseen(k, p) \/ WritePacket(k, p)
               \/ RefusePacket(k, p) \/ SuppressPacket(k, p)
        PROVE  TypeOK'
    <3>1. CountersOK /\ gate \in [Groups -> Slot]
      BY DEF TypeOK, CountersOK
    <3>2. /\ p.mt = k.mt /\ KeyOf(p) = k /\ p.msg \in Nat
          /\ AfterSending(p) \in [msg : Nat, part : Nat]
      BY <3>1, PacketFacts
    <3>3. p.mt \in MessageType /\ umpWordCount(p.mt) \in 1 .. 4
      BY <3>2, WordCount DEF Key, MessageType, SysEx7, SysEx8
    <3>4. Sends(k, p)
      BY <2>6 DEF Unseen, WritePacket, RefusePacket, SuppressPacket
    <3>5. source' \in [Keys -> [msg : Nat, part : Nat]] /\ messages' \in Nat /\ cut' = cut
      BY <3>2, <3>4 DEF Sends, TypeOK
    <3>6. gate' \in [Groups -> Slot]
      BY <2>6, <3>1, GateTypes DEF Unseen, WritePacket, RefusePacket, SuppressPacket
    <3>7. mounted' = mounted /\ unmounts' = unmounts /\ build' = build
      BY <2>6 DEF Unseen, WritePacket, RefusePacket, SuppressPacket
    <3>8. {refused, endRefused, suppressed}' \subseteq SUBSET Nat /\ unclosed' \subseteq Keys
      BY <2>6, <3>2 DEF Unseen, WritePacket, RefusePacket, SuppressPacket, verdict, TypeOK
    <3>9. stalled' \in BOOLEAN /\ room' \in 0 .. FifoWords
      <4>1. CASE Unseen(k, p)
        BY <4>1 DEF Unseen, TypeOK
      <4>2. CASE WritePacket(k, p)
        BY <3>3, <4>2, RoomAfterWrite DEF WritePacket
      <4>3. CASE RefusePacket(k, p)
        BY <4>3, BuildFlags DEF RefusePacket, NoRoom
      <4>4. CASE SuppressPacket(k, p)
        <5>1. stalled' = stalled /\ room' \in {room, room - TerminatorWords}
              /\ (room' = room \/ room >= TerminatorWords)
          BY <4>4 DEF SuppressPacket
        <5>2. room' \in 0 .. FifoWords
          BY <5>1 DEF TypeOK, TerminatorWords
        <5>3. stalled' \in BOOLEAN
          BY <5>1 DEF TypeOK
        <5> QED BY <5>2, <5>3
      <4> QED BY <2>6, <4>1, <4>2, <4>3, <4>4
    <3>10. receiver' \in [Keys -> Assembly] /\ {spoilt, stray}' \subseteq BOOLEAN
      <4>1. CASE Write(p)
        BY <3>2, <4>1, WriteTypes
      <4>2. CASE Write(ZeroEnd(k))
        <5>1. ZeroEnd(k).msg \in Nat /\ KeyOf(ZeroEnd(k)) \in Keys
          BY <3>2, ZeroEndCloses DEF ZeroEnd, SysExPacket
        <5> QED BY <4>2, <5>1, WriteTypes
      <4>3. CASE UNCHANGED wire
        BY <4>3 DEF wire, TypeOK, Assembly
      <4> QED BY <2>6, <4>1, <4>2, <4>3
            DEF Unseen, WritePacket, RefusePacket, SuppressPacket
    <3> QED BY <3>5, <3>6, <3>7, <3>8, <3>9, <3>10 DEF TypeOK, Assembly
  <2>7. CASE SessionEnds
    <3>1. source' \in [Keys -> [msg : Nat, part : Nat]]
      BY <2>7 DEF SessionEnds, Idle
    <3>2. cut' \in SUBSET Nat
      BY <2>7 DEF SessionEnds, TypeOK
    <3>3. UNCHANGED <<build, gate, stalled, room, mounted, unmounts, messages, verdict, wire>>
      BY <2>7 DEF SessionEnds
    <3> QED BY <3>1, <3>2, <3>3 DEF TypeOK, verdict, wire
  <2> QED BY <2>1, <2>2, <2>3, <2>4, <2>5, <2>6, <2>7 DEF Next, SysExDelivery
<1> QED BY <1>1, <1>2, PTL DEF Spec

-----------------------------------------------------------------------------
(* Never spliced.  The property is not inductive: that the next packet of an *)
(* open message continues it follows from where the sender stands, as long   *)
(* as the gate is not abandoning that message.                               *)

\* While a message is not abandoned, the receiver has all of it so far, or has
\* nothing open (it was replaced in the middle).
InStep(k) ==
    ~gate[k.group].abandoning /\ source[k].msg # 0 =>
        \/ receiver[k].msg = 0
        \/ receiver[k].msg = source[k].msg /\ receiver[k].parts = source[k].part

StreamInv(k) ==
    /\ ~receiver[k].mixed
    /\ Matches(gate[k.group], k)
    /\ InStep(k)

GoneInv == ~mounted => room = 0 /\ \A k \in Keys : receiver[k] = Closed

SpliceInv == ~spoilt /\ GoneInv /\ \A k \in Keys : StreamInv(k)

\* A step that delivers nothing of a stream, and leaves its slot alone, keeps its
\* StreamInv.
LEMMA StreamKept ==
    ASSUME NEW j \in Keys, StreamInv(j), gate'[j.group] = gate[j.group],
           source'[j] = source[j], receiver'[j] \in {receiver[j], Closed}
    PROVE  StreamInv(j)'
  BY DEF StreamInv, InStep, Matches, Closed

\* The delivery of a packet keeps the StreamInv of its own Key.
LEMMA StreamStep ==
    ASSUME TypeOK, SpliceInv, NEW k \in Keys, NEW p \in NextFrom(k),
           \/ Unseen(k, p) \/ WritePacket(k, p)
           \/ RefusePacket(k, p) \/ SuppressPacket(k, p)
    PROVE  StreamInv(k)' /\ ~spoilt'
  <1> DEFINE a == receiver[k]
             n == AfterSending(p)
  <1>1. CountersOK
    BY DEF TypeOK, CountersOK
  <1>2. /\ KeyOf(p) = k /\ IsSysEx(p) /\ p.msg \in Nat \ {0} /\ p.status \in Status
        /\ p.status \in {kContinue, kEnd} => p.msg = source[k].msg /\ p.part = source[k].part + 1
        /\ n.msg # 0 => /\ p.status \in {kStart, kContinue}
                        /\ n.msg = p.msg /\ n.part = p.part
                        /\ p.status = kStart => p.part = 1
    BY <1>1, PacketFacts
  <1>3. source'[k] = n
    <2>1. Sends(k, p)
      BY DEF Unseen, WritePacket, RefusePacket, SuppressPacket
    <2> QED BY <2>1 DEF Sends, TypeOK
  <1>4. StreamInv(k) /\ ~spoilt
    BY DEF SpliceInv
  <1>5. Matches(gate[k.group], k)
    BY <1>4 DEF StreamInv
  <1>6. /\ suppress(gate, p) <=> gate[k.group].abandoning
        /\ ~gate[k.group].abandoning => ~noteSent(gate, p)[k.group].abandoning
        /\ Matches(noteRefused(gate, p)[k.group], k)
        /\ p.status # kComplete => noteRefused(gate, p)[k.group].abandoning
        /\ Matches(AfterTerminator(gate, p)[k.group], k)
        /\ p.status \notin {kEnd, kComplete} => AfterTerminator(gate, p) = gate
    BY <1>1, <1>5, GateMeaning
  <1>7. /\ kStart # kContinue /\ kStart # kEnd /\ kContinue # kEnd
        /\ kStart # kComplete /\ kContinue # kComplete /\ kEnd # kComplete
    BY DEF kStart, kContinue, kEnd, kComplete
  <1> HIDE DEF n
  <1>8. CASE Unseen(k, p)
    <2>1. receiver[k] = Closed /\ gate' = gate /\ receiver' = receiver /\ spoilt' = spoilt
      BY <1>8 DEF Unseen, Looked, wire, SpliceInv, GoneInv
    <2> QED BY <1>4, <1>5, <2>1 DEF StreamInv, InStep, Closed
  <1>9. CASE RefusePacket(k, p)
    <2>1. gate' = noteRefused(gate, p) /\ receiver' = receiver /\ spoilt' = spoilt
      BY <1>9 DEF RefusePacket, wire
    <2>2. p.status = kComplete => source'[k].msg = 0
      BY <1>2, <1>3, <1>7
    <2> QED BY <1>4, <1>6, <2>1, <2>2 DEF StreamInv, InStep
  <1>10. CASE SuppressPacket(k, p)
    <2>1. gate' = AfterTerminator(gate, p) /\ gate[k.group].abandoning
      BY <1>6, <1>10 DEF SuppressPacket
    <2>2. ~receiver'[k].mixed /\ ~spoilt'
      <3>1. CASE UNCHANGED wire
        BY <1>4, <3>1 DEF wire, StreamInv
      <3>2. CASE Write(ZeroEnd(k))
        <4>1. /\ receiver' = [receiver EXCEPT ![k] = Assemble(a, ZeroEnd(k))]
              /\ spoilt' = (spoilt \/ FinishesMixed(a, ZeroEnd(k)))
          BY <3>2, ZeroEndCloses DEF Write
        <4>2. ~a.mixed /\ receiver \in [Keys -> Assembly]
          BY <1>4 DEF StreamInv, TypeOK, Assembly
        <4>3. Assemble(a, ZeroEnd(k)) = Closed /\ ~FinishesMixed(a, ZeroEnd(k))
          BY <4>2, ZeroEndCloses
        <4>4. receiver'[k] = Closed
          BY <4>1, <4>2, <4>3
        <4>5. ~spoilt'
          BY <1>4, <4>1, <4>3
        <4> QED BY <4>4, <4>5 DEF Closed
      <3> QED BY <1>10, <3>1, <3>2 DEF SuppressPacket
    <2>3. p.status \in {kEnd, kComplete} => source'[k].msg = 0
      BY <1>2, <1>3, <1>7
    <2>4. p.status \notin {kEnd, kComplete} => gate'[k.group].abandoning
      BY <1>6, <2>1
    <2> QED BY <1>6, <2>1, <2>2, <2>3, <2>4 DEF StreamInv, InStep
  <1>11. CASE WritePacket(k, p)
    <2>1. ~gate[k.group].abandoning /\ gate' = noteSent(gate, p)
      BY <1>6, <1>11 DEF WritePacket
    <2>2. ~gate'[k.group].abandoning
      BY <1>6, <2>1
    <2>3. /\ receiver' = [receiver EXCEPT ![k] = Assemble(a, p)]
          /\ spoilt' = (spoilt \/ FinishesMixed(a, p))
      BY <1>2, <1>11 DEF WritePacket, Write
    <2>4. receiver'[k] = Assemble(a, p)
      BY <2>3 DEF TypeOK
    <2>5. p.status \in {kContinue, kEnd} /\ a.msg # 0 => Joins(a, p)
      BY <1>2, <1>4, <2>1 DEF StreamInv, InStep, Joins
    <2>6. ~a.mixed
      BY <1>4 DEF StreamInv
    <2>7. ~Assemble(a, p).mixed
      BY <2>5, <2>6 DEF Assemble, Closed
    <2>8. ~FinishesMixed(a, p)
      BY <2>5, <2>6 DEF FinishesMixed
    <2>9. n.msg # 0 => Assemble(a, p).msg = 0 \/ (Assemble(a, p).msg = n.msg
                                                  /\ Assemble(a, p).parts = n.part)
      <3>1. CASE p.status = kStart
        BY <1>2, <3>1 DEF Assemble
      <3>2. CASE p.status = kContinue /\ a.msg # 0
        BY <1>2, <1>7, <2>5, <3>2 DEF Assemble, Joins
      <3>3. CASE p.status # kStart /\ ~(p.status = kContinue /\ a.msg # 0)
        BY <3>3 DEF Assemble, Closed
      <3> QED BY <3>1, <3>2, <3>3
    <2> HIDE DEF a
    <2>10. InStep(k)'
      BY <1>3, <2>4, <2>9 DEF InStep
    <2>11. Matches(gate[k.group], k)'
      BY <2>2 DEF Matches
    <2> QED BY <1>4, <2>3, <2>4, <2>7, <2>8, <2>10, <2>11 DEF StreamInv
  <1> QED BY <1>8, <1>9, <1>10, <1>11

\* The delivery of a packet leaves the other streams as they were.
LEMMA OthersKept ==
    ASSUME TypeOK, SpliceInv, OneStreamPerGroup,
           NEW k \in Keys, NEW p \in NextFrom(k), NEW j \in Keys, j # k,
           \/ Unseen(k, p) \/ WritePacket(k, p)
           \/ RefusePacket(k, p) \/ SuppressPacket(k, p)
    PROVE  StreamInv(j)'
  <1>1. CountersOK /\ gate \in [Groups -> Slot]
    BY DEF TypeOK, CountersOK
  <1>2. j.group \in Groups /\ j.group # k.group
    BY DEF OneStreamPerGroup, Groups
  <1>3. gate'[j.group] = gate[j.group]
    BY <1>1, <1>2, GateTypes DEF Unseen, WritePacket, RefusePacket, SuppressPacket
  <1>4. Sends(k, p)
    BY DEF Unseen, WritePacket, RefusePacket, SuppressPacket
  <1>5. source'[j] = source[j]
    BY <1>4 DEF Sends, TypeOK
  <1>6. KeyOf(p) = k /\ KeyOf(ZeroEnd(k)) = k
    BY <1>1, PacketFacts, ZeroEndCloses
  <1>7. receiver'[j] = receiver[j]
    <2>1. ASSUME NEW q, Write(q), KeyOf(q) = k
          PROVE  receiver'[j] = receiver[j]
      BY <2>1 DEF Write, wire, TypeOK
    <2> QED BY <1>6, <2>1 DEF Unseen, WritePacket, RefusePacket, SuppressPacket, wire
  <1>8. StreamInv(j)
    BY DEF SpliceInv
  <1> QED BY <1>3, <1>5, <1>7, <1>8, StreamKept

\* Nothing is written to a peer that is not there.
LEMMA GoneStep ==
    ASSUME TypeOK, SpliceInv, [Next]_vars PROVE GoneInv'
<1> USE NetToUsbAssumption
<1>1. CASE Mount \/ UsbTakes
  BY <1>1 DEF Mount, UsbTakes, GoneInv
<1>2. CASE Unmount
  BY <1>2 DEF Unmount, GoneInv
<1>3. CASE SessionEnds \/ UNCHANGED vars
  BY <1>3 DEF SessionEnds, vars, wire, GoneInv, SpliceInv
<1>4. SUFFICES ASSUME ~mounted',
                      ~(Mount \/ UsbTakes \/ Unmount \/ SessionEnds \/ UNCHANGED vars)
               PROVE  room' = 0 /\ \A k \in Keys : receiver'[k] = Closed
  BY <1>1, <1>2, <1>3 DEF GoneInv
<1>5. mounted' = mounted
  BY <1>4 DEF Next, SysExDelivery, OtherTraffic, Unseen, WritePacket, RefusePacket,
              SuppressPacket
<1>6. room = 0 /\ \A k \in Keys : receiver[k] = Closed
  BY <1>4, <1>5 DEF SpliceInv, GoneInv
<1>7. RoomAfterWait = {0}
  BY <1>4, <1>5, <1>6 DEF RoomAfterWait
<1>8. ASSUME NEW words \in 1 .. 4, NEW r, HasRoom(words, r) PROVE FALSE
  <2>1. ~(0 >= words)
    OBVIOUS
  <2>2. r = 0
    BY <1>6, <1>7, <1>8, <2>1 DEF HasRoom
  <2> QED BY <1>8, <2>1, <2>2 DEF HasRoom
<1>9. ASSUME NEW words, NEW r, NoRoom(words, r) PROVE r = 0
  BY <1>7, <1>9 DEF NoRoom
<1>10. ASSUME NEW mt \in OtherTypes, OtherTraffic(mt)
       PROVE  room' = 0 /\ receiver' = receiver
  BY <1>8, <1>9, <1>10, WordCount DEF OtherTraffic, wire
<1>11. ASSUME NEW k \in Keys, NEW p \in NextFrom(k),
              \/ Unseen(k, p) \/ WritePacket(k, p)
              \/ RefusePacket(k, p) \/ SuppressPacket(k, p)
       PROVE  room' = 0 /\ receiver' = receiver
  <2>1. ~WritePacket(k, p)
    BY <1>8, WordCount DEF WritePacket
  <2>2. CASE Unseen(k, p)
    BY <1>6, <2>2 DEF Unseen, wire
  <2>3. CASE RefusePacket(k, p)
    BY <1>9, <2>3 DEF RefusePacket, wire
  <2>4. CASE SuppressPacket(k, p)
    <3>1. ~(room >= TerminatorWords)
      BY <1>6 DEF TerminatorWords
    <3> QED BY <1>6, <2>4, <3>1 DEF SuppressPacket, wire
  <2> QED BY <1>11, <2>1, <2>2, <2>3, <2>4
<1> QED BY <1>4, <1>6, <1>10, <1>11 DEF Next, SysExDelivery

\* SpliceInv is inductive when no two streams share a Group.
LEMMA SpliceStep ==
    ASSUME TypeOK, SpliceInv, OneStreamPerGroup, [Next]_vars PROVE SpliceInv'
<1>1. GoneInv'
  BY GoneStep
<1>2. ASSUME NEW k \in Keys, NEW p \in NextFrom(k),
             \/ Unseen(k, p) \/ WritePacket(k, p)
             \/ RefusePacket(k, p) \/ SuppressPacket(k, p)
      PROVE  ~spoilt' /\ \A j \in Keys : StreamInv(j)'
  BY <1>2, StreamStep, OthersKept
<1>3. ASSUME UNCHANGED <<gate, source, spoilt>>,
             \A j \in Keys : receiver'[j] \in {receiver[j], Closed}
      PROVE  ~spoilt' /\ \A j \in Keys : StreamInv(j)'
  BY <1>3, StreamKept DEF SpliceInv
<1>4. ASSUME NEW mt \in OtherTypes, OtherTraffic(mt)
      PROVE  UNCHANGED <<gate, source, receiver, spoilt>>
  <2>1. ~IsSysEx(OtherPacket(mt))
    BY NetToUsbAssumption DEF IsSysEx, OtherPacket
  <2> QED BY <1>4, <2>1 DEF OtherTraffic, Write, wire, sender
<1>5. CASE UsbTakes \/ Mount \/ UNCHANGED vars
  <2>1. UNCHANGED <<gate, source, receiver, spoilt>>
    BY <1>5 DEF UsbTakes, Mount, vars, sender, wire
  <2> QED BY <1>1, <1>3, <2>1 DEF SpliceInv
<1>6. CASE Unmount
  <2>1. /\ UNCHANGED <<gate, source, spoilt>>
        /\ \A j \in Keys : receiver'[j] = Closed
    BY <1>6 DEF Unmount, sender
  <2> QED BY <1>1, <1>3, <2>1 DEF SpliceInv
<1>7. CASE SessionEnds
  <2>1. /\ UNCHANGED <<gate, receiver, spoilt>>
        /\ \A j \in Keys : source'[j].msg = 0
    BY <1>7 DEF SessionEnds, Idle, wire
  <2>2. \A j \in Keys : StreamInv(j)'
    BY <2>1 DEF SpliceInv, StreamInv, InStep, Matches
  <2> QED BY <1>1, <2>1, <2>2 DEF SpliceInv
<1> QED BY <1>1, <1>2, <1>3, <1>4, <1>5, <1>6, <1>7 DEF Next, SysExDelivery, SpliceInv

LEMMA SpliceInit == Init => SpliceInv
  BY DEF Init, SpliceInv, GoneInv, StreamInv, InStep, Matches, Groups, EmptySlot, Closed,
         Idle

\* When no Group carries two SysEx streams at once, the receiver never joins
\* parts of a message across what was refused, whatever the FIFO's size, the
\* length of the messages, the waits and the replugs.
THEOREM GateNeverSplices ==
    ASSUME OneStreamPerGroup PROVE Spec => []NeverSpliced
<1>1. SpliceInv => NeverSpliced
  BY DEF SpliceInv, StreamInv, NeverSpliced
<1>2. TypeOK /\ TypeOK' /\ SpliceInv /\ [Next]_vars => SpliceInv'
  BY SpliceStep
<1> QED BY <1>1, <1>2, SpliceInit, NetToUsbTypes, PTL DEF Spec

-----------------------------------------------------------------------------
(* What the gate owes.  Neither property is inductive by itself: an End that *)
(* is owed must find the message it closes open, and a message refused at   *)
(* its Start must not have one.                                             *)

OwesEnd(k) == gate[k.group].abandoning /\ gate[k.group].owesEnd

\* Unless the peer was replaced, what the gate owes an End for is open, and so
\* is a message under way that is not abandoned.
DebtInv(k) ==
    unmounts = 0 => /\ OwesEnd(k) => receiver[k].msg # 0
                    /\ ~gate[k.group].abandoning /\ source[k].msg # 0 => receiver[k].msg # 0

\* What stays open has an excuse: its End found no room, or its session ended.
Excused(k) == k \in unclosed \/ receiver[k].msg \in cut

\* What stays open is owed an End, or is excused.
OwedInv(k) ==
    /\ receiver[k].msg # 0 /\ source[k].msg = 0 => OwesEnd(k) \/ Excused(k)
    /\ gate[k.group].abandoning /\ ~gate[k.group].owesEnd =>
         receiver[k].msg = 0 \/ Excused(k)

LedgerInv ==
    /\ unmounts = 0 => mounted /\ ~stray
    /\ \A k \in Keys : DebtInv(k) /\ OwedInv(k)

\* A message is begun by a sender that is idle, and gone on with by one that is
\* in the middle of it.
LEMMA PacketBegins ==
    ASSUME CountersOK, NEW k \in Keys, NEW p \in NextFrom(k)
    PROVE  /\ p.status \in {kStart, kComplete} => source[k].msg = 0
           /\ p.status \in {kContinue, kEnd} => source[k].msg # 0
           /\ p.status \in {kEnd, kComplete} => AfterSending(p).msg = 0
           /\ p.status \in {kStart, kContinue} => AfterSending(p).msg = p.msg
  <1>1. /\ kStart # kContinue /\ kStart # kEnd /\ kContinue # kEnd
        /\ kStart # kComplete /\ kContinue # kComplete /\ kEnd # kComplete
    BY DEF kStart, kContinue, kEnd, kComplete
  <1>2. source[k].msg = 0 => p.status \in {kStart, kComplete}
    BY DEF NextFrom, NextPackets, SysExPacket
  <1>3. source[k].msg # 0 => p.status \in {kContinue, kEnd}
    BY DEF NextFrom, NextPackets, SysExPacket
  <1>4. p.status \in {kEnd, kComplete} => AfterSending(p).msg = 0
    BY <1>1 DEF AfterSending, Idle
  <1>5. p.status \in {kStart, kContinue} => AfterSending(p).msg = p.msg
    BY DEF AfterSending
  <1> QED BY <1>1, <1>2, <1>3, <1>4, <1>5

\* What the gate's operators do to the debt of the packet's Group.
LEMMA DebtMeaning ==
    ASSUME CountersOK, NEW k \in Keys, NEW p \in NextFrom(k)
    PROVE  LET slot == gate[k.group] IN
           /\ p.status # kComplete =>
                 (noteRefused(gate, p)[k.group].owesEnd <=> p.status # kStart)
           /\ p.status = kComplete => noteRefused(gate, p) = gate
           /\ p.status \in {kEnd, kComplete} /\ slot.abandoning =>
                 ~AfterTerminator(gate, p)[k.group].abandoning
           /\ TerminatorDue(gate, p) <=> p.status \in {kEnd, kComplete} /\ OwesEnd(k)
  <1>1. p.group = k.group /\ IsSysEx(p) /\ k.group \in Groups /\ gate \in [Groups -> Slot]
    BY PacketFacts DEF Groups, CountersOK
  <1>2. p.status # kComplete =>
          (noteRefused(gate, p)[k.group].owesEnd <=> p.status # kStart)
    BY <1>1 DEF noteRefused
  <1>3. p.status = kComplete => noteRefused(gate, p) = gate
    BY DEF noteRefused
  <1>4. ~Forgotten(gate, k.group)[k.group].abandoning
    <2>1. gate[k.group] \in Slot
      BY <1>1
    <2> QED BY <1>1, <2>1 DEF Forgotten, Slot
  <1>5. p.status \in {kEnd, kComplete} /\ gate[k.group].abandoning =>
          ~AfterTerminator(gate, p)[k.group].abandoning
    BY <1>1, <1>4 DEF AfterTerminator, EndsSysEx
  <1>6. TerminatorDue(gate, p) <=> p.status \in {kEnd, kComplete} /\ OwesEnd(k)
    BY <1>1 DEF TerminatorDue, EndsSysEx, OwesEnd
  <1> QED BY <1>2, <1>3, <1>5, <1>6

\* The delivery of a packet keeps the ledger of its own Key.
LEMMA LedgerStep ==
    ASSUME TypeOK, SpliceInv, LedgerInv, NEW k \in Keys, NEW p \in NextFrom(k),
           \/ Unseen(k, p) \/ WritePacket(k, p)
           \/ RefusePacket(k, p) \/ SuppressPacket(k, p)
    PROVE  /\ DebtInv(k)' /\ OwedInv(k)'
           /\ unmounts' = unmounts /\ mounted' = mounted
           /\ unmounts = 0 => ~stray'
  <1> DEFINE a == receiver[k]
             n == AfterSending(p)
  <1>1. CountersOK
    BY DEF TypeOK, CountersOK
  <1>2. /\ KeyOf(p) = k /\ IsSysEx(p) /\ p.msg # 0 /\ p.status \in Status
        /\ p.status \in {kStart, kComplete} => source[k].msg = 0
        /\ p.status \in {kContinue, kEnd} => source[k].msg # 0
        /\ p.status \in {kEnd, kComplete} => n.msg = 0
        /\ p.status \in {kStart, kContinue} => n.msg # 0
    BY <1>1, PacketFacts, PacketBegins
  <1>3. source'[k] = n
    <2>1. Sends(k, p)
      BY DEF Unseen, WritePacket, RefusePacket, SuppressPacket
    <2> QED BY <2>1 DEF Sends, TypeOK
  <1>4. DebtInv(k) /\ OwedInv(k) /\ (unmounts = 0 => mounted /\ ~stray)
    BY DEF LedgerInv
  <1>5. Matches(gate[k.group], k)
    BY DEF SpliceInv, StreamInv
  <1>6. /\ suppress(gate, p) <=> gate[k.group].abandoning
        /\ ~gate[k.group].abandoning => ~noteSent(gate, p)[k.group].abandoning
        /\ p.status # kComplete => noteRefused(gate, p)[k.group].abandoning
        /\ p.status \notin {kEnd, kComplete} => AfterTerminator(gate, p) = gate
    BY <1>1, <1>5, GateMeaning
  <1>7. /\ p.status # kComplete =>
              (noteRefused(gate, p)[k.group].owesEnd <=> p.status # kStart)
        /\ p.status = kComplete => noteRefused(gate, p) = gate
        /\ p.status \in {kEnd, kComplete} /\ gate[k.group].abandoning =>
              ~AfterTerminator(gate, p)[k.group].abandoning
        /\ TerminatorDue(gate, p) <=> p.status \in {kEnd, kComplete} /\ OwesEnd(k)
    BY <1>1, DebtMeaning
  <1>8. /\ kStart # kContinue /\ kStart # kEnd /\ kContinue # kEnd
        /\ kStart # kComplete /\ kContinue # kComplete /\ kEnd # kComplete
        /\ Status = {kComplete, kStart, kContinue, kEnd}
    BY DEF kStart, kContinue, kEnd, kComplete, Status
  <1>9. unmounts' = unmounts /\ mounted' = mounted /\ cut' = cut
    BY DEF Unseen, WritePacket, RefusePacket, SuppressPacket, Sends
  <1> HIDE DEF n
  <1>10. CASE Unseen(k, p)
    <2>1. receiver[k] = Closed /\ receiver' = receiver /\ ~mounted /\ unmounts # 0
      BY <1>4, <1>10 DEF Unseen, Looked, wire, SpliceInv, GoneInv
    <2> QED BY <1>9, <2>1 DEF DebtInv, OwedInv, Closed
  <1>11. CASE RefusePacket(k, p)
    <2>1. /\ gate' = noteRefused(gate, p) /\ receiver' = receiver /\ stray' = stray
          /\ unclosed' = unclosed /\ ~gate[k.group].abandoning
      BY <1>6, <1>11 DEF RefusePacket, wire
    <2>2. DebtInv(k)'
      BY <1>2, <1>3, <1>4, <1>6, <1>7, <1>8, <1>9, <2>1 DEF DebtInv, OwesEnd
    <2>3. OwedInv(k)'
      BY <1>2, <1>3, <1>4, <1>6, <1>7, <1>8, <1>9, <2>1 DEF OwedInv, OwesEnd, Excused
    <2> QED BY <1>4, <1>9, <2>1, <2>2, <2>3
  <1>12. CASE SuppressPacket(k, p)
    <2>1. gate' = AfterTerminator(gate, p) /\ gate[k.group].abandoning
      BY <1>6, <1>12 DEF SuppressPacket
    <2>2. CASE TerminatorDue(gate, p) /\ room >= TerminatorWords
      <3>1. Write(ZeroEnd(k))
        BY <1>12, <2>2 DEF SuppressPacket
      <3>2. /\ receiver' = [receiver EXCEPT ![k] = Closed]
            /\ stray' = (stray \/ JoinsNothing(a, ZeroEnd(k)))
        BY <3>1, ZeroEndCloses DEF Write
      <3>3. receiver'[k].msg = 0
        BY <3>2 DEF TypeOK, Closed
      <3>4. unmounts = 0 => a.msg # 0
        BY <1>4, <1>7, <2>2 DEF DebtInv
      <3>5. unmounts = 0 => ~stray'
        BY <1>4, <3>2, <3>4 DEF JoinsNothing
      <3>6. ~gate'[k.group].abandoning /\ source'[k].msg = 0
        BY <1>2, <1>3, <1>7, <2>1, <2>2
      <3>7. DebtInv(k)'
        BY <3>6 DEF DebtInv, OwesEnd
      <3>8. OwedInv(k)'
        BY <3>3 DEF OwedInv
      <3> QED BY <1>9, <3>5, <3>7, <3>8
    <2>3. CASE ~(TerminatorDue(gate, p) /\ room >= TerminatorWords)
      <3>1. /\ receiver' = receiver /\ stray' = stray
            /\ unclosed' = IF TerminatorDue(gate, p) THEN unclosed \union {k} ELSE unclosed
        BY <1>12, <2>3 DEF SuppressPacket, wire
      <3>2. CASE p.status \in {kEnd, kComplete}
        <4>1. ~gate'[k.group].abandoning /\ source'[k].msg = 0
          BY <1>2, <1>3, <1>7, <2>1, <3>2
        <4>2. DebtInv(k)'
          BY <4>1 DEF DebtInv, OwesEnd
        <4>3. receiver[k].msg = 0 \/ k \in unclosed' \/ receiver[k].msg \in cut
          BY <1>4, <1>7, <2>1, <3>1, <3>2 DEF OwedInv, OwesEnd, Excused
        <4>4. OwedInv(k)'
          BY <1>9, <3>1, <4>3 DEF OwedInv, Excused
        <4> QED BY <1>4, <1>9, <3>1, <4>2, <4>4
      <3>3. CASE p.status \notin {kEnd, kComplete}
        <4>1. gate' = gate /\ unclosed' = unclosed /\ source'[k].msg # 0
          BY <1>2, <1>3, <1>6, <1>7, <1>8, <2>1, <3>1, <3>3
        <4>2. DebtInv(k)'
          BY <1>4, <1>9, <2>1, <3>1, <4>1 DEF DebtInv, OwesEnd
        <4>3. OwedInv(k)'
          BY <1>4, <1>9, <3>1, <4>1 DEF OwedInv, OwesEnd, Excused
        <4> QED BY <1>4, <1>9, <3>1, <4>2, <4>3
      <3> QED BY <3>2, <3>3
    <2> QED BY <2>2, <2>3
  <1>13. CASE WritePacket(k, p)
    <2>1. ~gate[k.group].abandoning /\ ~gate'[k.group].abandoning
      BY <1>6, <1>13 DEF WritePacket
    <2>2. /\ receiver' = [receiver EXCEPT ![k] = Assemble(a, p)]
          /\ stray' = (stray \/ JoinsNothing(a, p))
      BY <1>2, <1>13 DEF WritePacket, Write
    <2>3. receiver'[k] = Assemble(a, p)
      BY <2>2 DEF TypeOK
    <2>4. unmounts = 0 /\ p.status \in {kContinue, kEnd} => a.msg # 0
      BY <1>2, <1>4, <2>1 DEF DebtInv
    <2>5. unmounts = 0 => ~stray'
      BY <1>4, <2>2, <2>4 DEF JoinsNothing
    <2>6. p.status \in {kEnd, kComplete} => Assemble(a, p).msg = 0
      BY <1>8 DEF Assemble, Closed
    <2>7. p.status = kStart => Assemble(a, p).msg # 0
      BY <1>2 DEF Assemble
    <2>8. p.status = kContinue /\ a.msg # 0 => Assemble(a, p).msg # 0
      BY <1>8 DEF Assemble
    <2> HIDE DEF a
    <2>9. DebtInv(k)'
      BY <1>2, <1>3, <1>8, <1>9, <2>1, <2>3, <2>4, <2>7, <2>8 DEF DebtInv, OwesEnd
    <2>10. OwedInv(k)'
      BY <1>2, <1>3, <1>8, <2>1, <2>3, <2>6 DEF OwedInv
    <2> QED BY <1>9, <2>5, <2>9, <2>10
  <1> QED BY <1>10, <1>11, <1>12, <1>13

\* A step that leaves a stream's slot and sender alone keeps its ledger, and so
\* does the loss of the peer.
LEMMA LedgerKept ==
    ASSUME NEW j \in Keys, DebtInv(j), OwedInv(j), gate'[j.group] = gate[j.group],
           source'[j] = source[j], j \in unclosed' <=> j \in unclosed, cut' = cut,
           \/ receiver'[j] = receiver[j] /\ unmounts' = unmounts
           \/ receiver'[j] = Closed /\ unmounts' # 0
    PROVE  DebtInv(j)' /\ OwedInv(j)'
  <1>1. CASE receiver'[j] = receiver[j] /\ unmounts' = unmounts
    BY <1>1 DEF DebtInv, OwedInv, OwesEnd, Excused
  <1>2. CASE receiver'[j] = Closed /\ unmounts' # 0
    BY <1>2 DEF DebtInv, OwedInv, Closed
  <1> QED BY <1>1, <1>2

LEMMA LedgerOthers ==
    ASSUME TypeOK, LedgerInv, OneStreamPerGroup,
           NEW k \in Keys, NEW p \in NextFrom(k), NEW j \in Keys, j # k,
           \/ Unseen(k, p) \/ WritePacket(k, p)
           \/ RefusePacket(k, p) \/ SuppressPacket(k, p)
    PROVE  DebtInv(j)' /\ OwedInv(j)'
  <1>1. CountersOK /\ gate \in [Groups -> Slot]
    BY DEF TypeOK, CountersOK
  <1>2. j.group \in Groups /\ j.group # k.group
    BY DEF OneStreamPerGroup, Groups
  <1>3. gate'[j.group] = gate[j.group]
    BY <1>1, <1>2, GateTypes DEF Unseen, WritePacket, RefusePacket, SuppressPacket
  <1>4. Sends(k, p) /\ unmounts' = unmounts
    BY DEF Unseen, WritePacket, RefusePacket, SuppressPacket
  <1>5. source'[j] = source[j]
    BY <1>4 DEF Sends, TypeOK
  <1>6. KeyOf(p) = k /\ KeyOf(ZeroEnd(k)) = k
    BY <1>1, PacketFacts, ZeroEndCloses
  <1>7. receiver'[j] = receiver[j]
    <2>1. ASSUME NEW q, Write(q), KeyOf(q) = k
          PROVE  receiver'[j] = receiver[j]
      BY <2>1 DEF Write, wire, TypeOK
    <2> QED BY <1>6, <2>1 DEF Unseen, WritePacket, RefusePacket, SuppressPacket, wire
  <1>8. (j \in unclosed' <=> j \in unclosed) /\ cut' = cut
    BY DEF Unseen, WritePacket, RefusePacket, SuppressPacket, verdict, Sends
  <1>9. DebtInv(j) /\ OwedInv(j)
    BY DEF LedgerInv
  <1> QED BY <1>3, <1>4, <1>5, <1>7, <1>8, <1>9, LedgerKept

\* The end of a session leaves open only what is owed its End or excused: what was
\* under way, and not abandoned, is now cut.
LEMMA LedgerCut ==
    ASSUME TypeOK, SpliceInv, LedgerInv, SessionEnds PROVE LedgerInv'
<1>1. /\ UNCHANGED <<gate, receiver, unclosed, unmounts, mounted, stray>>
      /\ \A j \in Keys : source'[j].msg = 0
      /\ cut \subseteq cut' /\ \A j \in Keys : source[j].msg # 0 => source[j].msg \in cut'
  BY DEF SessionEnds, Idle, wire, verdict
<1>2. ASSUME NEW j \in Keys PROVE DebtInv(j)' /\ OwedInv(j)'
  <2>1. DebtInv(j) /\ OwedInv(j) /\ InStep(j)
    BY DEF LedgerInv, SpliceInv, StreamInv
  <2>2. DebtInv(j)'
    BY <1>1, <2>1 DEF DebtInv, OwesEnd
  <2>3. gate[j.group].abandoning /\ ~gate[j.group].owesEnd =>
          receiver[j].msg = 0 \/ j \in unclosed \/ receiver[j].msg \in cut'
    BY <1>1, <2>1 DEF OwedInv, Excused
  <2>4. receiver[j].msg # 0 => OwesEnd(j) \/ j \in unclosed \/ receiver[j].msg \in cut'
    <3>1. CASE source[j].msg = 0
      BY <1>1, <2>1, <3>1 DEF OwedInv, Excused
    <3>2. CASE source[j].msg # 0 /\ ~gate[j.group].abandoning
      BY <1>1, <2>1, <3>2 DEF InStep
    <3>3. CASE gate[j.group].abandoning
      BY <2>3, <3>3 DEF OwesEnd
    <3> QED BY <3>1, <3>2, <3>3
  <2>5. OwedInv(j)'
    BY <1>1, <2>3, <2>4 DEF OwedInv, OwesEnd, Excused
  <2> QED BY <2>2, <2>5
<1> QED BY <1>1, <1>2 DEF LedgerInv

LEMMA LedgerNext ==
    ASSUME TypeOK, SpliceInv, LedgerInv, OneStreamPerGroup, [Next]_vars PROVE LedgerInv'
<1>1. ASSUME NEW k \in Keys, NEW p \in NextFrom(k),
             \/ Unseen(k, p) \/ WritePacket(k, p)
             \/ RefusePacket(k, p) \/ SuppressPacket(k, p)
      PROVE  LedgerInv'
  <2>1. \A j \in Keys : DebtInv(j)' /\ OwedInv(j)'
    BY <1>1, LedgerStep, LedgerOthers
  <2>2. unmounts' = unmounts /\ mounted' = mounted /\ (unmounts = 0 => ~stray')
    BY <1>1, LedgerStep
  <2> QED BY <2>1, <2>2 DEF LedgerInv
<1>2. ASSUME UNCHANGED <<gate, source, unclosed, cut, receiver, unmounts, stray>>, mounted' \/ mounted' = mounted
      PROVE  LedgerInv'
  BY <1>2, LedgerKept DEF LedgerInv
<1>3. ASSUME NEW mt \in OtherTypes, OtherTraffic(mt) PROVE LedgerInv'
  <2>1. ~IsSysEx(OtherPacket(mt))
    BY NetToUsbAssumption DEF IsSysEx, OtherPacket
  <2>2. UNCHANGED <<gate, source, unclosed, cut, receiver, unmounts, stray>> /\ mounted' = mounted
    BY <1>3, <2>1 DEF OtherTraffic, Write, wire, sender, verdict
  <2> QED BY <1>2, <2>2
<1>4. CASE UsbTakes \/ Mount \/ UNCHANGED vars
  <2>1. UNCHANGED <<gate, source, unclosed, cut, receiver, unmounts, stray>>
        /\ (mounted' \/ mounted' = mounted)
    BY <1>4 DEF UsbTakes, Mount, vars, sender, wire, verdict
  <2> QED BY <1>2, <2>1
<1>5. CASE Unmount
  <2>1. unmounts' # 0
    BY <1>5 DEF Unmount, TypeOK
  <2>2. /\ UNCHANGED <<gate, source, unclosed, cut>>
        /\ \A j \in Keys : receiver'[j] = Closed
    BY <1>5 DEF Unmount, sender, verdict
  <2>3. \A j \in Keys : DebtInv(j)' /\ OwedInv(j)'
    BY <2>1, <2>2, LedgerKept DEF LedgerInv
  <2> QED BY <2>1, <2>3 DEF LedgerInv
<1>6. CASE SessionEnds
  BY <1>6, LedgerCut
<1> QED BY <1>1, <1>3, <1>4, <1>5, <1>6 DEF Next, SysExDelivery

LEMMA LedgerInit == Init => LedgerInv
  BY DEF Init, LedgerInv, DebtInv, OwedInv, OwesEnd, Groups, EmptySlot, Closed, Idle

(* The inductive invariant of the two theorems that follow.                 *)
LEMMA LedgerHolds ==
    ASSUME OneStreamPerGroup PROVE Spec => []LedgerInv
<1>1. TypeOK /\ SpliceInv /\ LedgerInv /\ [Next]_vars => SpliceInv' /\ LedgerInv'
  BY SpliceStep, LedgerNext
<1> QED BY <1>1, SpliceInit, LedgerInit, NetToUsbTypes, PTL DEF Spec

\* Unless the peer was replaced, every Continue and every End, the zero-length
\* ones included, finds a message open: the gate owes an End to what it has seen
\* begun, and to nothing else.
THEOREM GateWritesNothingStray ==
    ASSUME OneStreamPerGroup PROVE Spec => []NothingStray
<1>1. LedgerInv => NothingStray
  BY DEF LedgerInv, NothingStray
<1> QED BY <1>1, LedgerHolds, PTL

\* A message that its sender is no longer in the middle of is left open at the
\* receiver only while the gate owes its End, or when that End found no room or its
\* session ended first, across replugs and sessions.
THEOREM GateLeavesOpenOnlyOwed ==
    ASSUME OneStreamPerGroup PROVE Spec => []OpenOnlyWhileOwed
<1>1. LedgerInv => OpenOnlyWhileOwed
  BY DEF LedgerInv, OwedInv, OwesEnd, Excused, OpenOnlyWhileOwed
<1> QED BY <1>1, LedgerHolds, PTL

-----------------------------------------------------------------------------
(* How much is lost.  The inequality is not inductive: it is carried by one *)
(* that also counts the Groups left abandoned with nothing more to come.    *)

(* Messages are told apart by their numbers.                                *)

Sets == suppressed \union refused \union endRefused \union cut

Numbered ==
    /\ \A k \in Keys : source[k].msg <= messages
    /\ \A m \in Sets : m <= messages
    /\ \A j, k \in Keys : j # k /\ source[j].msg # 0 => source[j].msg # source[k].msg
    /\ \A k \in Keys : source[k].msg # 0 => source[k].msg \notin endRefused \union cut

\* A packet carries the number of the message its sender is in the middle of, or
\* the next one, and no other message under way has it.
LEMMA PacketNumber ==
    ASSUME TypeOK, Numbered, NEW k \in Keys, NEW p \in NextFrom(k), Sends(k, p)
    PROVE  /\ p.msg \in Nat \ {0} /\ p.msg <= messages' /\ messages <= messages'
           /\ messages' \in Nat
           /\ p.msg \notin endRefused /\ p.msg \notin cut /\ cut' = cut
           /\ source' = [source EXCEPT ![k] = AfterSending(p)]
           /\ AfterSending(p).msg \in {0, p.msg}
           /\ \A j \in Keys : j # k => source[j].msg # p.msg
           /\ source[k].msg # 0 => p.msg = source[k].msg
           /\ source[k].msg = 0 => p.msg = messages + 1
  <1>1. CountersOK /\ messages \in Nat /\ source[k] \in [msg : Nat, part : Nat]
    BY DEF TypeOK, CountersOK
  <1>2. p.msg \in Nat \ {0} /\ AfterSending(p).msg \in {0, p.msg}
    BY <1>1, PacketFacts
  <1>3. source' = [source EXCEPT ![k] = AfterSending(p)] /\ cut' = cut
    BY DEF Sends
  <1>4. CASE source[k].msg = 0
    <2>1. p.msg = messages + 1
      BY <1>4 DEF NextFrom, NextPackets, SysExPacket
    <2>2. messages' = messages + 1
      BY <1>4 DEF Sends
    <2>3. p.msg \notin endRefused /\ p.msg \notin cut
      BY <1>1, <2>1 DEF Numbered, Sets
    <2>4. \A j \in Keys : source[j].msg # p.msg
      <3>1. \A j \in Keys : source[j].msg \in Nat /\ source[j].msg <= messages
        BY DEF Numbered, TypeOK
      <3> QED BY <1>1, <2>1, <3>1
    <2> QED BY <1>1, <1>2, <1>3, <1>4, <2>1, <2>2, <2>3, <2>4
  <1>5. CASE source[k].msg # 0
    <2>1. p.msg = source[k].msg
      BY <1>5 DEF NextFrom, NextPackets, SysExPacket
    <2>2. messages' = messages
      BY <1>5 DEF Sends
    <2>3. p.msg \notin endRefused /\ p.msg \notin cut /\ p.msg <= messages
      BY <1>5, <2>1 DEF Numbered
    <2>4. \A j \in Keys : j # k => source[j].msg # p.msg
      BY <1>5, <2>1 DEF Numbered
    <2> QED BY <1>1, <1>2, <1>3, <1>5, <2>1, <2>2, <2>3, <2>4
  <1> QED BY <1>4, <1>5

LEMMA NumberedStep ==
    ASSUME TypeOK, Numbered, NEW k \in Keys, NEW p \in NextFrom(k),
           \/ Unseen(k, p) \/ WritePacket(k, p)
           \/ RefusePacket(k, p) \/ SuppressPacket(k, p)
    PROVE  Numbered'
  <1> DEFINE n == AfterSending(p)
  <1>1. Sends(k, p)
    BY DEF Unseen, WritePacket, RefusePacket, SuppressPacket
  <1>2. /\ p.msg \in Nat \ {0} /\ p.msg <= messages' /\ messages <= messages'
        /\ messages' \in Nat /\ messages \in Nat
        /\ p.msg \notin endRefused /\ p.msg \notin cut /\ cut' = cut
        /\ source' = [source EXCEPT ![k] = n]
        /\ n.msg \in {0, p.msg}
        /\ \A j \in Keys : j # k => source[j].msg # p.msg
    BY <1>1, PacketNumber DEF TypeOK
  <1>3. source'[k] = n /\ \A j \in Keys : j # k => source'[j] = source[j]
    BY <1>2 DEF TypeOK
  <1>4. \A m \in Sets' : m \in Sets \/ m = p.msg
    BY <1>2 DEF Unseen, WritePacket, RefusePacket, SuppressPacket, verdict, Sets
  <1>5. /\ \A m \in endRefused' : m \in endRefused \/ m = p.msg
        /\ n.msg # 0 => p.msg \notin endRefused'
    <2>1. CASE RefusePacket(k, p) /\ p.status = kEnd
      <3>1. endRefused' = endRefused \union {p.msg}
        BY <2>1 DEF RefusePacket
      <3>2. n.msg = 0
        BY <2>1, PacketBegins DEF TypeOK, CountersOK
      <3> QED BY <3>1, <3>2
    <2>2. CASE ~(RefusePacket(k, p) /\ p.status = kEnd)
      <3>1. endRefused' = endRefused
        BY <2>2 DEF Unseen, WritePacket, RefusePacket, SuppressPacket, verdict
      <3> QED BY <1>2, <3>1
    <2> QED BY <2>1, <2>2
  <1> HIDE DEF n
  <1>6. \A j \in Keys : source[j].msg \in Nat /\ source[j].msg <= messages
    BY DEF Numbered, TypeOK
  <1>7. \A m \in Sets : m \in Nat /\ m <= messages
    BY DEF Numbered, TypeOK, Sets
  <1>8. \A j \in Keys : source'[j].msg <= messages'
    <2> TAKE j \in Keys
    <2>1. CASE j = k
      BY <1>2, <1>3, <2>1
    <2>2. CASE j # k
      BY <1>2, <1>3, <1>6, <2>2
    <2> QED BY <2>1, <2>2
  <1>9. \A m \in Sets' : m <= messages'
    BY <1>2, <1>4, <1>7
  <1>10. \A i, j \in Keys : i # j /\ source'[i].msg # 0 => source'[i].msg # source'[j].msg
    <2> SUFFICES ASSUME NEW i \in Keys, NEW j \in Keys, i # j, source'[i].msg # 0
                 PROVE  source'[i].msg # source'[j].msg
      OBVIOUS
    <2>1. CASE i = k
      BY <1>2, <1>3, <2>1
    <2>2. CASE j = k
      BY <1>2, <1>3, <2>2
    <2>3. CASE i # k /\ j # k
      BY <1>3, <2>3 DEF Numbered
    <2> QED BY <2>1, <2>2, <2>3
  <1>11. \A j \in Keys : source'[j].msg # 0 => source'[j].msg \notin endRefused' \union cut'
    <2> SUFFICES ASSUME NEW j \in Keys, source'[j].msg # 0
                 PROVE  source'[j].msg \notin endRefused' \union cut'
      OBVIOUS
    <2>1. CASE j = k
      BY <1>2, <1>3, <1>5, <2>1
    <2>2. CASE j # k
      BY <1>2, <1>3, <1>5, <2>2 DEF Numbered
    <2> QED BY <2>1, <2>2
  <1> QED BY <1>8, <1>9, <1>10, <1>11 DEF Numbered

\* The end of a session makes the messages under way those that are cut.
LEMMA NumberedCut ==
    ASSUME TypeOK, Numbered, SessionEnds PROVE Numbered'
  <1>1. /\ \A k \in Keys : source'[k].msg = 0
        /\ UNCHANGED <<messages, suppressed, refused, endRefused>>
        /\ \A m \in cut' : m \in cut \/ \E k \in Keys : m = source[k].msg
    BY DEF SessionEnds, Idle, verdict
  <1>2. \A m \in Sets' : m <= messages'
    BY <1>1 DEF Numbered, Sets
  <1>3. 0 <= messages'
    BY <1>1 DEF TypeOK
  <1> QED BY <1>1, <1>2, <1>3 DEF Numbered

-----------------------------------------------------------------------------
(* What the gate may still keep back.  LossIsBounded is not inductive: a     *)
(* message refused at its End, or cut off when it has lost something, leaves *)
(* its Group abandoned with its sender idle, and the loss comes later.      *)

Heeded == DropsUnmounted => unmounts = 0
Lost   == suppressed \ refused

\* The Groups whose next message will lose packets for nothing of its own.
Owing == {g \in Groups : \E k \in Keys : k.group = g /\ gate[g].abandoning /\ source[k].msg = 0}

\* A message under way that is abandoned has lost something already.
Known(k) ==
    gate[k.group].abandoning /\ source[k].msg # 0 => source[k].msg \in refused \union suppressed

Tally ==
    Heeded =>
        /\ Cardinality(Lost) + Cardinality(Owing) <= Cardinality(LeftArmed)
        /\ \A k \in Keys : Known(k)

LEMMA OwingMeans ==
    ASSUME OneStreamPerGroup, NEW k \in Keys
    PROVE  k.group \in Owing <=> gate[k.group].abandoning /\ source[k].msg = 0
  BY DEF OneStreamPerGroup, Owing, Groups

LEMMA Finite ==
    ASSUME TypeOK, Numbered
    PROVE  /\ IsFiniteSet(Lost) /\ IsFiniteSet(LeftArmed) /\ IsFiniteSet(Owing)
           /\ Cardinality(Lost) \in Nat /\ Cardinality(LeftArmed) \in Nat
           /\ Cardinality(Owing) \in Nat
  <1>1. messages \in Nat
    BY DEF TypeOK
  <1>2. Lost \in SUBSET (0 .. messages) /\ LeftArmed \in SUBSET (0 .. messages)
    BY DEF TypeOK, Numbered, Sets, Lost, LeftArmed
  <1>3. IsFiniteSet(0 .. messages) /\ IsFiniteSet(0 .. 15)
    <2>1. 0 \in Int /\ 15 \in Int /\ messages \in Int
      BY <1>1
    <2>2. IsFiniteSet(0 .. messages)
      BY <2>1, FS_Interval, Zenon
    <2>3. IsFiniteSet(0 .. 15)
      BY <2>1, FS_Interval, Zenon
    <2> QED BY <2>2, <2>3
  <1>4. Owing \in SUBSET (0 .. 15)
    BY NetToUsbAssumption DEF Owing, Groups, Key
  <1>5. IsFiniteSet(Lost) /\ IsFiniteSet(LeftArmed) /\ IsFiniteSet(Owing)
    BY <1>2, <1>3, <1>4, FS_Subset
  <1> QED BY <1>5, FS_CardinalityType

LEMMA OneMore ==
    ASSUME NEW S, NEW x, IsFiniteSet(S)
    PROVE  /\ IsFiniteSet(S \union {x}) /\ Cardinality(S \union {x}) \in Nat
           /\ Cardinality(S \union {x}) <= Cardinality(S) + 1
  <1>1. /\ IsFiniteSet(S \union {x})
        /\ Cardinality(S \union {x}) = IF x \in S THEN Cardinality(S) ELSE Cardinality(S) + 1
    BY FS_AddElement, Zenon
  <1>2. Cardinality(S) \in Nat
    BY FS_CardinalityType, Zenon
  <1>3. Cardinality(S \union {x}) \in Nat
    BY <1>1, FS_CardinalityType, Zenon
  <1>4. Cardinality(S \union {x}) <= Cardinality(S) + 1
    BY <1>1, <1>2
  <1> QED BY <1>1, <1>3, <1>4

\* What a step does to the three sets is one of four things.
LEMMA TallyArithmetic ==
    ASSUME TypeOK, TypeOK', Numbered, Numbered', NEW g, NEW m,
           Cardinality(Lost) + Cardinality(Owing) <= Cardinality(LeftArmed),
           \/ Lost' \subseteq Lost /\ Owing' = Owing /\ LeftArmed' = LeftArmed
           \/ /\ Lost' \subseteq Lost /\ Owing' \subseteq Owing \union {g}
              /\ m \notin LeftArmed /\ LeftArmed' = LeftArmed \union {m}
           \/ /\ Lost' \subseteq Lost \union {m}
              /\ g \in Owing /\ Owing' = Owing \ {g} /\ LeftArmed' = LeftArmed
    PROVE  Cardinality(Lost') + Cardinality(Owing') <= Cardinality(LeftArmed')
  <1>1. /\ IsFiniteSet(Lost) /\ IsFiniteSet(LeftArmed) /\ IsFiniteSet(Owing)
        /\ Cardinality(Lost) \in Nat /\ Cardinality(LeftArmed) \in Nat
        /\ Cardinality(Owing) \in Nat
    BY Finite
  <1>2. /\ IsFiniteSet(Lost') /\ IsFiniteSet(LeftArmed') /\ IsFiniteSet(Owing')
        /\ Cardinality(Lost') \in Nat /\ Cardinality(LeftArmed') \in Nat
        /\ Cardinality(Owing') \in Nat
    <2>1. (TypeOK /\ Numbered => 
             /\ IsFiniteSet(Lost) /\ IsFiniteSet(LeftArmed) /\ IsFiniteSet(Owing)
             /\ Cardinality(Lost) \in Nat /\ Cardinality(LeftArmed) \in Nat
             /\ Cardinality(Owing) \in Nat)'
      BY Finite, PTL
    <2> QED BY <2>1
  <1>3. Lost' \subseteq Lost => Cardinality(Lost') <= Cardinality(Lost)
    BY <1>1, FS_Subset
  <1>4. CASE Lost' \subseteq Lost /\ Owing' = Owing /\ LeftArmed' = LeftArmed
    BY <1>1, <1>2, <1>3, <1>4
  <1>5. CASE /\ Lost' \subseteq Lost /\ Owing' \subseteq Owing \union {g}
             /\ m \notin LeftArmed /\ LeftArmed' = LeftArmed \union {m}
    <2>1. IsFiniteSet(Owing \union {g}) /\ Cardinality(Owing \union {g}) <= Cardinality(Owing) + 1
          /\ Cardinality(Owing \union {g}) \in Nat
      BY <1>1, OneMore
    <2>2. Cardinality(Owing') <= Cardinality(Owing \union {g})
      BY <1>5, <2>1, FS_Subset
    <2>3. Cardinality(LeftArmed') = Cardinality(LeftArmed) + 1
      BY <1>1, <1>5, FS_AddElement
    <2> QED BY <1>1, <1>2, <1>3, <1>5, <2>1, <2>2, <2>3
  <1>6. CASE /\ Lost' \subseteq Lost \union {m}
             /\ g \in Owing /\ Owing' = Owing \ {g} /\ LeftArmed' = LeftArmed
    <2>1. IsFiniteSet(Lost \union {m}) /\ Cardinality(Lost \union {m}) <= Cardinality(Lost) + 1
          /\ Cardinality(Lost \union {m}) \in Nat
      BY <1>1, OneMore
    <2>2. Cardinality(Lost') <= Cardinality(Lost \union {m})
      BY <1>6, <2>1, FS_Subset
    <2>3. Cardinality(Owing') = Cardinality(Owing) - 1
      BY <1>1, <1>6, FS_RemoveElement
    <2> QED BY <1>1, <1>2, <1>6, <2>1, <2>2, <2>3
  <1> QED BY <1>4, <1>5, <1>6

-----------------------------------------------------------------------------
(* One packet.                                                              *)

LEMMA TallyStep ==
    ASSUME TypeOK, TypeOK', SpliceInv, LedgerInv, Numbered, Numbered', Tally,
           OneStreamPerGroup, NEW k \in Keys, NEW p \in NextFrom(k),
           \/ Unseen(k, p) \/ WritePacket(k, p)
           \/ RefusePacket(k, p) \/ SuppressPacket(k, p)
    PROVE  Tally'
  <1> DEFINE n == AfterSending(p)
             g == k.group
  <1>1. /\ Sends(k, p) /\ unmounts' = unmounts /\ build' = build
        /\ source' = [source EXCEPT ![k] = n]
    BY DEF Unseen, WritePacket, RefusePacket, SuppressPacket, Sends
  <1>2. CountersOK /\ gate \in [Groups -> Slot]
    BY DEF TypeOK, CountersOK
  <1>3. /\ p.status \in Status /\ p.msg \notin endRefused
        /\ n.msg \in {0, p.msg} /\ (source[k].msg # 0 => p.msg = source[k].msg)
        /\ p.msg \notin cut /\ cut' = cut
        /\ p.status \in {kStart, kComplete} => source[k].msg = 0
        /\ p.status \in {kContinue, kEnd} => source[k].msg # 0
        /\ p.status \in {kEnd, kComplete} => n.msg = 0
        /\ p.status \in {kStart, kContinue} => n.msg = p.msg
        /\ p.msg # 0
    BY <1>1, <1>2, PacketFacts, PacketBegins, PacketNumber
  <1>4. source'[k] = n /\ \A j \in Keys : j # k => source'[j] = source[j]
    BY <1>1 DEF TypeOK
  <1>5. \A h \in Groups : h # g => gate'[h] = gate[h]
    BY <1>2, GateTypes DEF Unseen, WritePacket, RefusePacket, SuppressPacket
  <1>6. \A j \in Keys : j # k => j.group # g /\ j.group \in Groups
    BY DEF OneStreamPerGroup, Groups
  <1>7. g \in Groups
    BY DEF Groups
  <1> HIDE DEF n, g
  <1>8. g \in Owing <=> gate[g].abandoning /\ source[k].msg = 0
    BY OwingMeans DEF g
  <1>9. g \in Owing' <=> gate'[g].abandoning /\ n.msg = 0
    BY <1>4, <1>6, <1>7 DEF Owing, g
  <1>10. Owing' \ {g} = Owing \ {g}
    <2>1. ASSUME NEW h, h # g PROVE h \in Owing' <=> h \in Owing
      BY <1>4, <1>5, <2>1 DEF Owing, g
    <2> QED BY <2>1
  <1>11. SUFFICES ASSUME Heeded' PROVE Tally'
    BY DEF Tally
  <1>12. Heeded /\ Looked
    <2>1. Heeded
      BY <1>1, <1>11 DEF Heeded, DropsUnmounted
    <2> QED BY <2>1 DEF Heeded, LedgerInv, Looked
  <1>13. /\ Cardinality(Lost) + Cardinality(Owing) <= Cardinality(LeftArmed)
         /\ \A j \in Keys : Known(j)
    BY <1>12 DEF Tally
  <1>14. \A j \in Keys : j # k => Known(j)'
    <2>1. refused \union suppressed \subseteq refused' \union suppressed'
      BY DEF Unseen, WritePacket, RefusePacket, SuppressPacket, verdict
    <2> QED BY <1>4, <1>5, <1>6, <1>13, <2>1 DEF Known
  <1>15. Matches(gate[g], k)
    BY DEF SpliceInv, StreamInv, g
  <1>16. /\ suppress(gate, p) <=> gate[g].abandoning
         /\ ~gate[g].abandoning => ~noteSent(gate, p)[g].abandoning
         /\ p.status # kComplete => noteRefused(gate, p)[g].abandoning
         /\ p.status \notin {kEnd, kComplete} => AfterTerminator(gate, p) = gate
         /\ p.status = kComplete => noteRefused(gate, p) = gate
         /\ p.status \in {kEnd, kComplete} /\ gate[g].abandoning =>
               ~AfterTerminator(gate, p)[g].abandoning
    BY <1>2, <1>15, GateMeaning, DebtMeaning DEF g
  <1>17. /\ kStart # kContinue /\ kStart # kEnd /\ kContinue # kEnd
         /\ kStart # kComplete /\ kContinue # kComplete /\ kEnd # kComplete
         /\ Status = {kComplete, kStart, kContinue, kEnd}
    BY DEF kStart, kContinue, kEnd, kComplete, Status
  <1>23. /\ p.msg \notin LeftArmed
         /\ LeftArmed' = endRefused' \union (cut \intersect (refused \union suppressed))
    <2>1. /\ refused \union suppressed \subseteq refused' \union suppressed'
          /\ refused' \union suppressed' \subseteq refused \union suppressed \union {p.msg}
      BY DEF Unseen, WritePacket, RefusePacket, SuppressPacket, verdict
    <2> QED BY <1>3, <2>1 DEF LeftArmed
  <1>24. /\ endRefused' = endRefused => LeftArmed' = LeftArmed
         /\ endRefused' = endRefused \union {p.msg} => LeftArmed' = LeftArmed \union {p.msg}
    BY <1>23 DEF LeftArmed
  <1>18. SUFFICES /\ \/ Lost' \subseteq Lost /\ Owing' = Owing /\ endRefused' = endRefused
                     \/ /\ Lost' \subseteq Lost /\ Owing' \subseteq Owing \union {g}
                        /\ p.msg \notin endRefused /\ endRefused' = endRefused \union {p.msg}
                     \/ /\ Lost' \subseteq Lost \union {p.msg}
                        /\ g \in Owing /\ Owing' = Owing \ {g} /\ endRefused' = endRefused
                  /\ gate'[g].abandoning /\ n.msg # 0 => p.msg \in refused' \union suppressed'
    <2>1. Cardinality(Lost') + Cardinality(Owing') <= Cardinality(LeftArmed')
      BY <1>13, <1>18, <1>23, <1>24, TallyArithmetic
    <2>2. Known(k)'
      BY <1>3, <1>4, <1>18 DEF Known, g
    <2> QED BY <1>14, <2>1, <2>2 DEF Tally
  <1>19. ~Unseen(k, p)
    BY <1>12 DEF Unseen
  <1>20. CASE WritePacket(k, p)
    <2>1. ~gate[g].abandoning /\ ~gate'[g].abandoning
      BY <1>16, <1>20 DEF WritePacket
    <2>2. Lost' = Lost /\ endRefused' = endRefused
      BY <1>20 DEF WritePacket, Lost
    <2>3. Owing' = Owing
      BY <1>8, <1>9, <1>10, <2>1
    <2> QED BY <2>1, <2>2, <2>3
  <1>21. CASE RefusePacket(k, p)
    <2>1. /\ ~gate[g].abandoning /\ gate' = noteRefused(gate, p)
          /\ refused' = refused \union {p.msg} /\ suppressed' = suppressed
          /\ endRefused' = IF p.status = kEnd THEN endRefused \union {p.msg} ELSE endRefused
      BY <1>16, <1>21 DEF RefusePacket
    <2>2. Lost' \subseteq Lost
      BY <2>1 DEF Lost
    <2>3. CASE p.status = kEnd
      <3>1. Owing' \subseteq Owing \union {g}
        BY <1>10
      <3> QED BY <1>3, <2>1, <2>2, <2>3, <3>1
    <2>4. CASE p.status # kEnd
      <3>1. ~(gate'[g].abandoning /\ n.msg = 0)
        BY <1>3, <1>16, <1>17, <2>1, <2>4
      <3>2. Owing' = Owing
        BY <1>8, <1>9, <1>10, <2>1, <3>1
      <3> QED BY <2>1, <2>2, <2>4, <3>2
    <2> QED BY <2>3, <2>4
  <1>22. CASE SuppressPacket(k, p)
    <2>1. /\ gate[g].abandoning /\ gate' = AfterTerminator(gate, p)
          /\ suppressed' = suppressed \union {p.msg}
          /\ refused' = refused /\ endRefused' = endRefused
      BY <1>16, <1>22 DEF SuppressPacket
    <2>2. ~(gate'[g].abandoning /\ n.msg = 0)
      BY <1>3, <1>16, <1>17, <2>1
    <2>3. CASE source[k].msg = 0
      <3>1. g \in Owing /\ Owing' = Owing \ {g}
        BY <1>8, <1>9, <1>10, <2>1, <2>2, <2>3
      <3>2. Lost' \subseteq Lost \union {p.msg}
        BY <2>1 DEF Lost
      <3> QED BY <2>1, <3>1, <3>2
    <2>4. CASE source[k].msg # 0
      <3>1. Owing' = Owing
        BY <1>8, <1>9, <1>10, <2>2, <2>4
      <3>2. p.msg \in refused \union suppressed
        BY <1>3, <1>13, <2>1, <2>4 DEF Known, g
      <3>3. Lost' \subseteq Lost
        BY <2>1, <3>2 DEF Lost
      <3> QED BY <2>1, <3>1, <3>3
    <2> QED BY <2>3, <2>4
  <1> QED BY <1>19, <1>20, <1>21, <1>22

-----------------------------------------------------------------------------
(* The theorem.                                                             *)

\* Two streams' messages are two messages, on two Groups.
LEMMA GroupsArmed ==
    ASSUME TypeOK, Numbered, NEW A, A \subseteq Keys,
           \A k \in A : source[k].msg # 0
    PROVE  LET M == {source[k].msg : k \in A}
               G == {k.group : k \in A}
           IN  /\ IsFiniteSet(M) /\ IsFiniteSet(G)
               /\ Cardinality(M) \in Nat /\ Cardinality(G) \in Nat
               /\ Cardinality(G) <= Cardinality(M)
  <1> DEFINE M == {source[k].msg : k \in A}
             G == {k.group : k \in A}
             Of(m) == CHOOSE k \in A : source[k].msg = m
             f == [m \in M |-> Of(m).group]
  <1>1. IsFiniteSet(M)
    <2>1. M \in SUBSET (0 .. messages)
      BY DEF TypeOK, Numbered
    <2>2. IsFiniteSet(0 .. messages)
      <3>1. 0 \in Int /\ messages \in Int
        BY DEF TypeOK
      <3> QED BY <3>1, FS_Interval, Zenon
    <2> QED BY <2>1, <2>2, FS_Subset
  <1>2. \A k \in A : Of(source[k].msg) = k
    <2> SUFFICES ASSUME NEW k \in A PROVE Of(source[k].msg) = k
      OBVIOUS
    <2>1. Of(source[k].msg) \in A /\ source[Of(source[k].msg)].msg = source[k].msg
      OBVIOUS
    <2> HIDE DEF Of
    <2> QED BY <2>1 DEF Numbered
  <1>3. \A m \in M : Of(m) \in A
    OBVIOUS
  <1>4. f \in [M -> G] /\ \A g \in G : \E m \in M : f[m] = g
    <2> HIDE DEF Of
    <2> QED BY <1>2, <1>3
  <1>5. f \in Surjection(M, G)
    <2> HIDE DEF f, M, G
    <2> QED BY <1>4, Zenon DEF Surjection
  <1>6. IsFiniteSet(G) /\ Cardinality(G) <= Cardinality(M)
    <2> HIDE DEF f, M, G
    <2> QED BY <1>1, <1>5, FS_Surjection, Zenon
  <1>7. Cardinality(M) \in Nat /\ Cardinality(G) \in Nat
    BY <1>1, <1>6, FS_CardinalityType
  <1> HIDE DEF M, G
  <1> QED BY <1>1, <1>6, <1>7 DEF M, G

\* The end of a session arms the Groups of the messages it cuts off abandoned, and
\* counts one of them for each.
LEMMA TallyCut ==
    ASSUME TypeOK, TypeOK', Numbered, Numbered', Tally, OneStreamPerGroup, SessionEnds
    PROVE  Tally'
  <1> DEFINE A == {k \in Keys : gate[k.group].abandoning /\ source[k].msg # 0}
             M == {source[k].msg : k \in A}
             G == {k.group : k \in A}
  <1>1. /\ UNCHANGED <<build, gate, unmounts, endRefused, refused, suppressed>>
        /\ \A k \in Keys : source'[k].msg = 0
        /\ cut' = cut \union {source[k].msg : k \in {j \in Keys : source[j].msg # 0}}
    BY DEF SessionEnds, Idle, verdict
  <1>2. SUFFICES ASSUME Heeded'
                 PROVE  /\ Cardinality(Lost') + Cardinality(Owing') <= Cardinality(LeftArmed')
                        /\ \A k \in Keys : Known(k)'
    BY DEF Tally
  <1>3. Heeded
    BY <1>1, <1>2 DEF Heeded, DropsUnmounted
  <1>4. /\ Cardinality(Lost) + Cardinality(Owing) <= Cardinality(LeftArmed)
        /\ \A k \in Keys : Known(k)
    BY <1>3 DEF Tally
  <1>5. \A k \in Keys : Known(k)'
    BY <1>1 DEF Known
  <1>6. Lost' = Lost
    BY <1>1 DEF Lost
  <1>7. Owing' \subseteq Owing \union G
    BY <1>1 DEF Owing
  <1>8. M \subseteq LeftArmed'
    BY <1>1, <1>4 DEF Known, LeftArmed
  <1>9. LeftArmed \subseteq LeftArmed'
    BY <1>1 DEF LeftArmed
  <1>10. LeftArmed \intersect M = {}
    BY DEF LeftArmed, Numbered
  <1>11. /\ IsFiniteSet(M) /\ IsFiniteSet(G)
         /\ Cardinality(M) \in Nat /\ Cardinality(G) \in Nat
         /\ Cardinality(G) <= Cardinality(M)
    <2>1. A \subseteq Keys /\ \A k \in A : source[k].msg # 0
      OBVIOUS
    <2> HIDE DEF A
    <2> QED BY <2>1, GroupsArmed
  <1> HIDE DEF M, G
  <1>12. /\ IsFiniteSet(Lost) /\ IsFiniteSet(LeftArmed) /\ IsFiniteSet(Owing)
         /\ Cardinality(Lost) \in Nat /\ Cardinality(LeftArmed) \in Nat
         /\ Cardinality(Owing) \in Nat
    BY Finite
  <1>13. /\ IsFiniteSet(LeftArmed') /\ IsFiniteSet(Owing')
         /\ Cardinality(LeftArmed') \in Nat /\ Cardinality(Owing') \in Nat
    <2>1. (TypeOK /\ Numbered =>
             /\ IsFiniteSet(LeftArmed) /\ IsFiniteSet(Owing)
             /\ Cardinality(LeftArmed) \in Nat /\ Cardinality(Owing) \in Nat)'
      BY Finite, PTL
    <2> QED BY <2>1
  <1>14. Cardinality(Owing') <= Cardinality(Owing) + Cardinality(G)
    <2>1. /\ IsFiniteSet(Owing \union G)
          /\ Cardinality(Owing \union G)
               = Cardinality(Owing) + Cardinality(G) - Cardinality(Owing \intersect G)
      BY <1>11, <1>12, FS_Union
    <2>2. Cardinality(Owing') <= Cardinality(Owing \union G)
      BY <1>7, <2>1, FS_Subset
    <2>3. Cardinality(Owing \intersect G) \in Nat
      BY <1>11, <1>12, FS_Intersection, FS_CardinalityType
    <2> QED BY <1>11, <1>12, <1>13, <2>1, <2>2, <2>3
  <1>15. Cardinality(LeftArmed) + Cardinality(M) <= Cardinality(LeftArmed')
    <2>1. Cardinality(LeftArmed \union M)
            = Cardinality(LeftArmed) + Cardinality(M) - Cardinality(LeftArmed \intersect M)
      BY <1>11, <1>12, FS_Union
    <2>2. Cardinality(LeftArmed \intersect M) = 0
      BY <1>10, FS_EmptySet, Zenon
    <2>3. Cardinality(LeftArmed \union M) = Cardinality(LeftArmed) + Cardinality(M)
      BY <1>11, <1>12, <2>1, <2>2
    <2>4. LeftArmed \union M \subseteq LeftArmed'
      BY <1>8, <1>9
    <2>5. Cardinality(LeftArmed \union M) <= Cardinality(LeftArmed')
      BY <1>13, <2>4, FS_Subset
    <2> QED BY <2>3, <2>5
  <1>16. Cardinality(Lost') + Cardinality(Owing') <= Cardinality(LeftArmed')
    BY <1>4, <1>6, <1>11, <1>12, <1>13, <1>14, <1>15
  <1> QED BY <1>5, <1>16

LEMMA TallyNext ==
    ASSUME TypeOK, TypeOK', SpliceInv, LedgerInv, Numbered, Tally, OneStreamPerGroup,
           [Next]_vars
    PROVE  Numbered' /\ Tally'
<1>1. ASSUME NEW k \in Keys, NEW p \in NextFrom(k),
             \/ Unseen(k, p) \/ WritePacket(k, p)
             \/ RefusePacket(k, p) \/ SuppressPacket(k, p)
      PROVE  Numbered' /\ Tally'
  BY <1>1, NumberedStep, TallyStep
<1>2. ASSUME UNCHANGED <<build, gate, source, messages, cut, refused, endRefused,
                         suppressed>>,
             unmounts' = unmounts \/ unmounts' = unmounts + 1
      PROVE  Numbered' /\ Tally'
  <2>1. Numbered'
    BY <1>2 DEF Numbered, Sets
  <2>2. Heeded' => Heeded
    BY <1>2 DEF Heeded, DropsUnmounted, TypeOK
  <2>3. Lost' = Lost /\ Owing' = Owing /\ LeftArmed' = LeftArmed
    BY <1>2 DEF Lost, Owing, LeftArmed
  <2>4. \A k \in Keys : Known(k)' <=> Known(k)
    BY <1>2 DEF Known
  <2> HIDE DEF Heeded, Lost, Owing, Known, LeftArmed
  <2> QED BY <2>1, <2>2, <2>3, <2>4 DEF Tally
<1>3. ASSUME NEW mt \in OtherTypes, OtherTraffic(mt) PROVE Numbered' /\ Tally'
  BY <1>2, <1>3 DEF OtherTraffic, sender, verdict
<1>4. CASE UsbTakes \/ Mount \/ Unmount \/ UNCHANGED vars
  BY <1>2, <1>4 DEF UsbTakes, Mount, Unmount, vars, sender, verdict
<1>5. CASE SessionEnds
  BY <1>5, NumberedCut, TallyCut
<1> QED BY <1>1, <1>3, <1>4, <1>5 DEF Next, SysExDelivery

LEMMA TallyInit == Init => Numbered /\ Tally
<1> SUFFICES ASSUME Init PROVE Numbered /\ Tally
  OBVIOUS
<1>1. Numbered
  BY DEF Init, Numbered, Sets, Idle
<1>2. Lost = {} /\ Owing = {} /\ LeftArmed = {}
  BY DEF Init, Lost, Owing, LeftArmed, EmptySlot
<1>3. Cardinality({}) = 0
  BY FS_EmptySet
<1>4. \A k \in Keys : Known(k)
  BY DEF Init, Known, Idle
<1>5. Cardinality(Lost) + Cardinality(Owing) <= Cardinality(LeftArmed)
  BY <1>2, <1>3
<1> QED BY <1>1, <1>4, <1>5 DEF Tally

\* As long as the handler looked at everything, there are never more messages that
\* lost packets with none of their own refused than there are messages that left
\* their Group abandoned: refused at their very End, or cut off by the end of a
\* session after they had lost something.
THEOREM GateLossIsBounded ==
    ASSUME OneStreamPerGroup PROVE Spec => []LossIsBounded
<1>1. TypeOK /\ TypeOK' /\ SpliceInv /\ LedgerInv /\ Numbered /\ Tally /\ [Next]_vars
        => Numbered' /\ Tally'
  BY TallyNext
<1>2. TypeOK /\ SpliceInv /\ [Next]_vars => SpliceInv'
  BY SpliceStep
<1>3. TypeOK /\ Numbered /\ Tally => LossIsBounded
  <2> SUFFICES ASSUME TypeOK, Numbered, Tally, Heeded
               PROVE  Cardinality(Lost) <= Cardinality(LeftArmed)
    BY DEF LossIsBounded, Heeded, Lost
  <2>1. /\ Cardinality(Lost) \in Nat /\ Cardinality(LeftArmed) \in Nat
        /\ Cardinality(Owing) \in Nat
    BY Finite
  <2>2. Cardinality(Lost) + Cardinality(Owing) <= Cardinality(LeftArmed)
    BY DEF Tally
  <2> QED BY <2>1, <2>2
<1> QED BY <1>1, <1>2, <1>3, SpliceInit, TallyInit, LedgerHolds, NetToUsbTypes, PTL DEF Spec
=============================================================================
