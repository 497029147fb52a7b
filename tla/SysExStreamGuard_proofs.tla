----------------------- MODULE SysExStreamGuard_proofs -----------------------
(***************************************************************************)
(* Proof that SysExStreamGuard never lets parts of two messages, or parts  *)
(* either side of a hole, be joined, and that what it marks as open is     *)
(* what is open downstream: for every set of streams, message length and   *)
(* number of messages, however many are lost.                              *)
(***************************************************************************)
EXTENDS SysExStreamGuard, TLAPS

\* A message marked open has reached the receiver as far as the sender has sent
\* it, unless a hole is still to be dealt with or the sender has dropped it.
InStep ==
    ~hole => \A k \in open :
        source[k].msg # 0 =>
            receiver[k].msg = source[k].msg /\ receiver[k].parts = source[k].part

SpliceInv == TypeOK /\ InStep /\ NeverSpliced

-----------------------------------------------------------------------------
(* Packets and assemblies.                                                  *)

SourceState == [msg : Nat, part : Nat]
Assembly    == [msg : Nat, parts : Nat, mixed : BOOLEAN]

\* What the sender may put out next for a Key.
LEMMA PacketFacts ==
    ASSUME TypeOK, NEW k \in Keys, NEW p \in NextFrom(k)
    PROVE  /\ p.msg \in Nat \ {0} /\ p.part \in Nat \ {0} /\ p.status \in Status
           /\ p.status \in {kContinue, kEnd} <=> source[k].msg # 0
           /\ p.status \in {kContinue, kEnd} =>
                 p.msg = source[k].msg /\ p.part = source[k].part + 1
           /\ p.status = kStart => p.part = 1
           /\ AfterSending(p) \in SourceState
           /\ AfterSending(p).msg # 0 =>
                 /\ p.status \in {kStart, kContinue}
                 /\ AfterSending(p).msg = p.msg /\ AfterSending(p).part = p.part
  <1>1. source[k] \in SourceState /\ messages \in Nat
    BY DEF TypeOK, SourceState
  <1>2. PICK st \in Status, m \in Nat \ {0}, i \in Nat \ {0} :
          /\ p = SysExPacket(k, st, m, i)
          /\ st \in {kContinue, kEnd} <=> source[k].msg # 0
          /\ st \in {kContinue, kEnd} => m = source[k].msg /\ i = source[k].part + 1
          /\ st = kStart => i = 1
    <2>1. CASE source[k].msg = 0
      <3>1. p \in {SysExPacket(k, kComplete, messages + 1, 1),
                   SysExPacket(k, kStart, messages + 1, 1)}
        BY <2>1 DEF NextFrom, NextPackets
      <3>2. messages + 1 \in Nat \ {0} /\ 1 \in Nat \ {0}
        BY <1>1
      <3>3. kComplete \in Status /\ kStart \in Status
            /\ kComplete \notin {kContinue, kEnd, kStart} /\ kStart \notin {kContinue, kEnd}
        BY DEF Status, kComplete, kStart, kContinue, kEnd
      <3> QED BY <2>1, <3>1, <3>2, <3>3
    <2>2. CASE source[k].msg # 0
      <3>1. p \in {SysExPacket(k, kEnd, source[k].msg, source[k].part + 1),
                   SysExPacket(k, kContinue, source[k].msg, source[k].part + 1)}
        BY <2>2 DEF NextFrom, NextPackets
      <3>2. source[k].msg \in Nat \ {0} /\ source[k].part + 1 \in Nat \ {0}
        BY <1>1, <2>2 DEF SourceState
      <3>3. kEnd \in Status /\ kContinue \in Status /\ kEnd # kStart /\ kContinue # kStart
        BY DEF Status, kStart, kContinue, kEnd
      <3> QED BY <2>2, <3>1, <3>2, <3>3
    <2> QED BY <2>1, <2>2
  <1>3. p.status = st /\ p.msg = m /\ p.part = i
    BY <1>2 DEF SysExPacket
  <1>4. /\ AfterSending(p) \in SourceState
        /\ AfterSending(p).msg # 0 =>
              /\ p.status \in {kStart, kContinue}
              /\ AfterSending(p).msg = p.msg /\ AfterSending(p).part = p.part
    BY <1>2, <1>3 DEF AfterSending, Idle, SourceState
  <1> QED BY <1>2, <1>3, <1>4

\* What one packet makes of an assembly.
LEMMA AssembleFacts ==
    ASSUME NEW a \in Assembly, NEW p, p.msg \in Nat, p.status \in Status
    PROVE  /\ Assemble(a, p) \in Assembly
           /\ p.status \in {kComplete, kEnd} => Assemble(a, p).msg = 0
           /\ p.status \in {kComplete, kEnd} => ~Assemble(a, p).mixed
           /\ p.status = kStart =>
                 /\ Assemble(a, p).msg = p.msg /\ Assemble(a, p).parts = 1
                 /\ ~Assemble(a, p).mixed
           /\ p.status = kContinue /\ a.msg # 0 =>
                 /\ Assemble(a, p).msg = a.msg /\ Assemble(a, p).parts = a.parts + 1
                 /\ Assemble(a, p).mixed <=> (a.mixed \/ ~Joins(a, p))
           /\ p.status = kContinue /\ a.msg = 0 => Assemble(a, p) = Closed
  <1>1. CASE p.status = kStart
    BY <1>1 DEF Assemble, Assembly, kStart, kEnd, kComplete, kContinue
  <1>2. CASE p.status = kContinue /\ a.msg # 0
    <2> DEFINE mixed == a.mixed \/ ~Joins(a, p)
    <2>1. Assemble(a, p) = [msg |-> a.msg, parts |-> a.parts + 1, mixed |-> mixed]
      BY <1>2 DEF Assemble, kStart, kContinue
    <2>2. mixed \in BOOLEAN
      BY DEF Assembly, Joins
    <2> HIDE DEF mixed
    <2>3. Assemble(a, p) \in Assembly
      BY <2>1, <2>2 DEF Assembly
    <2>4. Assemble(a, p).msg = a.msg /\ Assemble(a, p).parts = a.parts + 1
      BY <2>1
    <2>5. Assemble(a, p).mixed = mixed
      BY <2>1
    <2>6. Assemble(a, p).mixed <=> (a.mixed \/ ~Joins(a, p))
      BY <2>5, Zenon DEF mixed
    <2>7. p.status \notin {kStart, kComplete, kEnd}
      BY <1>2 DEF kStart, kContinue, kComplete, kEnd
    <2> QED BY <1>2, <2>3, <2>4, <2>6, <2>7, Zenon
  <1>3. CASE p.status # kStart /\ ~(p.status = kContinue /\ a.msg # 0)
    <2>1. Assemble(a, p) = Closed
      BY <1>3, Zenon DEF Assemble
    <2>2. Closed \in Assembly /\ Closed.msg = 0 /\ ~Closed.mixed
      BY DEF Closed, Assembly
    <2> QED BY <1>3, <2>1, <2>2
  <1> QED BY <1>1, <1>2, <1>3

\* The guard's own End closes the assembly, and finishes nothing mixed unless
\* it was mixed before.
LEMMA ZeroEndFacts ==
    ASSUME NEW a \in Assembly, NEW k
    PROVE  /\ Assemble(a, ZeroEnd(k)) \in Assembly
           /\ Assemble(a, ZeroEnd(k)).msg = 0
           /\ ~Assemble(a, ZeroEnd(k)).mixed
           /\ FinishesMixed(a, ZeroEnd(k)) => a.mixed
           /\ JoinsNothing(a, ZeroEnd(k)) <=> a.msg = 0
  <1>1. ZeroEnd(k).msg = 0 /\ ZeroEnd(k).status = kEnd
    BY DEF ZeroEnd, SysExPacket
  <1>2. kEnd \in Status /\ kEnd \in {kComplete, kEnd} /\ kEnd \in {kContinue, kEnd} /\ 0 \in Nat
    BY DEF Status
  <1>3. /\ Assemble(a, ZeroEnd(k)) \in Assembly
        /\ Assemble(a, ZeroEnd(k)).msg = 0
        /\ ~Assemble(a, ZeroEnd(k)).mixed
    BY <1>1, <1>2, AssembleFacts
  <1>4. FinishesMixed(a, ZeroEnd(k)) => a.mixed
    BY <1>1 DEF FinishesMixed
  <1>5. JoinsNothing(a, ZeroEnd(k)) <=> a.msg = 0
    BY <1>1, <1>2 DEF JoinsNothing
  <1> QED BY <1>3, <1>4, <1>5

-----------------------------------------------------------------------------
(* Types.                                                                   *)

\* The assembly packet p of Key k arrives at.
Before(k, p) ==
    IF EndsOpenFirst(k, p) THEN Assemble(receiver[k], ZeroEnd(k)) ELSE receiver[k]

LEMMA BeforeTypes ==
    ASSUME TypeOK, NEW k \in Keys, NEW p
    PROVE  receiver[k] \in Assembly /\ Before(k, p) \in Assembly
  <1>1. receiver[k] \in Assembly
    BY DEF TypeOK, Assembly
  <1> QED BY <1>1, ZeroEndFacts DEF Before

LEMMA SendsTypes ==
    ASSUME TypeOK, NEW k \in Keys, NEW p \in NextFrom(k), Sends(k, p)
    PROVE  /\ source' \in [Keys -> SourceState]
           /\ messages' \in Nat /\ resets' \in Nat /\ over' \in SUBSET Nat
  <1>1. p.msg \in Nat /\ AfterSending(p) \in SourceState
    BY PacketFacts
  <1>2. source' \in [Keys -> SourceState]
    BY <1>1 DEF Sends, TypeOK, SourceState
  <1>3. messages' \in Nat /\ resets' \in Nat
    BY DEF Sends, TypeOK
  <1>4. over' \in SUBSET Nat
    BY <1>1 DEF Sends, TypeOK
  <1> QED BY <1>2, <1>3, <1>4

LEMMA PassesTypes ==
    ASSUME TypeOK, NEW k \in Keys, NEW p \in NextFrom(k), Passes(k, p)
    PROVE  /\ receiver' = [receiver EXCEPT ![k] = Assemble(Before(k, p), p)]
           /\ receiver' \in [Keys -> Assembly]
           /\ {spoilt', stray', overrun'} \subseteq BOOLEAN
           /\ whole' \in SUBSET Nat
  <1>1. p.msg \in Nat /\ p.status \in Status
    BY PacketFacts
  <1>2. Assemble(Before(k, p), p) \in Assembly
    BY <1>1, BeforeTypes, AssembleFacts
  <1>3. receiver' = [receiver EXCEPT ![k] = Assemble(Before(k, p), p)]
    BY DEF Passes, Before
  <1>4. receiver \in [Keys -> Assembly]
    BY DEF TypeOK, Assembly
  <1>5. receiver' \in [Keys -> Assembly]
    BY <1>2, <1>3, <1>4
  <1>6. {spoilt', stray', overrun'} \subseteq BOOLEAN
    BY DEF Passes
  <1>7. whole' \in SUBSET Nat
    BY <1>1 DEF Passes, TypeOK
  <1> QED BY <1>3, <1>5, <1>6, <1>7

\* Every variable keeps its type; in particular no bit is ever set for a stream
\* that is not in use.
THEOREM GuardTypes == Spec => []TypeOK
<1>1. Init => TypeOK
  <2> SUFFICES ASSUME Init PROVE TypeOK
    OBVIOUS
  <2>1. source \in [Keys -> [msg : Nat, part : Nat]]
    BY DEF Init, Idle
  <2>2. receiver \in [Keys -> [msg : Nat, parts : Nat, mixed : BOOLEAN]]
    BY DEF Init, Closed
  <2>3. {hole, spoilt, stray, overrun} \subseteq BOOLEAN
    BY DEF Init
  <2> QED BY <2>1, <2>2, <2>3 DEF Init, TypeOK
<1>2. TypeOK /\ [Next]_vars => TypeOK'
  <2> SUFFICES ASSUME TypeOK, [Next]_vars PROVE TypeOK'
    OBVIOUS
  <2> USE DEF SourceState, Assembly
  <2>1. ASSUME NEW k \in Keys, NEW p \in NextFrom(k), Deliver(k, p) PROVE TypeOK'
    <3>1. /\ source' \in [Keys -> SourceState]
          /\ messages' \in Nat /\ resets' \in Nat /\ over' \in SUBSET Nat
      BY <2>1, SendsTypes DEF Deliver
    <3>2. hole' \in BOOLEAN /\ disturbed' \in SUBSET Nat
      BY <2>1 DEF Deliver, TypeOK
    <3>3. CASE admitted(k, p)
      <4>1. open' = OpenAfter(k, p) /\ Passes(k, p)
        BY <2>1, <3>3 DEF Deliver
      <4>2. open' \subseteq Keys
        BY <4>1 DEF OpenAfter, setOpen, TypeOK
      <4>3. /\ receiver' \in [Keys -> Assembly]
            /\ {spoilt', stray', overrun'} \subseteq BOOLEAN /\ whole' \in SUBSET Nat
        BY <4>1, PassesTypes
      <4> QED BY <3>1, <3>2, <4>2, <4>3 DEF TypeOK
    <3>4. CASE ~admitted(k, p)
      <4>1. UNCHANGED <<open, downstream>>
        BY <2>1, <3>4 DEF Deliver
      <4> QED BY <3>1, <3>2, <4>1 DEF TypeOK, downstream
    <3> QED BY <3>3, <3>4
  <2>2. ASSUME NEW k \in Keys, NEW p \in NextFrom(k), Lose(k, p) PROVE TypeOK'
    <3>1. /\ source' \in [Keys -> SourceState]
          /\ messages' \in Nat /\ resets' \in Nat /\ over' \in SUBSET Nat
      BY <2>2, SendsTypes DEF Lose
    <3>2. p.msg \in Nat
      BY PacketFacts
    <3>3. disturbed' \in SUBSET Nat
      BY <2>2, <3>2 DEF Lose, TypeOK
    <3> QED BY <2>2, <3>1, <3>3 DEF Lose, TypeOK, downstream
  <2>3. ASSUME NEW k \in Keys, SenderGivesUp(k) PROVE TypeOK'
    <3>1. source' \in [Keys -> SourceState]
      BY <2>3 DEF SenderGivesUp, TypeOK, Idle
    <3>2. disturbed' \in SUBSET Nat
      BY <2>3 DEF SenderGivesUp, TypeOK
    <3> QED BY <2>3, <3>1, <3>2 DEF SenderGivesUp, TypeOK, downstream
  <2>4. ASSUME BreakStream PROVE TypeOK'
    <3>1. \A k \in Keys : receiver[k] \in Assembly
      BY DEF TypeOK
    <3>2. receiver' \in [Keys -> Assembly]
      <4>1. \A k \in Keys : Assemble(receiver[k], ZeroEnd(k)) \in Assembly
        BY <3>1, ZeroEndFacts
      <4>2. receiver' = [k \in Keys |-> IF k \in open THEN Assemble(receiver[k], ZeroEnd(k))
                                        ELSE receiver[k]]
        BY <2>4 DEF BreakStream
      <4> QED BY <3>1, <4>1, <4>2
    <3>3. {spoilt', stray', overrun', hole'} \subseteq BOOLEAN
      BY <2>4 DEF BreakStream, TypeOK
    <3>4. disturbed' \in SUBSET Nat
      BY <2>4, <3>1 DEF BreakStream, TypeOK
    <3> QED BY <2>4, <3>2, <3>3, <3>4 DEF BreakStream, TypeOK, sender
  <2>5. ASSUME Reset PROVE TypeOK'
    <3>1. disturbed' \in SUBSET Nat
      BY <2>5 DEF Reset, TypeOK
    <3>2. {hole', spoilt', stray', overrun'} \subseteq BOOLEAN /\ open' \subseteq Keys
      BY <2>5 DEF Reset, TypeOK, downstream
    <3>3. messages' \in Nat /\ resets' \in Nat /\ {whole', over'} \subseteq SUBSET Nat
      BY <2>5 DEF Reset, TypeOK, sender, downstream
    <3>4. source' = source /\ receiver' = receiver
      BY <2>5 DEF Reset, sender, downstream
    <3> QED BY <3>1, <3>2, <3>3, <3>4 DEF TypeOK
  <2>6. ASSUME UNCHANGED vars PROVE TypeOK'
    BY <2>6 DEF vars, sender, downstream, TypeOK
  <2> QED BY <2>1, <2>2, <2>3, <2>4, <2>5, <2>6 DEF Next
<1> QED BY <1>1, <1>2, PTL DEF Spec

-----------------------------------------------------------------------------
(* Splicing.                                                                *)

\* A packet that is let through joins the message it belongs to, or starts one.
LEMMA AdmittedJoins ==
    ASSUME SpliceInv, ~hole, NEW k \in Keys, NEW p \in NextFrom(k), admitted(k, p)
    PROVE  /\ ~Assemble(Before(k, p), p).mixed
           /\ ~FinishesMixed(Before(k, p), p)
           /\ EndsOpenFirst(k, p) => ~FinishesMixed(receiver[k], ZeroEnd(k))
           /\ p.status = kContinue => Assemble(Before(k, p), p).msg = p.msg
                                      /\ Assemble(Before(k, p), p).parts = p.part
  <1>1. /\ receiver[k] \in Assembly /\ Before(k, p) \in Assembly
        /\ ~receiver[k].mixed
    BY BeforeTypes DEF SpliceInv, NeverSpliced
  <1>2. EndsOpenFirst(k, p) => ~FinishesMixed(receiver[k], ZeroEnd(k))
    BY <1>1, ZeroEndFacts
  <1>3. p.msg \in Nat /\ p.status \in Status
    BY PacketFacts DEF SpliceInv
  <1>4. CASE p.status \in {kContinue, kEnd}
    <2>1. k \in open
      BY <1>4 DEF admitted
    <2>2. source[k].msg # 0 /\ p.msg = source[k].msg /\ p.part = source[k].part + 1
      BY <1>4, PacketFacts DEF SpliceInv
    <2>3. receiver[k].msg = source[k].msg /\ receiver[k].parts = source[k].part
      BY <2>1, <2>2 DEF SpliceInv, InStep
    <2>4. Before(k, p) = receiver[k]
      BY <1>4 DEF Before, EndsOpenFirst, kStart, kComplete, kContinue, kEnd
    <2>5. Joins(receiver[k], p)
      BY <2>2, <2>3 DEF Joins
    <2>6. ~FinishesMixed(Before(k, p), p)
      BY <1>1, <2>4, <2>5 DEF FinishesMixed
    <2>7. CASE p.status = kContinue
      <3>1. Assemble(receiver[k], p).msg = p.msg /\ Assemble(receiver[k], p).parts = p.part
        BY <1>1, <1>3, <2>2, <2>3, <2>7, AssembleFacts
      <3>2. ~Assemble(receiver[k], p).mixed
        BY <1>1, <1>3, <2>2, <2>3, <2>5, <2>7, AssembleFacts
      <3> QED BY <1>2, <2>4, <2>6, <3>1, <3>2
    <2>8. CASE p.status = kEnd
      <3>1. ~Assemble(receiver[k], p).mixed
        BY <1>1, <1>3, <2>8, AssembleFacts
      <3>2. p.status # kContinue
        BY <2>8 DEF kContinue, kEnd
      <3> QED BY <1>2, <2>4, <2>6, <3>1, <3>2
    <2> QED BY <1>4, <2>7, <2>8
  <1>5. CASE p.status \in {kStart, kComplete}
    <2>1. p.status # kContinue /\ p.status # kEnd
      BY <1>5 DEF kStart, kComplete, kContinue, kEnd
    <2>2. ~FinishesMixed(Before(k, p), p)
      BY <2>1 DEF FinishesMixed
    <2>3. ~Assemble(Before(k, p), p).mixed
      BY <1>1, <1>3, <1>5, AssembleFacts
    <2> QED BY <1>2, <2>1, <2>2, <2>3
  <1> QED BY <1>3, <1>4, <1>5 DEF Status

\* A delivery keeps NeverSpliced and InStep.
LEMMA DeliverKeeps ==
    ASSUME SpliceInv, NEW k \in Keys, NEW p \in NextFrom(k), Deliver(k, p)
    PROVE  NeverSpliced' /\ InStep'
  <1>1. ~hole /\ Sends(k, p) /\ hole' = hole
    BY DEF Deliver
  <1>2. source' = [source EXCEPT ![k] = AfterSending(p)]
    BY <1>1 DEF Sends
  <1>3. source \in [Keys -> SourceState] /\ receiver \in [Keys -> Assembly] /\ open \subseteq Keys
    BY DEF SpliceInv, TypeOK, SourceState, Assembly
  <1>4. \A j \in Keys \ {k} : source'[j] = source[j]
    BY <1>2, <1>3
  <1>5. source'[k] = AfterSending(p)
    BY <1>2, <1>3
  <1>6. /\ AfterSending(p).msg # 0 =>
              /\ p.status \in {kStart, kContinue}
              /\ AfterSending(p).msg = p.msg /\ AfterSending(p).part = p.part
        /\ p.status = kStart => p.part = 1
        /\ p.status \in Status /\ p.msg \in Nat
    BY PacketFacts DEF SpliceInv
  <1>7. CASE admitted(k, p)
    <2> DEFINE after == Assemble(Before(k, p), p)
    <2>1. open' = OpenAfter(k, p) /\ Passes(k, p)
      BY <1>7 DEF Deliver
    <2>2. receiver' = [receiver EXCEPT ![k] = after]
      BY <2>1, PassesTypes DEF SpliceInv
    <2>3. Before(k, p) \in Assembly
      BY BeforeTypes DEF SpliceInv
    <2>4. /\ ~after.mixed /\ ~FinishesMixed(Before(k, p), p)
          /\ EndsOpenFirst(k, p) => ~FinishesMixed(receiver[k], ZeroEnd(k))
          /\ p.status = kContinue => after.msg = p.msg /\ after.parts = p.part
      BY <1>1, <1>7, AdmittedJoins
    <2>5. p.status = kStart => after.msg = p.msg /\ after.parts = p.part
      BY <1>6, <2>3, AssembleFacts
    <2> HIDE DEF after
    <2>6. \A j \in Keys \ {k} : receiver'[j] = receiver[j]
      BY <1>3, <2>2
    <2>7. receiver'[k] = after
      BY <1>3, <2>2
    <2>8. ~spoilt'
      BY <2>1, <2>4 DEF Passes, Before, SpliceInv, NeverSpliced
    <2>9. NeverSpliced'
      BY <2>4, <2>6, <2>7, <2>8 DEF SpliceInv, NeverSpliced
    <2>10. open' \ {k} \subseteq open
      BY <2>1 DEF OpenAfter, setOpen
    <2>11. InStep'
      <3> SUFFICES ASSUME NEW j \in open', source'[j].msg # 0
                   PROVE  receiver'[j].msg = source'[j].msg /\ receiver'[j].parts = source'[j].part
        BY DEF InStep
      <3>1. CASE j = k
        <4>1. p.status \in {kStart, kContinue} /\ source'[k].msg = p.msg /\ source'[k].part = p.part
          BY <1>5, <1>6, <3>1
        <4> QED BY <2>4, <2>5, <2>7, <3>1, <4>1
      <3>2. CASE j # k
        <4>1. j \in open /\ j \in Keys \ {k}
          BY <1>3, <2>10, <3>2
        <4> QED BY <1>1, <1>4, <2>6, <4>1 DEF SpliceInv, InStep
      <3> QED BY <3>1, <3>2
    <2> QED BY <2>9, <2>11
  <1>8. CASE ~admitted(k, p)
    <2>1. open' = open /\ receiver' = receiver /\ spoilt' = spoilt
      BY <1>8 DEF Deliver, downstream
    <2>2. k \notin open
      BY <1>8 DEF admitted
    <2>3. InStep'
      BY <1>1, <1>3, <1>4, <2>1, <2>2 DEF SpliceInv, InStep
    <2> QED BY <2>1, <2>3 DEF SpliceInv, NeverSpliced
  <1> QED BY <1>7, <1>8

LEMMA SpliceStep == TypeOK /\ InStep /\ NeverSpliced /\ [Next]_vars => InStep' /\ NeverSpliced'
<1> SUFFICES ASSUME SpliceInv, [Next]_vars PROVE NeverSpliced' /\ InStep'
  BY DEF SpliceInv
<1>1. ASSUME NEW k \in Keys, NEW p \in NextFrom(k), Deliver(k, p)
      PROVE  NeverSpliced' /\ InStep'
  BY <1>1, DeliverKeeps
<1>2. ASSUME NEW k \in Keys, NEW p \in NextFrom(k), Lose(k, p)
      PROVE  NeverSpliced' /\ InStep'
  <2>1. hole' /\ receiver' = receiver /\ spoilt' = spoilt
    BY <1>2 DEF Lose, downstream
  <2> QED BY <2>1 DEF SpliceInv, NeverSpliced, InStep
<1>3. ASSUME NEW k \in Keys, SenderGivesUp(k) PROVE NeverSpliced' /\ InStep'
  <2>1. /\ open' = open /\ hole' = hole /\ receiver' = receiver /\ spoilt' = spoilt
        /\ source' = [source EXCEPT ![k] = Idle]
    BY <1>3 DEF SenderGivesUp, downstream
  <2>2. source \in [Keys -> SourceState] /\ open \subseteq Keys
    BY DEF SpliceInv, TypeOK, SourceState
  <2>3. \A j \in Keys : source'[j].msg # 0 => source'[j] = source[j]
    BY <2>1, <2>2 DEF Idle
  <2> QED BY <2>1, <2>2, <2>3 DEF SpliceInv, NeverSpliced, InStep
<1>4. ASSUME BreakStream PROVE NeverSpliced' /\ InStep'
  <2>1. \A k \in Keys : receiver[k] \in Assembly /\ ~receiver[k].mixed
    BY DEF SpliceInv, NeverSpliced, TypeOK, Assembly
  <2>2. open \subseteq Keys
    BY DEF SpliceInv, TypeOK
  <2>3. \A k \in Keys : /\ ~Assemble(receiver[k], ZeroEnd(k)).mixed
                        /\ ~FinishesMixed(receiver[k], ZeroEnd(k))
    BY <2>1, ZeroEndFacts
  <2>4. ~spoilt'
    BY <1>4, <2>2, <2>3 DEF BreakStream, SpliceInv, NeverSpliced
  <2>5. \A k \in Keys : ~receiver'[k].mixed
    BY <1>4, <2>1, <2>3 DEF BreakStream
  <2>6. open' = {}
    BY <1>4 DEF BreakStream
  <2> QED BY <2>4, <2>5, <2>6 DEF NeverSpliced, InStep
<1>5. ASSUME Reset PROVE NeverSpliced' /\ InStep'
  BY <1>5 DEF Reset, downstream, SpliceInv, NeverSpliced, InStep
<1>6. ASSUME UNCHANGED vars PROVE NeverSpliced' /\ InStep'
  BY <1>6 DEF vars, sender, downstream, SpliceInv, NeverSpliced, InStep
<1> QED BY <1>1, <1>2, <1>3, <1>4, <1>5, <1>6 DEF Next

\* No message the receiver has open or has finished is joined across a hole:
\* what follows a hole waits for breakStream(), which leaves nothing open for
\* admit() to let a later part through to.
THEOREM GuardNeverSplices == Spec => []NeverSpliced
<1>1. Init => InStep /\ NeverSpliced
  BY DEF Init, InStep, NeverSpliced, Closed
<1> QED BY <1>1, SpliceStep, GuardTypes, PTL DEF Spec

-----------------------------------------------------------------------------
(* The guard and the receiver agree.                                        *)

OpenAtReceiver == {k \in Keys : receiver[k].msg # 0}

LEMMA DeliverAgrees ==
    ASSUME TypeOK, AgreesWithReceiver, resets = 0,
           NEW k \in Keys, NEW p \in NextFrom(k), Deliver(k, p)
    PROVE  open' = OpenAtReceiver' /\ ~stray' /\ ~overrun'
  <1>1. open = OpenAtReceiver /\ ~stray /\ ~overrun
    BY DEF AgreesWithReceiver, OpenAtReceiver
  <1>2. p.status \in Status /\ p.msg \in Nat \ {0}
    BY PacketFacts
  <1>3. /\ receiver[k] \in Assembly /\ Before(k, p) \in Assembly
        /\ receiver \in [Keys -> Assembly]
    BY BeforeTypes DEF TypeOK, Assembly
  <1>4. CASE admitted(k, p)
    <2> DEFINE after == Assemble(Before(k, p), p)
    <2>1. open' = OpenAfter(k, p) /\ Passes(k, p)
      BY <1>4 DEF Deliver
    <2>2. receiver' = [receiver EXCEPT ![k] = after]
      BY <2>1, PassesTypes
    <2>3. p.status \in {kStart, kComplete} => Before(k, p).msg = 0
      BY <1>1, <1>3, ZeroEndFacts DEF Before, EndsOpenFirst, OpenAtReceiver
    <2>4. p.status \in {kContinue, kEnd} => k \in open /\ Before(k, p).msg # 0
      <3>1. p.status \in {kContinue, kEnd} => ~EndsOpenFirst(k, p)
        BY DEF EndsOpenFirst, kStart, kComplete, kContinue, kEnd
      <3> QED BY <1>1, <1>4, <3>1 DEF admitted, Before, OpenAtReceiver
    <2>5. ~JoinsNothing(Before(k, p), p)
      BY <2>4 DEF JoinsNothing
    <2>6. ~stray' /\ ~overrun'
      BY <1>1, <2>1, <2>3, <2>5 DEF Passes, Before
    <2>7. after.msg # 0 <=> p.status \in {kStart, kContinue}
      <3>1. p.status = kStart => after.msg # 0
        BY <1>2, <1>3, AssembleFacts
      <3>2. p.status = kContinue => after.msg # 0
        BY <1>2, <1>3, <2>4, AssembleFacts
      <3>3. p.status \in {kEnd, kComplete} => after.msg = 0
        BY <1>2, <1>3, AssembleFacts
      <3> QED BY <1>2, <3>1, <3>2, <3>3 DEF Status
    <2> HIDE DEF after
    <2>8. receiver'[k] = after /\ \A j \in Keys \ {k} : receiver'[j] = receiver[j]
      BY <1>3, <2>2
    <2>9. k \in open' <=> p.status \in {kStart, kContinue}
      BY <2>1, <2>4 DEF OpenAfter, setOpen, kStart, kContinue
    <2>10. open' \subseteq Keys /\ \A j \in Keys \ {k} : j \in open' <=> j \in open
      BY <2>1 DEF OpenAfter, setOpen, TypeOK
    <2>11. open' = OpenAtReceiver'
      BY <1>1, <2>7, <2>8, <2>9, <2>10 DEF OpenAtReceiver
    <2> QED BY <2>6, <2>11
  <1>5. CASE ~admitted(k, p)
    <2>1. UNCHANGED <<open, downstream>>
      BY <1>5 DEF Deliver
    <2> QED BY <1>1, <2>1 DEF downstream, OpenAtReceiver
  <1> QED BY <1>4, <1>5

\* Within a session what the guard marks as open is exactly what is open
\* downstream: each End it makes finds its message, and none is left open.
THEOREM GuardAgrees == Spec => []AgreesWithReceiver
<1>1. Init => AgreesWithReceiver
  BY DEF Init, AgreesWithReceiver, Closed
<1>2. TypeOK /\ AgreesWithReceiver /\ [Next]_vars => AgreesWithReceiver'
  <2> SUFFICES ASSUME TypeOK, AgreesWithReceiver, [Next]_vars, resets' = 0
               PROVE  open' = OpenAtReceiver' /\ ~stray' /\ ~overrun'
    BY DEF AgreesWithReceiver, OpenAtReceiver
  <2>1. ~Reset
    BY DEF Reset, TypeOK
  <2>2. resets = 0
    BY <2>1 DEF Next, vars, Deliver, Lose, Sends, SenderGivesUp, BreakStream
  <2>3. open = OpenAtReceiver /\ ~stray /\ ~overrun
    BY <2>2 DEF AgreesWithReceiver, OpenAtReceiver
  <2>4. ASSUME NEW k \in Keys, NEW p \in NextFrom(k), Deliver(k, p)
        PROVE  open' = OpenAtReceiver' /\ ~stray' /\ ~overrun'
    BY <2>2, <2>4, DeliverAgrees
  <2>5. ASSUME NEW k \in Keys, NEW p \in NextFrom(k), Lose(k, p)
        PROVE  open' = OpenAtReceiver' /\ ~stray' /\ ~overrun'
    BY <2>3, <2>5 DEF Lose, downstream, OpenAtReceiver
  <2>6. ASSUME NEW k \in Keys, SenderGivesUp(k)
        PROVE  open' = OpenAtReceiver' /\ ~stray' /\ ~overrun'
    BY <2>3, <2>6 DEF SenderGivesUp, downstream, OpenAtReceiver
  <2>7. ASSUME BreakStream PROVE open' = OpenAtReceiver' /\ ~stray' /\ ~overrun'
    <3>1. \A k \in Keys : receiver[k] \in Assembly
      BY DEF TypeOK, Assembly
    <3>2. \A k \in Keys : /\ Assemble(receiver[k], ZeroEnd(k)).msg = 0
                          /\ JoinsNothing(receiver[k], ZeroEnd(k)) <=> receiver[k].msg = 0
      BY <3>1, ZeroEndFacts
    <3>3. \A k \in Keys : receiver'[k].msg = 0
      BY <2>3, <2>7, <3>2 DEF BreakStream, OpenAtReceiver
    <3>4. ~stray' /\ ~overrun' /\ open' = {}
      BY <2>3, <2>7, <3>2 DEF BreakStream, OpenAtReceiver
    <3> QED BY <3>3, <3>4 DEF OpenAtReceiver
  <2>8. ASSUME UNCHANGED vars PROVE open' = OpenAtReceiver' /\ ~stray' /\ ~overrun'
    BY <2>3, <2>8 DEF vars, downstream, OpenAtReceiver
  <2> QED BY <2>1, <2>4, <2>5, <2>6, <2>7, <2>8 DEF Next
<1> QED BY <1>1, <1>2, GuardTypes, PTL DEF Spec

-----------------------------------------------------------------------------
(* Only what lost a part is lost.  The property is not inductive: that the   *)
(* End of an undisturbed message finishes it takes that its Start and all of *)
(* it so far have arrived, and that the End of a disturbed one does not,     *)
(* that nothing the guard lets it join is open.                              *)

\* Messages are numbered in the order in which they are begun ...
Numbered ==
    /\ \A k \in Keys : source[k].msg <= messages /\ receiver[k].msg <= messages
    /\ \A m \in whole \union disturbed : m <= messages
    /\ 0 \notin whole

\* ... and no two streams carry the same one.
Distinct ==
    \A j, k \in Keys : j # k /\ source[j].msg # 0 =>
        source[j].msg # source[k].msg /\ source[j].msg # receiver[k].msg

\* What is open has not been finished, and a message under way is open downstream
\* exactly as long as nothing disturbed it.
Fate(k) ==
    /\ k \in open => receiver[k].msg \notin whole
    /\ source[k].msg # 0 =>
         /\ source[k].msg \notin whole
         /\ source[k].msg \notin disturbed => k \in open /\ receiver[k].msg = source[k].msg
         /\ k \in open /\ ~hole => source[k].msg \notin disturbed

FateInv == Numbered /\ Distinct /\ OnlyBrokenLost /\ \A k \in Keys : Fate(k)

\* Numbers and streams after a packet of Key k is sent.
LEMMA SendsNumbers ==
    ASSUME TypeOK, Numbered, Distinct, NEW k \in Keys, NEW p \in NextFrom(k), Sends(k, p)
    PROVE  /\ messages' \in Nat /\ messages <= messages' /\ p.msg <= messages'
           /\ source' = [source EXCEPT ![k] = AfterSending(p)]
           /\ source'[k].msg # 0 => p.status \in {kStart, kContinue} /\ source'[k].msg = p.msg
           /\ p.status \in {kStart, kComplete} =>
                 /\ p.msg \notin whole \union disturbed
                 /\ \A j \in Keys : source[j].msg # p.msg /\ receiver[j].msg # p.msg
           /\ p.status \in {kContinue, kEnd} => source[k].msg # 0 /\ p.msg = source[k].msg
           /\ \A j \in Keys : source'[j].msg <= messages' /\ receiver[j].msg <= messages'
           /\ \A m \in whole \union disturbed : m <= messages'
           /\ \A j \in Keys \ {k} : /\ source'[j] = source[j]
                                    /\ source[j].msg # 0 => source[j].msg # p.msg
                                    /\ receiver[j].msg # p.msg
  <1>1. /\ p.msg \in Nat \ {0} /\ p.status \in Status
        /\ p.status \in {kContinue, kEnd} <=> source[k].msg # 0
        /\ p.status \in {kContinue, kEnd} => p.msg = source[k].msg
        /\ AfterSending(p).msg # 0 => p.status \in {kStart, kContinue} /\ AfterSending(p).msg = p.msg
    BY PacketFacts
  <1>2. /\ source \in [Keys -> SourceState] /\ messages \in Nat
        /\ \A j \in Keys : source[j].msg \in Nat /\ receiver[j].msg \in Nat
        /\ \A m \in whole \union disturbed : m \in Nat
    BY DEF TypeOK, SourceState
  <1>3. /\ source' = [source EXCEPT ![k] = AfterSending(p)]
        /\ messages' = IF source[k].msg = 0 THEN messages + 1 ELSE messages
    BY DEF Sends
  <1>4. source'[k] = AfterSending(p) /\ \A j \in Keys \ {k} : source'[j] = source[j]
    BY <1>2, <1>3
  <1>5. \A j \in Keys : source[j].msg <= messages /\ receiver[j].msg <= messages
    BY DEF Numbered
  <1>6. \A m \in whole \union disturbed : m <= messages
    BY DEF Numbered
  <1>7. messages' \in Nat /\ messages <= messages'
    BY <1>2, <1>3
  <1>8. source[k].msg = 0 => p.msg = messages + 1
    BY DEF NextFrom, NextPackets, SysExPacket
  <1>9. p.msg <= messages'
    BY <1>1, <1>2, <1>3, <1>5, <1>8
  <1>10. p.status \in {kStart, kComplete} => p.msg = messages + 1
    BY <1>1, <1>8 DEF kStart, kComplete, kContinue, kEnd
  <1>11. ASSUME p.msg = messages + 1
         PROVE  /\ p.msg \notin whole \union disturbed
                /\ \A j \in Keys : source[j].msg # p.msg /\ receiver[j].msg # p.msg
    BY <1>2, <1>5, <1>6, <1>11
  <1>12. \A j \in Keys : source'[j].msg <= messages'
    <2>1. source'[k].msg <= messages'
      BY <1>1, <1>4, <1>7, <1>9
    <2>2. \A j \in Keys \ {k} : source'[j].msg <= messages'
      BY <1>2, <1>4, <1>5, <1>7
    <2> QED BY <2>1, <2>2
  <1>13. \A j \in Keys : receiver[j].msg <= messages'
    BY <1>2, <1>5, <1>7
  <1>14. \A m \in whole \union disturbed : m <= messages'
    BY <1>2, <1>6, <1>7
  <1>15. \A j \in Keys \ {k} : /\ source[j].msg # 0 => source[j].msg # p.msg
                               /\ receiver[j].msg # p.msg
    <2>1. CASE source[k].msg = 0
      BY <1>8, <1>11, <2>1
    <2>2. CASE source[k].msg # 0
      <3>1. p.msg = source[k].msg
        BY <1>1, <2>2
      <3> QED BY <2>2, <3>1 DEF Distinct
    <2> QED BY <2>1, <2>2
  <1> QED BY <1>1, <1>3, <1>4, <1>7, <1>9, <1>10, <1>11, <1>12, <1>13, <1>14, <1>15

\* What is admitted finishes entire what it finishes, and nothing disturbed.
LEMMA AdmittedFinishes ==
    ASSUME SpliceInv, FateInv, ~hole, NEW k \in Keys, NEW p \in NextFrom(k), admitted(k, p)
    PROVE  /\ FinishesWhole(Before(k, p), p) <=> p.status \in {kEnd, kComplete}
           /\ p.status \in {kContinue, kEnd} =>
                 /\ k \in open /\ p.msg \notin disturbed
                 /\ Before(k, p) = receiver[k] /\ receiver[k].msg = p.msg
  <1>1. /\ p.msg \in Nat \ {0} /\ p.part \in Nat \ {0} /\ p.status \in Status
        /\ p.status \in {kContinue, kEnd} <=> source[k].msg # 0
        /\ p.status \in {kContinue, kEnd} =>
              p.msg = source[k].msg /\ p.part = source[k].part + 1
    BY PacketFacts DEF SpliceInv
  <1>2. CASE p.status \in {kContinue, kEnd}
    <2>1. k \in open /\ source[k].msg # 0
      BY <1>1, <1>2 DEF admitted
    <2>2. receiver[k].msg = source[k].msg /\ receiver[k].parts = source[k].part /\ ~receiver[k].mixed
      BY <2>1 DEF SpliceInv, InStep, NeverSpliced
    <2>3. Before(k, p) = receiver[k]
      BY <1>2 DEF Before, EndsOpenFirst, kStart, kComplete, kContinue, kEnd
    <2>4. p.msg \notin disturbed
      BY <1>1, <1>2, <2>1 DEF FateInv, Fate
    <2>5. Joins(receiver[k], p) /\ receiver[k].msg # 0
      BY <1>1, <1>2, <2>1, <2>2 DEF Joins
    <2>6. FinishesWhole(Before(k, p), p) <=> p.status \in {kEnd, kComplete}
      BY <1>1, <1>2, <2>2, <2>3, <2>5 DEF FinishesWhole
    <2> QED BY <1>1, <1>2, <2>1, <2>2, <2>3, <2>4, <2>6
  <1>3. CASE p.status \in {kStart, kComplete}
    <2>1. p.status \notin {kContinue, kEnd}
      BY <1>3 DEF kStart, kComplete, kContinue, kEnd
    <2>2. FinishesWhole(Before(k, p), p) <=> p.status = kComplete
      BY <2>1 DEF FinishesWhole
    <2> QED BY <2>1, <2>2
  <1> QED BY <1>1, <1>2, <1>3 DEF Status

LEMMA DeliverFate ==
    ASSUME SpliceInv, FateInv, NEW k \in Keys, NEW p \in NextFrom(k), Deliver(k, p)
    PROVE  FateInv'
  <1>0. ~hole /\ hole' = hole /\ disturbed' = disturbed /\ Sends(k, p) /\ TypeOK
        /\ Numbered /\ Distinct /\ OnlyBrokenLost /\ \A j \in Keys : Fate(j)
    BY DEF Deliver, SpliceInv, FateInv
  <1>1. /\ messages' \in Nat
        /\ source'[k].msg # 0 => p.status \in {kStart, kContinue} /\ source'[k].msg = p.msg
        /\ p.status \in {kStart, kComplete} =>
              /\ p.msg \notin whole \union disturbed
              /\ \A j \in Keys : source[j].msg # p.msg /\ receiver[j].msg # p.msg
        /\ p.status \in {kContinue, kEnd} => source[k].msg # 0 /\ p.msg = source[k].msg
        /\ \A j \in Keys : source'[j].msg <= messages' /\ receiver[j].msg <= messages'
        /\ p.msg <= messages'
    BY <1>0, SendsNumbers
  <1>2. /\ \A m \in whole \union disturbed : m <= messages'
        /\ \A j \in Keys \ {k} : /\ source'[j] = source[j]
                                 /\ source[j].msg # 0 => source[j].msg # p.msg
                                 /\ receiver[j].msg # p.msg
    BY <1>0, SendsNumbers
  <1>3. p.msg \in Nat \ {0} /\ p.status \in Status
    BY <1>0, PacketFacts
  <1>4. over' = IF p.status \in {kEnd, kComplete} THEN over \union {p.msg} ELSE over
    BY <1>0 DEF Sends, Ends
  <1>5. receiver \in [Keys -> Assembly] /\ open \subseteq Keys
    BY <1>0 DEF TypeOK, Assembly
  <1>6. /\ kStart # kContinue /\ kStart # kEnd /\ kContinue # kEnd
        /\ kStart # kComplete /\ kContinue # kComplete /\ kEnd # kComplete
        /\ Status = {kComplete, kStart, kContinue, kEnd}
    BY DEF kStart, kContinue, kEnd, kComplete, Status
  <1>7. p.msg \notin whole
    BY <1>0, <1>1, <1>3, <1>6 DEF Fate
  <1>8. CASE admitted(k, p)
    <2> DEFINE after == Assemble(Before(k, p), p)
    <2>1. open' = OpenAfter(k, p) /\ Passes(k, p)
      BY <1>8 DEF Deliver
    <2>2. receiver' = [receiver EXCEPT ![k] = after]
      BY <1>0, <2>1, PassesTypes
    <2>3. /\ FinishesWhole(Before(k, p), p) <=> p.status \in {kEnd, kComplete}
          /\ p.status \in {kContinue, kEnd} =>
                /\ k \in open /\ p.msg \notin disturbed
                /\ Before(k, p) = receiver[k] /\ receiver[k].msg = p.msg
      BY <1>0, <1>8, AdmittedFinishes
    <2>4. whole' = IF p.status \in {kEnd, kComplete} THEN whole \union {p.msg} ELSE whole
      BY <2>1, <2>3 DEF Passes, Before
    <2>5. Before(k, p) \in Assembly
      BY <1>0, BeforeTypes
    <2>6. /\ p.status \in {kComplete, kEnd} => after.msg = 0
          /\ p.status \in {kStart, kContinue} => after.msg = p.msg
      <3>1. p.status \in {kComplete, kEnd} => after.msg = 0
        BY <1>3, <2>5, AssembleFacts
      <3>2. p.status = kStart => after.msg = p.msg
        BY <1>3, <2>5, AssembleFacts
      <3>3. p.status = kContinue => after.msg = p.msg
        BY <1>3, <2>3, <2>5, AssembleFacts
      <3> QED BY <3>1, <3>2, <3>3
    <2> HIDE DEF after
    <2>7. receiver'[k] = after /\ \A j \in Keys \ {k} : receiver'[j] = receiver[j]
      BY <1>5, <2>2
    <2>8. p.msg \notin disturbed
      BY <1>1, <1>3, <1>6, <2>3
    <2>9. OnlyBrokenLost'
      <3>1. over' \ disturbed' \subseteq whole'
        BY <1>0, <1>4, <2>4 DEF OnlyBrokenLost
      <3>2. whole' \intersect disturbed' = {}
        BY <1>0, <2>4, <2>8 DEF OnlyBrokenLost
      <3> QED BY <3>1, <3>2 DEF OnlyBrokenLost
    <2>10. Numbered'
      <3>1. after.msg <= messages'
        BY <1>1, <1>3, <1>6, <2>6
      <3>2. \A j \in Keys : source'[j].msg <= messages' /\ receiver'[j].msg <= messages'
        BY <1>1, <2>7, <3>1
      <3>3. \A m \in whole' \union disturbed' : m <= messages'
        BY <1>0, <1>1, <1>2, <2>4
      <3>4. 0 \notin whole'
        BY <1>0, <1>3, <2>4 DEF Numbered
      <3> QED BY <3>2, <3>3, <3>4 DEF Numbered
    <2>11. Distinct'
      <3> SUFFICES ASSUME NEW j \in Keys, NEW i \in Keys, j # i, source'[j].msg # 0
                   PROVE  source'[j].msg # source'[i].msg /\ source'[j].msg # receiver'[i].msg
        BY DEF Distinct
      <3>1. CASE j = k
        <4>1. source'[k].msg = p.msg /\ i \in Keys \ {k}
          BY <1>1, <3>1
        <4> QED BY <1>2, <1>3, <2>7, <3>1, <4>1
      <3>2. CASE j # k
        <4>1. j \in Keys \ {k} /\ source'[j] = source[j] /\ source[j].msg # p.msg
          BY <1>2, <3>2
        <4>2. CASE i = k
          BY <1>1, <1>3, <1>6, <2>6, <2>7, <4>1, <4>2
        <4>3. CASE i # k
          BY <1>0, <1>2, <2>7, <4>1, <4>3 DEF Distinct
        <4> QED BY <4>2, <4>3
      <3> QED BY <3>1, <3>2
    <2>12. \A j \in Keys \ {k} : j \in open' <=> j \in open
      BY <2>1 DEF OpenAfter, setOpen
    <2>13. k \in open' <=> p.status \in {kStart, kContinue}
      BY <1>6, <2>1, <2>3 DEF OpenAfter, setOpen
    <2>14. ASSUME NEW j \in Keys PROVE Fate(j)'
      <3>1. CASE j = k
        <4>1. CASE p.status \in {kStart, kContinue}
          <5>1. whole' = whole /\ receiver'[k].msg = p.msg /\ k \in open'
            BY <1>6, <2>4, <2>6, <2>7, <2>13, <4>1
          <5> QED BY <1>0, <1>1, <1>7, <2>8, <3>1, <5>1 DEF Fate
        <4>2. CASE p.status \notin {kStart, kContinue}
          <5>1. source'[k].msg = 0 /\ k \notin open'
            BY <1>1, <2>13, <4>2
          <5> QED BY <3>1, <5>1 DEF Fate
        <4> QED BY <4>1, <4>2
      <3>2. CASE j # k
        <4>1. /\ j \in Keys \ {k} /\ source'[j] = source[j] /\ receiver'[j] = receiver[j]
              /\ source[j].msg # 0 => source[j].msg # p.msg
              /\ receiver[j].msg # p.msg /\ (j \in open' <=> j \in open)
          BY <1>2, <2>7, <2>12, <3>2
        <4> QED BY <1>0, <2>4, <4>1 DEF Fate
      <3> QED BY <3>1, <3>2
    <2> QED BY <2>9, <2>10, <2>11, <2>14 DEF FateInv
  <1>9. CASE ~admitted(k, p)
    <2>1. open' = open /\ receiver' = receiver /\ whole' = whole
      BY <1>9 DEF Deliver, downstream
    <2>2. p.status \in {kContinue, kEnd} /\ k \notin open
      BY <1>9 DEF admitted
    <2>3. p.msg \in disturbed
      BY <1>0, <1>1, <2>2 DEF Fate
    <2>4. OnlyBrokenLost'
      BY <1>0, <1>4, <2>1, <2>3 DEF OnlyBrokenLost
    <2>5. Numbered'
      BY <1>0, <1>1, <1>2, <2>1 DEF Numbered
    <2>6. Distinct'
      <3> SUFFICES ASSUME NEW j \in Keys, NEW i \in Keys, j # i, source'[j].msg # 0
                   PROVE  source'[j].msg # source'[i].msg /\ source'[j].msg # receiver'[i].msg
        BY DEF Distinct
      <3>1. source[j].msg # 0 /\ source'[j].msg = source[j].msg
        BY <1>1, <1>2, <2>2
      <3>2. source'[i].msg \in {0, source[i].msg}
        BY <1>1, <1>2, <2>2
      <3> QED BY <1>0, <2>1, <3>1, <3>2 DEF Distinct
    <2>7. ASSUME NEW j \in Keys PROVE Fate(j)'
      <3>1. source'[j].msg \in {0, source[j].msg}
        BY <1>1, <1>2, <2>2
      <3> QED BY <1>0, <2>1, <3>1 DEF Fate
    <2> QED BY <2>4, <2>5, <2>6, <2>7 DEF FateInv
  <1> QED BY <1>8, <1>9

LEMMA LoseFate ==
    ASSUME SpliceInv, FateInv, NEW k \in Keys, NEW p \in NextFrom(k), Lose(k, p)
    PROVE  FateInv'
  <1>0. /\ hole' /\ open' = open /\ receiver' = receiver /\ whole' = whole
        /\ disturbed' = disturbed \union {p.msg}
        /\ Sends(k, p) /\ TypeOK
        /\ Numbered /\ Distinct /\ OnlyBrokenLost /\ \A j \in Keys : Fate(j)
    BY DEF Lose, downstream, SpliceInv, FateInv
  <1>1. /\ messages' \in Nat /\ p.msg <= messages'
        /\ source'[k].msg # 0 => source'[k].msg = p.msg
        /\ p.status \in {kStart, kComplete} =>
              /\ p.msg \notin whole \union disturbed
              /\ \A j \in Keys : source[j].msg # p.msg /\ receiver[j].msg # p.msg
        /\ p.status \in {kContinue, kEnd} => source[k].msg # 0 /\ p.msg = source[k].msg
        /\ \A j \in Keys : source'[j].msg <= messages' /\ receiver[j].msg <= messages'
        /\ \A m \in whole \union disturbed : m <= messages'
        /\ \A j \in Keys \ {k} : source'[j] = source[j]
    BY <1>0, SendsNumbers
  <1>2. \A j \in Keys \ {k} : /\ source[j].msg # 0 => source[j].msg # p.msg
                              /\ receiver[j].msg # p.msg
    BY <1>0, SendsNumbers
  <1>3. p.msg \in Nat \ {0} /\ p.status \in Status
    BY <1>0, PacketFacts
  <1>4. p.msg \notin whole
    BY <1>0, <1>1, <1>3 DEF Fate, Status
  <1>5. OnlyBrokenLost'
    <2>1. over' \subseteq over \union {p.msg}
      BY <1>0 DEF Sends
    <2> QED BY <1>0, <1>4, <2>1 DEF OnlyBrokenLost
  <1>6. Numbered'
    BY <1>0, <1>1 DEF Numbered
  <1>7. Distinct'
    <2> SUFFICES ASSUME NEW j \in Keys, NEW i \in Keys, j # i, source'[j].msg # 0
                 PROVE  source'[j].msg # source'[i].msg /\ source'[j].msg # receiver'[i].msg
      BY DEF Distinct
    <2>1. CASE j = k
      <3>1. source'[j].msg = p.msg /\ i \in Keys \ {k} /\ source'[i] = source[i]
        BY <1>1, <2>1
      <3> QED BY <1>0, <1>2, <1>3, <3>1
    <2>2. CASE j # k
      <3>1. j \in Keys \ {k} /\ source'[j] = source[j] /\ source[j].msg # p.msg
        BY <1>1, <1>2, <2>2
      <3>2. source'[i].msg \in {0, p.msg, source[i].msg}
        BY <1>1
      <3>3. source[j].msg # source[i].msg /\ source[j].msg # receiver[i].msg
        BY <1>0, <3>1 DEF Distinct
      <3> QED BY <1>0, <3>1, <3>2, <3>3
    <2> QED BY <2>1, <2>2
  <1>8. ASSUME NEW j \in Keys PROVE Fate(j)'
    <2>1. CASE j = k
      <3>1. source'[j].msg # 0 => source'[j].msg = p.msg
        BY <1>1, <2>1
      <3> QED BY <1>0, <1>4, <3>1 DEF Fate
    <2>2. CASE j # k
      <3>1. source'[j] = source[j]
        BY <1>1, <2>2
      <3> QED BY <1>0, <3>1 DEF Fate
    <2> QED BY <2>1, <2>2
  <1> QED BY <1>5, <1>6, <1>7, <1>8 DEF FateInv

\* The sender, or the session, gives up what is under way on some streams.
LEMMA DisturbFate ==
    ASSUME TypeOK, FateInv, NEW S \in SUBSET Nat,
           disturbed' = disturbed \union S,
           \A m \in S : m <= messages /\ m \notin whole,
           messages' = messages, whole' = whole, over' = over,
           \A j \in Keys : source'[j].msg \in {0, source[j].msg},
           \A j \in Keys : receiver'[j].msg \in {0, receiver[j].msg},
           \A j \in open' : j \in open /\ receiver'[j].msg = receiver[j].msg,
           \A j \in Keys : source'[j].msg # 0 =>
              \/ j \notin open' /\ source[j].msg \in disturbed'
              \/ /\ j \in open' <=> j \in open
                 /\ receiver'[j].msg = receiver[j].msg
                 /\ hole' = hole /\ source[j].msg \notin S
    PROVE  FateInv'
  <1>0. Numbered /\ Distinct /\ OnlyBrokenLost /\ \A j \in Keys : Fate(j)
    BY DEF FateInv
  <1>1. messages \in Nat /\ open \subseteq Keys
    BY DEF TypeOK
  <1>2. Numbered'
    <2>1. \A j \in Keys : source'[j].msg <= messages' /\ receiver'[j].msg <= messages'
      BY <1>0, <1>1 DEF Numbered
    <2>2. (\A m \in whole' \union disturbed' : m <= messages') /\ 0 \notin whole'
      BY <1>0 DEF Numbered
    <2> QED BY <2>1, <2>2 DEF Numbered
  <1>3. Distinct'
    <2> SUFFICES ASSUME NEW j \in Keys, NEW i \in Keys, j # i, source'[j].msg # 0
                 PROVE  source'[j].msg # source'[i].msg /\ source'[j].msg # receiver'[i].msg
      BY DEF Distinct
    <2>1. source'[j].msg = source[j].msg /\ source[j].msg # 0
      OBVIOUS
    <2>2. source[j].msg # source[i].msg /\ source[j].msg # receiver[i].msg
      BY <1>0, <2>1 DEF Distinct
    <2> QED BY <2>1, <2>2
  <1>4. OnlyBrokenLost'
    BY <1>0 DEF OnlyBrokenLost
  <1>5. ASSUME NEW j \in Keys PROVE Fate(j)'
    <2>1. j \in open' => receiver'[j].msg \notin whole'
      BY <1>0 DEF Fate
    <2>2. ASSUME source'[j].msg # 0
          PROVE  /\ source'[j].msg = source[j].msg /\ source[j].msg \notin whole
                 /\ source[j].msg \notin disturbed' => j \in open' /\ receiver'[j].msg = source[j].msg
                 /\ j \in open' /\ ~hole' => source[j].msg \notin disturbed'
      <3>1. source'[j].msg = source[j].msg /\ source[j].msg # 0
        BY <2>2
      <3>2. source[j].msg \notin whole
        BY <1>0, <3>1 DEF Fate
      <3>3. CASE j \notin open' /\ source[j].msg \in disturbed'
        BY <3>1, <3>2, <3>3
      <3>4. CASE /\ j \in open' <=> j \in open
                 /\ receiver'[j].msg = receiver[j].msg
                 /\ hole' = hole /\ source[j].msg \notin S
        BY <1>0, <3>1, <3>2, <3>4 DEF Fate
      <3> QED BY <2>2, <3>3, <3>4
    <2> QED BY <2>1, <2>2 DEF Fate
  <1> QED BY <1>2, <1>3, <1>4, <1>5 DEF FateInv

LEMMA FateStep == SpliceInv /\ FateInv /\ [Next]_vars => FateInv'
<1> SUFFICES ASSUME SpliceInv, FateInv, [Next]_vars PROVE FateInv'
  OBVIOUS
<1>0. TypeOK /\ Numbered /\ \A j \in Keys : Fate(j)
  BY DEF SpliceInv, FateInv
<1>1. /\ source \in [Keys -> SourceState] /\ receiver \in [Keys -> Assembly]
      /\ open \subseteq Keys /\ messages \in Nat
      /\ \A j \in Keys : source[j].msg \in Nat /\ receiver[j].msg \in Nat
  BY <1>0 DEF TypeOK, SourceState, Assembly
<1>2. ASSUME NEW k \in Keys, SenderGivesUp(k) PROVE FateInv'
  <2> DEFINE S == {source[k].msg}
  <2>1. /\ S \in SUBSET Nat /\ disturbed' = disturbed \union S
        /\ messages' = messages /\ whole' = whole /\ over' = over
        /\ receiver' = receiver /\ open' = open /\ hole' = hole
        /\ source[k].msg # 0
    BY <1>1, <1>2 DEF SenderGivesUp, downstream
  <2>2. source'[k].msg = 0 /\ \A j \in Keys \ {k} : source'[j] = source[j]
    BY <1>1, <1>2 DEF SenderGivesUp, Idle
  <2>3. \A m \in S : m <= messages /\ m \notin whole
    BY <1>0, <2>1 DEF Numbered, Fate
  <2>4. \A j \in Keys : source'[j].msg # 0 => source'[j] = source[j] /\ source[j].msg \notin S
    BY <2>2 DEF FateInv, Distinct
  <2>5. \A j \in Keys : source'[j].msg \in {0, source[j].msg}
    BY <2>2
  <2> HIDE DEF S
  <2> QED BY <1>0, <2>1, <2>3, <2>4, <2>5, DisturbFate
<1>3. ASSUME BreakStream PROVE FateInv'
  <2> DEFINE S == {receiver[k].msg : k \in open}
  <2>1. /\ S \in SUBSET Nat /\ disturbed' = disturbed \union S
        /\ messages' = messages /\ whole' = whole /\ over' = over
        /\ source' = source /\ open' = {}
    BY <1>1, <1>3 DEF BreakStream, sender
  <2>2. \A m \in S : m <= messages /\ m \notin whole
    BY <1>0, <1>1 DEF Numbered, Fate
  <2>3. \A j \in Keys : Assemble(receiver[j], ZeroEnd(j)).msg = 0
    BY <1>1, ZeroEndFacts
  <2>4. \A j \in Keys : receiver'[j].msg \in {0, receiver[j].msg}
    BY <1>3, <2>3 DEF BreakStream
  <2>5. \A j \in Keys : source[j].msg # 0 => source[j].msg \in disturbed'
    <3> SUFFICES ASSUME NEW j \in Keys, source[j].msg # 0, source[j].msg \notin disturbed
                 PROVE  source[j].msg \in S
      BY <2>1
    <3>1. j \in open /\ receiver[j].msg = source[j].msg
      BY <1>0 DEF Fate
    <3> QED BY <3>1
  <2> HIDE DEF S
  <2> QED BY <1>0, <2>1, <2>2, <2>4, <2>5, DisturbFate
<1>4. ASSUME Reset PROVE FateInv'
  <2> DEFINE S == {source[k].msg : k \in Keys} \ {0}
  <2>1. /\ S \in SUBSET Nat /\ disturbed' = disturbed \union S
        /\ messages' = messages /\ whole' = whole /\ over' = over
        /\ source' = source /\ receiver' = receiver /\ open' = {}
    BY <1>1, <1>4 DEF Reset, sender, downstream
  <2>2. \A m \in S : m <= messages /\ m \notin whole
    BY <1>0 DEF Numbered, Fate
  <2>3. \A j \in Keys : source[j].msg # 0 => source[j].msg \in disturbed'
    BY <2>1
  <2> HIDE DEF S
  <2> QED BY <1>0, <2>1, <2>2, <2>3, DisturbFate
<1>5. CASE UNCHANGED vars
  <2>1. UNCHANGED <<open, hole, source, messages, receiver, whole, disturbed, over>>
    BY <1>5 DEF vars, sender, downstream
  <2>2. Numbered' /\ Distinct' /\ OnlyBrokenLost' /\ \A j \in Keys : Fate(j)'
    BY <2>1 DEF FateInv, Numbered, Distinct, OnlyBrokenLost, Fate
  <2> QED BY <2>2 DEF FateInv
<1> QED BY <1>2, <1>3, <1>4, <1>5, DeliverFate, LoseFate DEF Next

LEMMA FateInit == Init => FateInv
<1> SUFFICES ASSUME Init PROVE FateInv
  OBVIOUS
<1>1. /\ \A k \in Keys : source[k].msg = 0 /\ receiver[k].msg = 0
      /\ messages = 0 /\ open = {} /\ whole = {} /\ disturbed = {} /\ over = {}
  BY DEF Init, Idle, Closed
<1>2. Numbered
  BY <1>1 DEF Numbered
<1>3. Distinct /\ OnlyBrokenLost /\ \A k \in Keys : Fate(k)
  BY <1>1 DEF Distinct, OnlyBrokenLost, Fate
<1> QED BY <1>2, <1>3 DEF FateInv

\* A message with nothing lost, and not under way at a hole, is delivered entire,
\* and no other message is: breakStream() and admit() cost no message but those
\* the hole has broken.
THEOREM GuardLosesOnlyBroken == Spec => []OnlyBrokenLost
<1>1. Init => InStep /\ NeverSpliced /\ FateInv
  BY FateInit DEF Init, InStep, NeverSpliced, Closed
<1>2. TypeOK /\ (InStep /\ NeverSpliced /\ FateInv) /\ [Next]_vars
        => (InStep /\ NeverSpliced /\ FateInv)'
  BY SpliceStep, FateStep DEF SpliceInv
<1>3. FateInv => OnlyBrokenLost
  BY DEF FateInv
<1> QED BY <1>1, <1>2, <1>3, GuardTypes, PTL DEF Spec
=============================================================================
