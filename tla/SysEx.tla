-------------------------------- MODULE SysEx --------------------------------
(***************************************************************************)
(* System Exclusive in UMP: what a sender puts out and what a receiver     *)
(* makes of it.  A message of several packets is a Start, Continues and an *)
(* End of one Message Type, Group and (SysEx8) Stream ID; its fields msg   *)
(* and part are ghosts that say which message a packet is cut from and     *)
(* where.  Sender and receiver are outside the repository's source.        *)
(***************************************************************************)
EXTENDS Ump

\* Status nibbles.
kComplete == 0
kStart    == 1
kContinue == 2
kEnd      == 3

\* Message Types.
SysEx7 == 3
SysEx8 == 5

\* Messages of one Key are sent one after the other; those of different Keys
\* may be interleaved.
Key == [mt : {SysEx7, SysEx8}, group : 0 .. 15, streamId : 0 .. 255]

Status == {kComplete, kStart, kContinue, kEnd}

SysExPacket(k, st, m, i) ==
    [mt |-> k.mt, group |-> k.group, streamId |-> k.streamId,
     status |-> st, msg |-> m, part |-> i]

KeyOf(p) == [mt |-> p.mt, group |-> p.group, streamId |-> p.streamId]

\* A zero-length End belongs to no message of the sender.
ZeroEnd(k) == SysExPacket(k, kEnd, 0, 0)

-----------------------------------------------------------------------------
(* The sender: for each Key, the message it is in the middle of (0: none)   *)
(* and how many of its packets are out.                                     *)

Idle == [msg |-> 0, part |-> 0]

\* The packets the sender may put out next for Key k, fresh being the number of
\* its next message and maxParts a bound on a message's length.
NextPackets(k, s, fresh, maxParts) ==
    IF s.msg = 0
    THEN {SysExPacket(k, kComplete, fresh, 1), SysExPacket(k, kStart, fresh, 1)}
    ELSE {SysExPacket(k, kEnd, s.msg, s.part + 1)} \union
         (IF s.part + 1 < maxParts
          THEN {SysExPacket(k, kContinue, s.msg, s.part + 1)} ELSE {})

AfterSending(p) ==
    IF p.status \in {kStart, kContinue}
    THEN [msg |-> p.msg, part |-> p.part] ELSE Idle

-----------------------------------------------------------------------------
(* The receiver's assembler: for each Key, the message being assembled, how *)
(* many packets it holds, and whether they are not the first ones, in order *)
(* and without a hole, of that one message.                                 *)

Closed == [msg |-> 0, parts |-> 0, mixed |-> FALSE]

Joins(a, p) == p.msg = a.msg /\ p.part = a.parts + 1

\* Assembly a after packet p of its Key.  A Continue with nothing open is not
\* part of any message; a Start abandons what was open.
Assemble(a, p) ==
    IF p.status = kStart THEN [msg |-> p.msg, parts |-> 1, mixed |-> FALSE]
    ELSE IF p.status = kContinue /\ a.msg # 0
    THEN [msg |-> a.msg, parts |-> a.parts + 1, mixed |-> a.mixed \/ ~Joins(a, p)]
    ELSE Closed

JoinsNothing(a, p) == p.status \in {kContinue, kEnd} /\ a.msg = 0

\* The End p finishes a message whose packets are not one message's: its own
\* hold together, but what they are joined to does not.
FinishesMixed(a, p) ==
    /\ p.status = kEnd /\ a.msg # 0
    /\ a.mixed \/ (p.msg # 0 /\ ~Joins(a, p))
=============================================================================
