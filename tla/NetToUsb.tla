------------------------------ MODULE NetToUsb ------------------------------
(***************************************************************************)
(* The network -> USB half of a bridge, message by message: onNetworkUmp() *)
(* of pico and pico_w and onUmp() of the nxp HOST build.  For each packet  *)
(* the session delivers the handler asks the gate, asks for room, and      *)
(* writes the packet, drops it, or writes a zero-length End in its place.  *)
(* The nxp HOST build writes into its own queue instead of the driver's    *)
(* (HostTxQueue); here both are a FIFO with room for some words.           *)
(*                                                                         *)
(* A session delivers a well-formed stream as long as it lasts: what it    *)
(* does to a stream with a hole in it is SysExStreamGuard's part.  When it *)
(* ends, whatever was under way is cut off, and the next session's sender  *)
(* meets the gate as the last one left it: nothing calls its reset().      *)
(***************************************************************************)
EXTENDS SysExDropGate, FiniteSets

CONSTANTS
    Keys,            \* the SysEx streams in use
    OtherTypes,      \* Message Types of the other traffic
    FifoWords,       \* room of the empty FIFO, in words
    MaxMessages,     \* bound: SysEx messages sent
    MaxParts,        \* bound: packets in a message
    MaxUnmounts,     \* bound: times the USB peer goes away
    Builds           \* the programs, as the Builds they are

\* WaitsForRoom: usbTxRoomFor() gives a slow peer time (pico).  DropsUnmounted:
\* nothing is looked at while unmounted (nxp).
Build == [WaitsForRoom : BOOLEAN, DropsUnmounted : BOOLEAN]

ASSUME NetToUsbAssumption ==
    /\ Keys \subseteq Key
    /\ \A k \in Keys : k.mt = SysEx7 => k.streamId = 0
    /\ OtherTypes \subseteq MessageType \ {SysEx7, SysEx8}
    /\ FifoWords \in Nat /\ MaxMessages \in Nat /\ MaxParts \in Nat
    /\ MaxUnmounts \in Nat
    /\ Builds \subseteq Build

Groups == {k.group : k \in Keys}

VARIABLES
    build,       \* which program runs; it never changes
    gate,        \* s_netToUsbGate
    stalled,     \* s_usbTxStalled: the last wait for room ran out
    room,        \* tud_ump_n_writeable() / tuh_ump_writeable() / hostTxRoom()
    mounted,     \* the USB peer is there
    source,      \* ghost: where the sender stands, for each Key
    messages,    \* ghost: SysEx messages sent so far
    receiver,    \* ghost: the USB peer's assembler, for each Key
    spoilt,      \* ghost: a message with a hole in it, or of two, was finished
    stray,       \* ghost: the rest of a message came with no message open
    refused,     \* ghost: messages with a packet there was no room for
    endRefused,  \* ghost: those whose End there was no room for
    suppressed,  \* ghost: messages with a packet the gate kept back
    unclosed,    \* ghost: Keys whose zero-length End found no room
    cut,         \* ghost: messages a session ended in the middle of
    unmounts     \* ghost: times the USB peer went away

sender  == <<source, messages, cut>>
verdict == <<refused, endRefused, suppressed, unclosed>>
wire    == <<receiver, spoilt, stray>>
vars    == <<build, gate, stalled, room, mounted, unmounts, sender, verdict, wire>>

WaitsForRoom   == build.WaitsForRoom
DropsUnmounted == build.DropsUnmounted

Init ==
    /\ build \in Builds
    /\ gate = [g \in Groups |-> EmptySlot]
    /\ stalled = FALSE /\ room = FifoWords /\ mounted = TRUE /\ unmounts = 0
    /\ source = [k \in Keys |-> Idle] /\ messages = 0 /\ cut = {}
    /\ receiver = [k \in Keys |-> Closed]
    /\ spoilt = FALSE /\ stray = FALSE
    /\ refused = {} /\ endRefused = {} /\ suppressed = {} /\ unclosed = {}

-----------------------------------------------------------------------------
(* The sender.                                                              *)

NextFrom(k) ==
    IF source[k].msg = 0 /\ messages >= MaxMessages THEN {}
    ELSE NextPackets(k, source[k], messages + 1, MaxParts)

\* Packet p of Key k is delivered by the session.
Sends(k, p) ==
    /\ p \in NextFrom(k)
    /\ source' = [source EXCEPT ![k] = AfterSending(p)]
    /\ messages' = IF source[k].msg = 0 THEN messages + 1 ELSE messages
    /\ UNCHANGED cut

\* The session ends, closed at the console or lost, and nothing more comes of the
\* messages under way.  Their Groups stay abandoned if they were.
SessionEnds ==
    /\ \E k \in Keys : source[k].msg # 0
    /\ source' = [k \in Keys |-> Idle]
    /\ cut' = cut \union {source[k].msg : k \in {j \in Keys : source[j].msg # 0}}
    /\ UNCHANGED <<build, gate, stalled, room, mounted, unmounts, messages, verdict, wire>>

OtherPacket(mt) ==
    [mt |-> mt, group |-> 0, streamId |-> 0, status |-> 0, msg |-> 0, part |-> 0]

-----------------------------------------------------------------------------
(* The USB side.                                                            *)

UsbTakes ==
    /\ mounted
    /\ room' \in room + 1 .. FifoWords
    /\ UNCHANGED <<build, gate, stalled, mounted, unmounts, sender, verdict, wire>>

\* The peer forgets what it was assembling, and there is no room to write to a
\* peer that is not there.  Nothing resets the gate.  (A replug takes longer than
\* a pass of the main loop: while there is a session, hostTxDrain() has emptied
\* the nxp queue by then.  What an ended session left there is HostTxQueue's part.)
Unmount ==
    /\ mounted /\ unmounts < MaxUnmounts
    /\ mounted' = FALSE /\ unmounts' = unmounts + 1
    /\ room' = 0
    /\ receiver' = [k \in Keys |-> Closed]
    /\ UNCHANGED <<build, gate, stalled, sender, verdict, spoilt, stray>>

Mount ==
    /\ ~mounted
    /\ mounted' = TRUE /\ room' = FifoWords
    /\ UNCHANGED <<build, gate, stalled, unmounts, sender, verdict, wire>>

-----------------------------------------------------------------------------
(* The handler.                                                             *)

\* What waiting may leave: the USB stack runs inside the wait.
RoomAfterWait ==
    IF WaitsForRoom /\ ~stalled /\ mounted THEN room .. FifoWords ELSE {room}

\* Mutant: the wait ran out and nobody looked.
HasRoom_Unchecked(words, r) ==
    /\ r \in IF room >= words THEN {room} ELSE RoomAfterWait
    /\ stalled' = IF room >= words THEN FALSE ELSE stalled

\* usbTxRoomFor(): r is the room found.  A wait that finds room leaves stalled
\* as it is, one that runs out sets it, and only room found at once clears it.
HasRoom(words, r) ==
    /\ r \in IF room >= words THEN {room} ELSE RoomAfterWait
    /\ r >= words
    /\ stalled' = IF room >= words THEN FALSE ELSE stalled

NoRoom(words, r) ==
    /\ room < words
    /\ r \in RoomAfterWait /\ r < words
    /\ stalled' = WaitsForRoom

\* Packet p is written: the receiver sees it.
Write(p) ==
    IF IsSysEx(p)
    THEN /\ receiver' = [receiver EXCEPT ![KeyOf(p)] = Assemble(@, p)]
         /\ spoilt' = (spoilt \/ FinishesMixed(receiver[KeyOf(p)], p))
         /\ stray' = (stray \/ JoinsNothing(receiver[KeyOf(p)], p))
    ELSE UNCHANGED wire

Looked == DropsUnmounted => mounted

\* nxp returns before it looks at anything.
Unseen(k, p) ==
    /\ Sends(k, p) /\ ~Looked
    /\ UNCHANGED <<build, gate, stalled, room, mounted, unmounts, verdict, wire>>

WritePacket(k, p) ==
    /\ Sends(k, p) /\ Looked /\ ~suppress(gate, p)
    /\ \E r \in 0 .. FifoWords :
          /\ HasRoom(umpWordCount(p.mt), r)
          /\ room' = r - umpWordCount(p.mt)
    /\ Write(p)
    /\ gate' = noteSent(gate, p)
    /\ unclosed' = IF p.status = kStart THEN unclosed \ {k} ELSE unclosed
    /\ UNCHANGED <<build, mounted, unmounts, refused, endRefused, suppressed>>

RefusePacket(k, p) ==
    /\ Sends(k, p) /\ Looked /\ ~suppress(gate, p)
    /\ \E r \in 0 .. FifoWords : NoRoom(umpWordCount(p.mt), r) /\ room' = r
    /\ gate' = noteRefused(gate, p)
    /\ refused' = refused \union {p.msg}
    /\ endRefused' = IF p.status = kEnd THEN endRefused \union {p.msg} ELSE endRefused
    /\ UNCHANGED <<build, mounted, unmounts, suppressed, unclosed, wire>>

\* A packet of an abandoned message; its End may be answered with a zero-length
\* End if there is room for that.
SuppressPacket(k, p) ==
    /\ Sends(k, p) /\ Looked /\ suppress(gate, p)
    /\ gate' = AfterTerminator(gate, p)
    /\ suppressed' = suppressed \union {p.msg}
    /\ IF TerminatorDue(gate, p) /\ room >= TerminatorWords
       THEN /\ Write(ZeroEnd(k))
            /\ room' = room - TerminatorWords
            /\ unclosed' = unclosed
       ELSE /\ unclosed' = IF TerminatorDue(gate, p) THEN unclosed \union {k} ELSE unclosed
            /\ UNCHANGED <<room, wire>>
    /\ UNCHANGED <<build, stalled, mounted, unmounts, refused, endRefused>>

\* Anything that is not SysEx: nothing to abandon.
OtherTraffic(mt) ==
    LET words == umpWordCount(mt)
    IN  /\ Looked
        /\ \/ \E r \in 0 .. FifoWords :
                /\ HasRoom(words, r) /\ room' = r - words
                /\ Write(OtherPacket(mt))
           \/ \E r \in 0 .. FifoWords :
                /\ NoRoom(words, r) /\ room' = r
                /\ UNCHANGED wire
        /\ UNCHANGED <<build, gate, mounted, unmounts, sender, verdict>>

SysExDelivery ==
    \E k \in Keys : \E p \in NextFrom(k) :
        \/ Unseen(k, p) \/ WritePacket(k, p) \/ RefusePacket(k, p) \/ SuppressPacket(k, p)

Next ==
    \/ SysExDelivery \/ SessionEnds
    \/ \E mt \in OtherTypes : OtherTraffic(mt)
    \/ UsbTakes \/ Unmount \/ Mount

Spec == Init /\ [][Next]_vars

-----------------------------------------------------------------------------
(* Properties.                                                              *)

TypeOK ==
    /\ build \in Builds
    /\ gate \in [Groups -> Slot]
    /\ {stalled, mounted, spoilt, stray} \subseteq BOOLEAN
    /\ room \in 0 .. FifoWords
    /\ source \in [Keys -> [msg : Nat, part : Nat]]
    /\ receiver \in [Keys -> [msg : Nat, parts : Nat, mixed : BOOLEAN]]
    /\ messages \in Nat /\ unmounts \in Nat
    /\ {refused, endRefused, suppressed, cut} \subseteq SUBSET Nat
    /\ unclosed \subseteq Keys

\* A busy USB side costs whole messages or ends them early; it never has the
\* receiver join parts of one message across a hole, or to another message
\* (Ump.h:116-139).
NeverSpliced == ~spoilt /\ \A k \in Keys : ~receiver[k].mixed

\* A message the sender is no longer in the middle of stays open at the receiver
\* only while the gate still owes its End, or when that End found no room (Ump.h:
\* 133-136), or when its session ended before it did.
OpenOnlyWhileOwed ==
    \A k \in Keys :
        receiver[k].msg # 0 /\ source[k].msg = 0 =>
            \/ gate[k.group].abandoning /\ gate[k.group].owesEnd
            \/ k \in unclosed \/ receiver[k].msg \in cut

\* Unless the peer was replaced, every Continue and every End, the zero-length
\* ones included, finds a message open at the receiver: what was refused at its
\* Start was never seen, and is owed nothing (Ump.h:130-132).
NothingStray == unmounts = 0 => ~stray

\* Messages that left their Group abandoned with nothing more of them to come:
\* refused at their very End, or cut off by the end of a session when they had
\* already lost something.
LeftArmed == endRefused \union (cut \intersect (refused \union suppressed))

\* As long as the handler looked at everything, a message with no packet of its
\* own refused loses packets to the gate only as the one that follows, on its
\* Group, a message that left it abandoned: one loss for each (Ump.h:158-190).
\* The code keeps no more than that: such a message does not belong "to a message
\* already being abandoned" (Ump.h:158), yet it is suppressed.
LossIsBounded ==
    (DropsUnmounted => unmounts = 0) =>
        Cardinality(suppressed \ refused) <= Cardinality(LeftArmed)
=============================================================================
