----------------------------- MODULE HostTxQueue -----------------------------
(***************************************************************************)
(* The egress queue of the nxp HOST build (nxp/SessionTask.cpp:1130-1205): *)
(* onUmp() appends to a ring of words, hostTxDrain() moves runs of whole   *)
(* packets into the driver.  Both run in the session task, and only while  *)
(* there is a session: onUmp() inside its tick(), hostTxDrain() behind it. *)
(* The USB stack, and with it mounting and the driver's room, runs in a    *)
(* task of its own.                                                        *)
(*                                                                         *)
(* What the gate decides about each packet is NetToUsb's part: here any    *)
(* packet may be kept back, and a zero-length End pushed in its place.     *)
(***************************************************************************)
EXTENDS Ump

CONSTANTS
    kHostTxQWords,   \* the ring
    DriverWords,     \* room of the driver's empty transmit FIFO
    MsgTypes,        \* Message Types the network delivers
    DataNibble,      \* what bits 31:28 of a packet's later words look like
    EndTypes,        \* Message Types of the gate's zero-length Ends
    MaxPackets,      \* bound: packets and Ends pushed
    MaxUnmounts      \* bound: times the device goes away

ASSUME HostTxQueueAssumption ==
    /\ kHostTxQWords \in Nat /\ kHostTxQWords >= 4
    /\ DriverWords \in Nat /\ DriverWords >= 4
    /\ MsgTypes \subseteq MessageType /\ EndTypes \subseteq MessageType
    /\ DataNibble \in MessageType
    /\ MaxPackets \in Nat /\ MaxUnmounts \in Nat

VARIABLES
    s_hostTxQ,       \* the ring
    head,            \* s_hostTxHead: index of the oldest word
    count,           \* s_hostTxCount: words queued
    session,         \* gSession is not null
    mounted,         \* s_usbHostMounted
    writeable,       \* tuh_ump_writeable()
    pc,              \* "drain" inside hostTxDrain(), "other" elsewhere
    room,            \* hostTxDrain()'s copy of it
    pushed,          \* ghost: packets and Ends pushed
    queued,          \* ghost: words pushed since the queue was last cleared
    written,         \* ghost: words the driver took since then
    torn,            \* ghost: a write call began or ended inside a packet
    unmounts         \* ghost: times the device went away

ghosts == <<pushed, queued, written, torn>>
usb    == <<mounted, writeable, unmounts>>
vars   == <<s_hostTxQ, head, count, session, pc, room, ghosts, usb>>

Word == [mt : MessageType, pid : Nat, pos : 1 .. 4, len : 1 .. 4]

\* A packet of n words; its number, and each word's place in it, are ghosts.
Packet(mt, n, pid) ==
    [i \in 1 .. n |-> [mt |-> IF i = 1 THEN mt ELSE DataNibble,
                       pid |-> pid, pos |-> i, len |-> n]]

Blank == [mt |-> 0, pid |-> 0, pos |-> 1, len |-> 1]

Init ==
    /\ s_hostTxQ = [i \in 0 .. kHostTxQWords - 1 |-> Blank] /\ head = 0 /\ count = 0
    /\ mounted = FALSE /\ writeable = 0 /\ unmounts = 0
    /\ session = FALSE /\ pc = "other" /\ room = 0
    /\ pushed = 0 /\ queued = <<>> /\ written = <<>> /\ torn = FALSE

-----------------------------------------------------------------------------
(* The USB task.                                                            *)

Mount ==
    /\ ~mounted
    /\ mounted' = TRUE /\ writeable' = DriverWords
    /\ UNCHANGED <<s_hostTxQ, head, count, session, pc, room, ghosts, unmounts>>

Unmount ==
    /\ mounted /\ unmounts < MaxUnmounts
    /\ mounted' = FALSE /\ writeable' = 0 /\ unmounts' = unmounts + 1
    /\ UNCHANGED <<s_hostTxQ, head, count, session, pc, room, ghosts>>

DeviceTakes ==
    /\ mounted
    /\ writeable' \in writeable + 1 .. DriverWords
    /\ UNCHANGED <<s_hostTxQ, head, count, session, pc, room, ghosts, mounted, unmounts>>

-----------------------------------------------------------------------------
(* onUmp().                                                                 *)

hostTxRoom == kHostTxQWords - count

\* Mutant: the head is left out of the write position.
PushIndex_FromStart(i) == (count + i) % kHostTxQWords

\* Where word i of what is pushed goes.
PushIndex(i) == (head + count + i) % kHostTxQWords

hostTxPush(ws) ==
    /\ s_hostTxQ' = [j \in 0 .. kHostTxQWords - 1 |->
                       IF \E i \in 0 .. Len(ws) - 1 : j = PushIndex(i)
                       THEN ws[1 + CHOOSE i \in 0 .. Len(ws) - 1 : j = PushIndex(i)]
                       ELSE s_hostTxQ[j]]
    /\ count' = count + Len(ws)
    /\ queued' = queued \o ws
    /\ pushed' = pushed + 1

\* Mutant: room for one word is room enough.
Fits_OneWord(n) == hostTxRoom > 0

Fits(n) == hostTxRoom >= n

\* A packet the gate lets through, with room for all of it.
PushPacket ==
    /\ pc = "other" /\ session /\ mounted /\ pushed < MaxPackets
    /\ \E mt \in MsgTypes :
          /\ Fits(umpWordCount(mt))
          /\ hostTxPush(Packet(mt, umpWordCount(mt), pushed + 1))
    /\ UNCHANGED <<head, session, pc, room, written, torn, usb>>

\* terminatorFor() returned 2: the zero-length End is two words of whichever
\* Message Type the abandoned message had.
PushEnd ==
    /\ pc = "other" /\ session /\ mounted /\ pushed < MaxPackets
    /\ Fits(2)
    /\ \E mt \in EndTypes : hostTxPush(Packet(mt, 2, pushed + 1))
    /\ UNCHANGED <<head, session, pc, room, written, torn, usb>>

-----------------------------------------------------------------------------
(* hostTxDrain().                                                           *)

LowerOf(a, b) == IF a <= b THEN a ELSE b

At(i) == s_hostTxQ[(head + i) % kHostTxQWords]

Contiguous == LowerOf(count, kHostTxQWords - head)

\* The longest run of whole packets from word t on, no longer than limit: where
\* it ends.
RunEnd(limit) ==
    LET end[t \in 0 .. limit] ==
          IF t < limit /\ t + umpWordCount(At(t).mt) <= limit
          THEN end[t + umpWordCount(At(t).mt)] ELSE t
    IN  end[0]

take == RunEnd(LowerOf(Contiguous, room))

\* Mutant: a packet at the end of the ring is not copied out.
Straddles_Never == 0

\* Length of the packet at the head when it lies across the ring's end.
Straddles ==
    IF umpWordCount(At(0).mt) <= LowerOf(room, count) THEN umpWordCount(At(0).mt) ELSE 0

RunLength == IF take > 0 THEN take ELSE Straddles

\* The queue is thrown away with the device, if a session is there to see it go.
ClearQueue ==
    /\ pc = "other" /\ session /\ ~mounted
    /\ head' = 0 /\ count' = 0
    /\ queued' = <<>> /\ written' = <<>>
    /\ UNCHANGED <<s_hostTxQ, session, pc, room, pushed, torn, usb>>

BeginDrain ==
    /\ pc = "other" /\ session /\ mounted
    /\ pc' = "drain" /\ room' = writeable
    /\ UNCHANGED <<s_hostTxQ, head, count, session, ghosts, usb>>

\* tuh_ump_write_hton() of a run of whole packets, or of the one packet that
\* lies across the ring's end.  A driver whose device is gone takes nothing.
WriteRun ==
    /\ pc = "drain" /\ count > 0 /\ room > 0 /\ RunLength > 0
    /\ LET wrote == IF mounted THEN LowerOf(RunLength, writeable) ELSE 0
           run   == [i \in 1 .. wrote |-> At(i - 1)]
       IN  IF wrote = 0
           THEN /\ pc' = "other"
                /\ UNCHANGED <<head, count, room, written, torn, writeable>>
           ELSE /\ head' = (head + wrote) % kHostTxQWords
                /\ count' = count - wrote
                /\ room' = room - wrote
                /\ writeable' = writeable - wrote
                /\ written' = written \o run
                /\ torn' = (torn \/ run[1].pos # 1 \/ run[wrote].pos # run[wrote].len)
                /\ UNCHANGED pc
    /\ UNCHANGED <<s_hostTxQ, session, pushed, queued, mounted, unmounts>>

EndDrain ==
    /\ pc = "drain"
    /\ count = 0 \/ room = 0 \/ RunLength = 0
    /\ pc' = "other"
    /\ UNCHANGED <<s_hostTxQ, head, count, session, room, ghosts, usb>>

Drain == ClearQueue \/ BeginDrain \/ WriteRun \/ EndDrain

-----------------------------------------------------------------------------
(* The session.                                                             *)

\* doBeginHost() / doBeginClient().
BeginSession ==
    /\ pc = "other" /\ ~session
    /\ session' = TRUE
    /\ UNCHANGED <<s_hostTxQ, head, count, pc, room, ghosts, usb>>

\* destroySession(): what it still delivers is pushed, but not drained, and the
\* ring stays as it is.
EndSession ==
    /\ pc = "other" /\ session
    /\ session' = FALSE
    /\ UNCHANGED <<s_hostTxQ, head, count, pc, room, ghosts, usb>>

Next ==
    \/ PushPacket \/ PushEnd \/ Drain
    \/ BeginSession \/ EndSession
    \/ Mount \/ Unmount \/ DeviceTakes

Spec == Init /\ [][Next]_vars

\* While there is a session, hostTxDrain() is called on every pass of the main
\* loop, which never waits for the device; without one Drain is not enabled and
\* nothing is asked of it.  A device that stays mounted goes on reading.  Nothing
\* is assumed of when sessions begin and end.
FairSpec == Spec /\ WF_vars(Drain) /\ WF_vars(DeviceTakes)

-----------------------------------------------------------------------------
(* Properties.                                                              *)

TypeOK ==
    /\ s_hostTxQ \in [0 .. kHostTxQWords - 1 -> Word]
    /\ head \in 0 .. kHostTxQWords - 1 /\ count \in 0 .. kHostTxQWords
    /\ {session, mounted, torn} \subseteq BOOLEAN
    /\ writeable \in 0 .. DriverWords /\ room \in 0 .. DriverWords
    /\ pc \in {"other", "drain"}
    /\ queued \in Seq(Word) /\ written \in Seq(Word)
    /\ pushed \in Nat /\ unmounts \in Nat

\* The words in the ring, oldest first.
Queue == [i \in 1 .. count |-> At(i - 1)]

\* Nothing is lost, repeated or reordered on the way through the ring, wherever
\* it wraps, and every write call begins and ends at a packet
\* (nxp/SessionTask.cpp:1149, "Whole packets only, in order").
InOrder == queued = written \o Queue /\ ~torn

\* What is queued reaches a device that stays mounted and goes on reading, as
\* long as a session stays: packets left behind by one session wait for the next
\* (nxp/SessionTask.cpp:1149-1151, "drained into the driver as it has room, every
\* loop pass", is so only inside "if (gSession)", line 2376).
Drained == ~<>[](session /\ mounted /\ count > 0)
=============================================================================
