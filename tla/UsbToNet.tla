------------------------------ MODULE UsbToNet ------------------------------
(***************************************************************************)
(* The USB -> network half of a bridge: the loop that drains the USB       *)
(* receive FIFO through a UmpFramer into the session's transmit FIFO.      *)
(* Three programs carry the loop, in a HOST and a DEVICE build each:       *)
(* nxp/SessionTask.cpp, pico/main.cpp and pico_w/main.cpp.  They differ in *)
(* what a Build says; the control is the same and is modelled once.        *)
(*                                                                         *)
(* The USB stack, the peer behind it and the session are outside the       *)
(* repository's source.  A ghost in every word (its packet, its place in   *)
(* it, the packet's length) says what the peer meant; no action of the     *)
(* bridge reads it.                                                        *)
(***************************************************************************)
EXTENDS Ump

CONSTANTS
    MsgTypes,        \* Message Types the USB peer sends
    DataNibble,      \* what bits 31:28 of a packet's later words look like
    MaxPackets,      \* bound: packets the peer starts
    MaxUnmounts,     \* bound: times the peer goes away
    FifoWords,       \* capacity of the USB receive FIFO, in words
    TxSlots,         \* capacity of the session's transmit FIFO, in messages
    kMaxUmpPerPass,  \* reads per pass of the main loop
    Builds           \* the programs, as the Builds they are

\* DeviceRole: the build answers Stream messages itself.  GateWhenDown: traffic
\* is discarded unless Established (nxp).  Preemptive: the USB stack runs in a
\* task of its own (nxp).  kMaxUsbRefills: extra tud_task() calls per pass.
Build == [DeviceRole : BOOLEAN, GateWhenDown : BOOLEAN, Preemptive : BOOLEAN,
          kMaxUsbRefills : Nat]

ASSUME UsbToNetAssumption ==
    /\ MsgTypes \subseteq MessageType
    /\ DataNibble \in MessageType
    /\ MaxPackets \in Nat /\ MaxUnmounts \in Nat
    /\ FifoWords \in Nat \ {0} /\ TxSlots \in Nat \ {0}
    /\ kMaxUmpPerPass \in Nat \ {0}
    /\ Builds \subseteq Build

VARIABLES
    build,      \* which program runs; it never changes
    usb,        \* the USB receive FIFO
    framer,     \* s_usbDevFramer / s_usbHostFramer
    mounted,    \* the USB peer is there
    session,    \* what the loop can tell of the session's state
    txUsed,     \* messages in the session's transmit FIFO
    pc,         \* where the main loop stands
    drained,    \* reads made in this pass
    refills,    \* tud_task() calls made because the FIFO ran dry
    sending,    \* ghost: words of the packet the peer is still sending
    started,    \* ghost: packets the peer has started
    unmounts,   \* ghost: times the peer went away
    torn,       \* ghost: a peer went away with part of a packet in the framer
    sent,       \* ghost: the packets sendUmp() accepted, in order
    answered    \* ghost: the Stream packets answered locally

bridgeVars == <<framer, pc, drained, refills, txUsed, session, sent, answered>>
peerVars   == <<usb, sending, started, mounted, unmounts, torn>>
vars       == <<build, bridgeVars, peerVars>>

DeviceRole     == build.DeviceRole
GateWhenDown   == build.GateWhenDown
Preemptive     == build.Preemptive
kMaxUsbRefills == build.kMaxUsbRefills

Word == [mt : MessageType, pid : Nat, pos : 1 .. 4, len : 1 .. 4]

SessionState == {"NotStarted", "NotEstablished", "Established"}

\* The packet number pid of Message Type mt, as the peer puts it on the bus.
Packet(mt, pid) ==
    [i \in 1 .. umpWordCount(mt) |->
        [mt  |-> IF i = 1 THEN mt ELSE DataNibble,
         pid |-> pid, pos |-> i, len |-> umpWordCount(mt)]]

LowerOf(a, b) == IF a <= b THEN a ELSE b

Init ==
    /\ build \in Builds
    /\ usb = <<>> /\ framer = <<>> /\ mounted = TRUE
    /\ session = "NotStarted"
    /\ txUsed = 0
    /\ pc = "held" /\ drained = 0 /\ refills = 0
    /\ sending = <<>> /\ started = 0 /\ unmounts = 0 /\ torn = FALSE
    /\ sent = <<>> /\ answered = {}

-----------------------------------------------------------------------------
(* The USB side.                                                           *)

\* Where the USB stack can move words: in a task of its own at any time, or
\* inside tud_task()/tuh_task(), which the loop calls at its top, from the
\* session's tick and, in the pico DEVICE build, when the FIFO runs dry, and
\* which every wait of the menus and for the network pumps.
UsbRuns == Preemptive \/ pc \in {"held", "task", "refill", "tick"}

PeerStarts ==
    /\ UsbRuns /\ mounted
    /\ sending = <<>> /\ started < MaxPackets
    /\ \E mt \in MsgTypes : sending' = Packet(mt, started + 1)
    /\ started' = started + 1
    /\ UNCHANGED <<build, bridgeVars, usb, mounted, unmounts, torn>>

\* A transfer may end in the middle of a packet: words arrive one by one, and
\* a full FIFO holds the rest off.
WordArrives ==
    /\ UsbRuns /\ mounted
    /\ sending # <<>> /\ Len(usb) < FifoWords
    /\ usb' = Append(usb, Head(sending))
    /\ sending' = Tail(sending)
    /\ UNCHANGED <<build, bridgeVars, started, mounted, unmounts, torn>>

EndsAtBoundary(ws) == ws = <<>> \/ ws[Len(ws)].pos = ws[Len(ws)].len

\* tuh_ump_umount_cb(), or the stack's bus reset: the FIFO goes with the peer.
\* No callback touches the framer.
Unmount ==
    /\ UsbRuns /\ mounted /\ unmounts < MaxUnmounts
    /\ mounted' = FALSE
    /\ unmounts' = unmounts + 1
    /\ usb' = <<>> /\ sending' = <<>>
    /\ torn' = (torn \/ ~EndsAtBoundary(framer))
    /\ UNCHANGED <<build, bridgeVars, started>>

Mount ==
    /\ UsbRuns /\ ~mounted
    /\ mounted' = TRUE
    /\ UNCHANGED <<build, bridgeVars, usb, sending, started, unmounts, torn>>

UsbSide == PeerStarts \/ WordArrives \/ Unmount \/ Mount

-----------------------------------------------------------------------------
(* The main loop.                                                          *)

\* Start-up, and what a setup asked for later leads back to: the boot window and
\* the wait for an address (nxp), or every menu and wait outside the run loop
\* (pico, pico_w).  Nothing is drained; no session is up.
HeldUp ==
    /\ pc = "task"
    /\ pc' = "held" /\ session' = "NotStarted" /\ txUsed' = 0
    /\ UNCHANGED <<build, peerVars, framer, drained, refills, sent, answered>>

\* The run loop is entered, with a session begun or without.
Resumes ==
    /\ pc = "held"
    /\ pc' = "task" /\ session' \in {"NotStarted", "NotEstablished"}
    /\ UNCHANGED <<build, peerVars, framer, drained, refills, txUsed, sent, answered>>

txSpaceAvailable == IF session = "Established" THEN TxSlots - txUsed ELSE 0

\* tud_task() / tuh_task() at the top of the pass has run.
BeginPass ==
    /\ pc = "task"
    /\ pc' = "drain" /\ drained' = 0 /\ refills' = 0
    /\ UNCHANGED <<build, peerVars, framer, txUsed, session, sent, answered>>

\* The loop condition with something to read: room in the session is checked
\* before the FIFO is touched.
\* Mutant: a new read waits for the framer to run empty.
MayRead_EmptyFramer == session = "Established" => txSpaceAvailable > 0 /\ framer = <<>>

MayRead == ~(session = "Established" /\ txSpaceAvailable = 0)

\* Mutant: drains "while available".
EnterIteration_Unbounded ==
    /\ pc \in {"drain", "refill"}
    /\ pc = "drain" => mounted
    /\ usb # <<>>
    /\ IF MayRead THEN pc' = "read" /\ drained' = drained + 1
                  ELSE pc' = "tick" /\ UNCHANGED drained
    /\ UNCHANGED <<build, peerVars, framer, refills, txUsed, session, sent, answered>>

EnterIteration ==
    /\ pc \in {"drain", "refill"}
    /\ pc = "drain" => mounted /\ drained < kMaxUmpPerPass
    /\ usb # <<>>
    /\ IF MayRead THEN pc' = "read" /\ drained' = drained + 1
                  ELSE pc' = "tick" /\ UNCHANGED drained
    /\ UNCHANGED <<build, peerVars, framer, refills, txUsed, session, sent, answered>>

Refill ==
    /\ pc = "drain" /\ mounted /\ drained < kMaxUmpPerPass
    /\ usb = <<>> /\ refills < kMaxUsbRefills
    /\ pc' = "refill" /\ refills' = refills + 1
    /\ UNCHANGED <<build, peerVars, framer, drained, txUsed, session, sent, answered>>

LeaveLoop ==
    /\ \/ pc = "drain" /\ (~mounted \/ drained >= kMaxUmpPerPass)
       \/ pc = "drain" /\ usb = <<>> /\ refills >= kMaxUsbRefills
       \/ pc = "refill" /\ usb = <<>>
    /\ pc' = "tick"
    /\ UNCHANGED <<build, peerVars, framer, drained, refills, txUsed, session, sent, answered>>

\* Up to four words, only when the framer can take them all.  The FIFO may have
\* been emptied by an unmount since it was tested; the HOST builds then leave
\* the loop when the framer is empty too.
ReadUsb ==
    LET wc == LowerOf(4, Len(usb))
    IN  /\ pc = "read"
        /\ IF hasRoomFor(framer, 4)
           THEN /\ framer' = push(framer, SubSeq(usb, 1, wc))
                /\ usb' = SubSeq(usb, wc + 1, Len(usb))
                /\ pc' = IF ~DeviceRole /\ wc = 0 /\ framer = <<>>
                         THEN "tick" ELSE "packets"
           ELSE /\ pc' = "packets"
                /\ UNCHANGED <<framer, usb>>
        /\ UNCHANGED <<build, sending, started, mounted, unmounts, torn,
                       drained, refills, txUsed, session, sent, answered>>

HeadPacket == SubSeq(framer, 1, peek(framer))
\* Mutant: judges the type by the last word of the packet.
HeadIsAnswered_LastWord == DeviceRole /\ framer[peek(framer)].mt = StreamMessage

HeadIsAnswered == DeviceRole /\ framer[1].mt = StreamMessage

\* Mutant: the nxp builds gate as the pico builds do.
Gated_NotStarted == session = "NotStarted"

\* The session is not there to take the packet: nxp discards whatever comes
\* before Established, pico and pico_w only what comes before beginClient() or
\* beginHost().
Gated ==
    IF GateWhenDown THEN session # "Established" ELSE session = "NotStarted"

AtPacket == pc = "packets" /\ peek(framer) # 0

\* UMPHandler.processUMP() answers; nothing is relayed.
AnswerStream ==
    /\ AtPacket /\ HeadIsAnswered
    /\ answered' = answered \union {framer[1].pid}
    /\ framer' = consume(framer, peek(framer))
    /\ UNCHANGED <<build, peerVars, pc, drained, refills, txUsed, session, sent>>

SendAccepted ==
    /\ AtPacket /\ ~HeadIsAnswered /\ ~Gated
    /\ txSpaceAvailable > 0
    /\ sent' = Append(sent, HeadPacket)
    /\ txUsed' = txUsed + 1
    /\ framer' = consume(framer, peek(framer))
    /\ UNCHANGED <<build, peerVars, pc, drained, refills, session, answered>>

\* Mutant: the refused packet is consumed.
SendRefused_Lost ==
    /\ AtPacket /\ ~HeadIsAnswered /\ ~Gated
    /\ txSpaceAvailable = 0
    /\ pc' = "tick"
    /\ framer' = consume(framer, peek(framer))
    /\ UNCHANGED <<build, peerVars, drained, refills, txUsed, session, sent, answered>>

\* sendUmp() returns false: the packet stays and the loop is left.
SendRefused ==
    /\ AtPacket /\ ~HeadIsAnswered /\ ~Gated
    /\ txSpaceAvailable = 0
    /\ pc' = "tick"
    /\ UNCHANGED <<build, peerVars, framer, drained, refills, txUsed, session, sent, answered>>

DiscardGated ==
    /\ AtPacket /\ ~HeadIsAnswered /\ Gated
    /\ framer' = consume(framer, peek(framer))
    /\ UNCHANGED <<build, peerVars, pc, drained, refills, txUsed, session, sent, answered>>

NoWholePacket ==
    /\ pc = "packets" /\ peek(framer) = 0
    /\ pc' = "drain"
    /\ UNCHANGED <<build, peerVars, framer, drained, refills, txUsed, session, sent, answered>>

\* tick(): the session transmits part of its FIFO, at least one message when it
\* holds any.
Tick ==
    /\ pc = "tick"
    /\ \E n \in 0 .. txUsed : (n < txUsed \/ txUsed = 0) /\ txUsed' = n
    /\ pc' = "task"
    /\ UNCHANGED <<build, peerVars, framer, drained, refills, session, sent, answered>>

\* The session changes state: inside tick(), or when the console code that runs
\* after it begins or closes one.  Its FIFO does not outlive it.
SessionMoves ==
    /\ pc = "tick"
    /\ session' \in SessionState \ {session}
    /\ txUsed' = 0
    /\ UNCHANGED <<build, peerVars, framer, pc, drained, refills, sent, answered>>

DrainLoop ==
    \/ BeginPass \/ EnterIteration \/ Refill \/ LeaveLoop \/ ReadUsb
    \/ AnswerStream \/ SendAccepted \/ SendRefused \/ DiscardGated
    \/ NoWholePacket \/ Tick

Next == DrainLoop \/ SessionMoves \/ HeldUp \/ Resumes \/ UsbSide

Spec == Init /\ [][Next]_vars

\* Between HeldUp and Resumes the loop does not run, and nothing says that it
\* will again: an address may never come, a menu may wait for ever.  In between
\* it is the program's only thread of this work and waits on nothing.  Nothing is
\* assumed of the peer or of the network.
FairSpec == Spec /\ WF_vars(DrainLoop)

-----------------------------------------------------------------------------
(* Properties.                                                             *)

TypeOK ==
    /\ build \in Builds
    /\ usb \in Seq(Word) /\ Len(usb) <= FifoWords
    /\ framer \in Seq(Word) /\ Len(framer) <= kCapacity
    /\ sending \in Seq(Word) /\ Len(sending) <= 4
    /\ mounted \in BOOLEAN /\ torn \in BOOLEAN
    /\ session \in SessionState
    /\ txUsed \in 0 .. TxSlots
    /\ pc \in {"held", "task", "drain", "refill", "read", "packets", "tick"}
    /\ drained \in 0 .. kMaxUmpPerPass /\ refills \in 0 .. kMaxUsbRefills
    /\ started \in Nat /\ unmounts \in Nat
    /\ sent \in Seq(Seq(Word))
    /\ answered \in SUBSET Nat

(* Framing.  The line is what the peer has put on the bus and the bridge has *)
(* not disposed of yet: the framer, then the FIFO, then the words of the     *)
(* packet still being sent.                                                  *)

Line == framer \o usb \o sending

Follows(a, b) ==
    IF a.pos < a.len
    THEN b.pid = a.pid /\ b.pos = a.pos + 1 /\ b.len = a.len
    ELSE b.pos = 1

\* Whole packets, one after the other.
Framed(ws) ==
    /\ ws # <<>> => ws[1].pos = 1 /\ EndsAtBoundary(ws)
    /\ \A i \in 1 .. Len(ws) - 1 : Follows(ws[i], ws[i + 1])
    /\ \A i \in 1 .. Len(ws) :
          ws[i].pos = 1 => umpWordCount(ws[i].mt) = ws[i].len

\* Unless a peer was unplugged mid-packet, the framer's first word is the first
\* word of a packet the peer sent and every packet on the line is whole, so
\* umpWordCount() is never applied to a word from the middle of a packet
\* (Ump.h:89-96).
LineFramed == ~torn => Framed(Line)

Whole(p) ==
    /\ Len(p) \in 1 .. 4
    /\ \A i \in 1 .. Len(p) :
          p[i].pos = i /\ p[i].pid = p[1].pid /\ p[i].len = Len(p)

\* What sendUmp() accepts is one packet of the peer, entire and in one piece,
\* whatever the reads did to it, and in the DEVICE builds it is never a Stream
\* message (nxp/SessionTask.cpp:2315-2336, pico/main.cpp:993-1014).
SentWhole ==
    ~torn => \A k \in 1 .. Len(sent) :
               /\ Whole(sent[k])
               /\ DeviceRole => sent[k][1].mt # StreamMessage

\* Ump.h:3, "never hand a half-read packet to a session", with no exception for
\* a device that is unplugged.
NeverHalfPacket == \A k \in 1 .. Len(sent) : Whole(sent[k])

(* Progress, for a peer that stays plugged in.                             *)

HeadWaits(p) == peek(framer) # 0 /\ framer[1].pid = p

\* A packet the session refused is offered again, and gets through, as long as
\* the USB FIFO has more behind it (the loop is entered on account of the FIFO:
\* nxp/SessionTask.cpp:2290-2291).
RetriedWhileUsbHasData ==
    \A p \in 1 .. MaxPackets :
        ~<>[](HeadWaits(p) /\ session = "Established" /\ mounted /\ usb # <<>>)

StreamHasArrived(p) ==
    LET ws == framer \o usb
    IN  /\ \E i \in DOMAIN ws : ws[i].pid = p /\ ws[i].pos = 1 /\ ws[i].mt = StreamMessage
        /\ \E i \in DOMAIN ws : ws[i].pid = p /\ ws[i].pos = ws[i].len

OnlyStreamAhead(p) ==
    LET ws == framer \o usb
    IN  \A i \in DOMAIN ws :
           ws[i].pid < p /\ ws[i].pos = 1 => ws[i].mt = StreamMessage

\* What is in front of packet p is sure to be disposed of: it is discarded as
\* long as nothing was ever relayed, by a build that discards while no session is
\* up, or answered.
WayIsClear(p) ==
    \/ GateWhenDown /\ session # "Established" /\ sent = <<>>
    \/ ~torn /\ OnlyStreamAhead(p)

\* A USB host's discovery request is answered, session or none (nxp/SessionTask.
\* cpp:2261-2271, pico/main.cpp:975-983), once the board is in its run loop and
\* stays there.  The code keeps no more than that: "runs every tick regardless of
\* session state" is not so before an address is there, and on pico and pico_w a
\* data packet that the session refuses keeps the request behind it.
DiscoveryAnswered ==
    DeviceRole
      => \A p \in 1 .. MaxPackets :
           ~<>[](StreamHasArrived(p) /\ mounted /\ pc # "held" /\ WayIsClear(p))

\* The packets waiting on the line, by their numbers.
Waiting == {Line[i].pid : i \in DOMAIN Line}

Accepted == [k \in 1 .. Len(sent) |-> sent[k][1].pid]

Pipe == INSTANCE PacketPipe
          WITH queue <- Waiting, written <- started, accepted <- Accepted,
               up <- session = "Established"

\* Up to the moment a peer is torn off mid-packet the loop is an in-order pipe
\* of whole packets: each goes to the session once and in order, is answered,
\* or is discarded while no session is Established.
ImplementsPacketPipe ==
    Pipe!Init /\ [][torn' \/ Pipe!Next \/ UNCHANGED Pipe!vars]_vars
=============================================================================
