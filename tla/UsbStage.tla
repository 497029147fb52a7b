------------------------------ MODULE UsbStage ------------------------------
(***************************************************************************)
(* Network -> USB in the nxp DEVICE build (nxp/SessionTask.cpp:1259-1391): *)
(* onUmp() collects runs of packets in s_usbStage, which is written to     *)
(* tusb_ump in one call at the end of the session's tick().  Room is asked *)
(* for when a packet is taken, and the packet is written much later: in    *)
(* between, the USB task runs as it likes.  The UMP Stream replies of the  *)
(* same build are written straight to tusb_ump (1402-1452).                *)
(*                                                                         *)
(* What the gate decides about each packet is NetToUsb's part: here any    *)
(* packet may be kept back, with or without a zero-length End.             *)
(***************************************************************************)
EXTENDS Ump

CONSTANTS
    StageWords,      \* TU_ARRAY_SIZE(s_usbStage)
    FifoWords,       \* room of tusb_ump's empty transmit FIFO
    MsgTypes,        \* Message Types the network delivers
    MaxPackets,      \* bound: packets delivered
    MaxPerCall,      \* bound: packets in one call of onUmp()
    MaxReplies,      \* bound: Stream replies written
    MaxUnmounts      \* bound: times the USB host goes away

ASSUME UsbStageAssumption ==
    /\ StageWords \in Nat \ {0} /\ FifoWords \in Nat
    /\ MsgTypes \subseteq MessageType
    /\ MaxPackets \in Nat /\ MaxPerCall \in Nat
    /\ MaxReplies \in Nat /\ MaxUnmounts \in Nat

VARIABLES
    stage,           \* s_usbStage, of s_usbStageWords words
    run,             \* runStart, runWords: the pending run of packets
    writeable,       \* tud_ump_n_writeable()
    mounted,         \* tud_ump_n_mounted()
    pc,              \* "tick", inside onUmp() "call", or "drain"
    taken,           \* ghost: packets and Ends taken for USB, in order
    written,         \* ghost: words of theirs tusb_ump took, in order
    torn,            \* ghost: tusb_ump took part of what onUmp() handed over
    delivered,       \* ghost: packets delivered
    inCall,          \* ghost: packets delivered in this call
    replies,         \* ghost: Stream replies written
    unmounts         \* ghost: times the USB host went away

ghosts == <<taken, delivered, inCall, replies>>
usb    == <<writeable, mounted, unmounts>>
vars   == <<stage, run, pc, written, torn, ghosts, usb>>

Words(id, n) == [i \in 1 .. n |-> <<id, i>>]

Init ==
    /\ stage = <<>> /\ run = <<>> /\ pc = "tick"
    /\ writeable = FifoWords /\ mounted = TRUE /\ unmounts = 0
    /\ taken = <<>> /\ written = <<>> /\ torn = FALSE
    /\ delivered = 0 /\ inCall = 0 /\ replies = 0

-----------------------------------------------------------------------------
(* The USB task.                                                            *)

HostTakes ==
    /\ mounted
    /\ writeable' \in writeable + 1 .. FifoWords
    /\ UNCHANGED <<stage, run, pc, written, torn, ghosts, mounted, unmounts>>

\* The stack empties its FIFO when the bus is reset or the host goes away.
Unmount ==
    /\ mounted /\ unmounts < MaxUnmounts
    /\ mounted' = FALSE /\ writeable' = FifoWords /\ unmounts' = unmounts + 1
    /\ UNCHANGED <<stage, run, pc, written, torn, ghosts>>

Mount ==
    /\ ~mounted
    /\ mounted' = TRUE
    /\ UNCHANGED <<stage, run, pc, written, torn, ghosts, writeable, unmounts>>

-----------------------------------------------------------------------------
(* Writing.                                                                 *)

LowerOf(a, b) == IF a <= b THEN a ELSE b

\* Where writing stands: words in the FIFO's way, words taken, torn or not.
Sink == [room |-> writeable, out |-> written, torn |-> torn]

\* Part of n words fits, and not all of them.
Cut(s, n) == mounted /\ 0 < s.room /\ s.room < n

\* tud_ump_write_hton(): takes what fits, nothing while unmounted.
Put(s, ws) ==
    LET n == IF mounted THEN LowerOf(Len(ws), s.room) ELSE 0
    IN  [room |-> s.room - n,
         out  |-> s.out \o SubSeq(ws, 1, n),
         torn |-> s.torn \/ Cut(s, Len(ws))]

Wrote(s) == writeable' = s.room /\ written' = s.out /\ torn' = s.torn

\* What flushRun() leaves: the stage and the sink.
\* Mutant: the run is copied behind the stage whether or not it fits.
FlushRun_Unchecked == [stage |-> stage \o run, sink |-> Sink]

\* Mutant: a run larger than the stage overtakes it.
FlushRun_Overtakes ==
    IF Len(run) > StageWords THEN [stage |-> stage, sink |-> Put(Sink, run)]
    ELSE IF Len(stage) + Len(run) > StageWords
    THEN [stage |-> run, sink |-> Put(Sink, stage)]
    ELSE [stage |-> stage \o run, sink |-> Sink]

\* A stage with no room for the run is written first; a run larger than the
\* stage is written after it.
FlushRun ==
    LET flushed == run # <<>> /\ Len(stage) + Len(run) > StageWords
        left    == IF flushed THEN <<>> ELSE stage
        sink    == IF flushed THEN Put(Sink, stage) ELSE Sink
    IN  IF Len(run) > StageWords
        THEN [stage |-> left, sink |-> Put(sink, run)]
        ELSE [stage |-> left \o run, sink |-> sink]

\* Mutant: what is staged is forgotten.
usbRoomWords_Raw(room, staged) == room

usbRoomWords(room, staged) == IF room > Len(staged) THEN room - Len(staged) ELSE 0

-----------------------------------------------------------------------------
(* onUmp(), packet by packet.                                               *)

\* The session delivers inside tick(); nothing is done for an unmounted host.
Call ==
    /\ pc = "tick" /\ mounted /\ delivered < MaxPackets
    /\ pc' = "call" /\ inCall' = 0
    /\ UNCHANGED <<stage, run, written, torn, taken, delivered, replies, usb>>

NextPacket ==
    /\ pc = "call" /\ delivered < MaxPackets /\ inCall < MaxPerCall
    /\ delivered' = delivered + 1 /\ inCall' = inCall + 1

\* There is room on top of the pending run.
JoinRun ==
    /\ NextPacket
    /\ \E mt \in MsgTypes :
          LET n == umpWordCount(mt)
          IN  /\ usbRoomWords(writeable, stage) >= Len(run) + n
              /\ run' = run \o Words(delivered + 1, n)
              /\ taken' = taken \o Words(delivered + 1, n)
    /\ UNCHANGED <<stage, pc, written, torn, replies, usb>>

\* There is not: the run is flushed, and the packet begins another or is refused.
\* The USB task may have made room meanwhile.
BreakRun ==
    /\ NextPacket
    /\ \E mt \in MsgTypes, more \in 0 .. FifoWords :
          LET n == umpWordCount(mt)
              f == FlushRun
              r == f.sink.room + more
          IN  /\ usbRoomWords(writeable, stage) < Len(run) + n
              /\ more = 0 \/ (mounted /\ r <= FifoWords)
              /\ stage' = f.stage
              /\ Wrote([f.sink EXCEPT !.room = r])
              /\ IF usbRoomWords(r, f.stage) < n
                 THEN run' = <<>> /\ UNCHANGED taken
                 ELSE /\ run' = Words(delivered + 1, n)
                      /\ taken' = taken \o Words(delivered + 1, n)
    /\ UNCHANGED <<pc, replies, mounted, unmounts>>

\* The gate keeps the packet back.
Suppress ==
    /\ NextPacket
    /\ stage' = FlushRun.stage /\ run' = <<>> /\ Wrote(FlushRun.sink)
    /\ UNCHANGED <<pc, taken, replies, mounted, unmounts>>

\* ... and a zero-length End goes out in its place, after what is staged.
SuppressEnd ==
    /\ NextPacket
    /\ LET f == FlushRun
           s == Put(Put(f.sink, f.stage), Words(delivered + 1, 2))
       IN  /\ usbRoomWords(f.sink.room, f.stage) >= 2
           /\ stage' = <<>> /\ run' = <<>> /\ Wrote(s)
    /\ taken' = taken \o Words(delivered + 1, 2)
    /\ UNCHANGED <<pc, replies, mounted, unmounts>>

Return ==
    /\ pc = "call"
    /\ pc' = "tick"
    /\ stage' = FlushRun.stage /\ run' = <<>> /\ Wrote(FlushRun.sink)
    /\ UNCHANGED <<ghosts, mounted, unmounts>>

\* usbStageFlush() after tick().
usbStageFlush ==
    /\ pc = "tick"
    /\ pc' = "drain"
    /\ stage' = <<>> /\ Wrote(Put(Sink, stage))
    /\ UNCHANGED <<run, ghosts, mounted, unmounts>>

\* midiendpoint() and functionblock(), from the drain loop: four words each,
\* written without asking.
StreamReply ==
    /\ pc = "drain" /\ mounted /\ replies < MaxReplies
    /\ replies' = replies + 1
    /\ writeable' = Put(Sink, Words(0, 4)).room
    /\ UNCHANGED <<stage, run, pc, written, torn, taken, delivered, inCall, mounted, unmounts>>

NextTick ==
    /\ pc = "drain"
    /\ pc' = "tick"
    /\ UNCHANGED <<stage, run, written, torn, ghosts, usb>>

OnUmp == Call \/ JoinRun \/ BreakRun \/ Suppress \/ SuppressEnd \/ Return

Next ==
    \/ OnUmp \/ usbStageFlush \/ StreamReply \/ NextTick
    \/ HostTakes \/ Unmount \/ Mount

Spec == Init /\ [][Next]_vars

-----------------------------------------------------------------------------
(* Properties.                                                              *)

TypeOK ==
    /\ Len(stage) <= StageWords
    /\ stage \in Seq(Nat \X Nat) /\ run \in Seq(Nat \X Nat)
    /\ taken \in Seq(Nat \X Nat) /\ written \in Seq(Nat \X Nat)
    /\ writeable \in 0 .. FifoWords
    /\ {mounted, torn} \subseteq BOOLEAN
    /\ pc \in {"tick", "call", "drain"}
    /\ delivered \in Nat /\ inCall \in Nat /\ replies \in Nat /\ unmounts \in Nat

\* What was promised room still has it when it is written, so no message goes
\* out torn in half (nxp/SessionTask.cpp:1318-1321).
NeverTorn == ~torn

\* Every packet taken for USB goes out once and in order, through whichever of
\* the three ways out it takes, and all of them are out before a Stream reply is
\* written (nxp/SessionTask.cpp:1343, 1366-1368).
InOrder ==
    unmounts = 0 =>
        /\ taken = written \o stage \o run
        /\ pc = "drain" => taken = written
=============================================================================
