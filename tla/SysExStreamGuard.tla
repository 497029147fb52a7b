-------------------------- MODULE SysExStreamGuard --------------------------
(***************************************************************************)
(* SysExStreamGuard (include/networkmidi2/SysExStreamGuard.h): what keeps  *)
(* System Exclusive whole on the receiving side of a session when commands *)
(* are lost for good.  The session calls it from outside the repository's  *)
(* source: breakStream() at a hole in the stream, admit() on every message *)
(* it delivers.  Messages the sender abandons, and streams that are lost   *)
(* and given up, are the environment.                                      *)
(***************************************************************************)
EXTENDS SysEx

CONSTANTS
    Keys,           \* the SysEx streams in use
    MaxMessages,    \* bound: SysEx messages started
    MaxParts,       \* bound: packets in a message
    MaxResets       \* bound: sessions ended

ASSUME GuardAssumption ==
    /\ Keys \subseteq Key
    /\ MaxMessages \in Nat /\ MaxParts \in Nat /\ MaxResets \in Nat

VARIABLES
    open,        \* open7_ and open8_: the Keys with an End still to come
    hole,        \* the receiver has given up on commands since the last delivery
    source,      \* ghost: where the sender stands, for each Key
    messages,    \* ghost: messages started or sent complete
    receiver,    \* ghost: the assembler downstream, for each Key
    spoilt,      \* ghost: a message with a hole in it, or of two, was finished
    stray,       \* ghost: the rest of a message came with no message open
    overrun,     \* ghost: a message came while another was open
    whole,       \* ghost: messages the receiver has finished, entire
    disturbed,   \* ghost: messages with a packet lost, or open at a break
    over,        \* ghost: messages whose last packet is sent or lost
    resets       \* ghost: sessions ended

sender     == <<source, messages>>
downstream == <<receiver, spoilt, stray, overrun, whole>>
vars == <<open, hole, sender, downstream, disturbed, over, resets>>

Init ==
    /\ open = {} /\ hole = FALSE
    /\ source = [k \in Keys |-> Idle] /\ messages = 0
    /\ receiver = [k \in Keys |-> Closed]
    /\ spoilt = FALSE /\ stray = FALSE /\ overrun = FALSE
    /\ whole = {} /\ disturbed = {} /\ over = {} /\ resets = 0

NextFrom(k) ==
    IF source[k].msg = 0 /\ messages >= MaxMessages THEN {}
    ELSE NextPackets(k, source[k], messages + 1, MaxParts)

Ends(p) == p.status \in {kEnd, kComplete}

\* The sender sends packet p of Key k.
Sends(k, p) ==
    /\ p \in NextFrom(k)
    /\ source' = [source EXCEPT ![k] = AfterSending(p)]
    /\ messages' = IF source[k].msg = 0 THEN messages + 1 ELSE messages
    /\ over' = IF Ends(p) THEN over \union {p.msg} ELSE over
    /\ UNCHANGED resets

\* The receiver's assembler a finishes a message that has all of its packets.
FinishesWhole(a, p) ==
    \/ p.status = kComplete
    \/ p.status = kEnd /\ p.msg # 0 /\ a.msg # 0 /\ ~a.mixed /\ Joins(a, p)

-----------------------------------------------------------------------------
(* admit().                                                                 *)

\* What admit() returns.  A reserved status is passed on as it is; no packet of
\* the streams modelled has one.
admitted(k, p) == p.status \in {kContinue, kEnd} => k \in open

\* Mutant: a Start or Complete is delivered on top of the open message.
EndsOpenFirst_Never(k, p) == FALSE

\* A Start or Complete while its SysEx is still open ends the open one first.
EndsOpenFirst(k, p) == p.status \in {kStart, kComplete} /\ k \in open

\* Mutant: the bit of the next Stream ID is set.
setOpen_NextStream(s, k, on) ==
    IF on THEN s \union {[k EXCEPT !.streamId = (@ + 1) % 256]} ELSE s \ {k}

\* Mutant: an End clears the whole byte its Stream ID is in.
setOpen_ClearsByte(s, k, on) ==
    IF on THEN s \union {k}
    ELSE {j \in s : <<j.mt, j.group, j.streamId \div 8>> # <<k.mt, k.group, k.streamId \div 8>>}

\* One bit for each Group (SysEx7), Group and Stream ID (SysEx8).
setOpen(s, k, on) == IF on THEN s \union {k} ELSE s \ {k}

OpenAfter(k, p) ==
    IF p.status = kContinue THEN open ELSE setOpen(open, k, p.status = kStart)

\* What the receiver downstream gets of packet p.
Passes(k, p) ==
    LET a == IF EndsOpenFirst(k, p) THEN Assemble(receiver[k], ZeroEnd(k)) ELSE receiver[k]
    IN  /\ receiver' = [receiver EXCEPT ![k] = Assemble(a, p)]
        /\ spoilt' = \/ spoilt
                     \/ EndsOpenFirst(k, p) /\ FinishesMixed(receiver[k], ZeroEnd(k))
                     \/ FinishesMixed(a, p)
        /\ stray' = (stray \/ JoinsNothing(a, p))
        /\ overrun' = (overrun \/ (p.status \in {kStart, kComplete} /\ a.msg # 0))
        /\ whole' = IF FinishesWhole(a, p) THEN whole \union {p.msg} ELSE whole

Deliver(k, p) ==
    /\ ~hole
    /\ Sends(k, p)
    /\ IF admitted(k, p)
       THEN /\ open' = OpenAfter(k, p)
            /\ Passes(k, p)
       ELSE UNCHANGED <<open, downstream>>
    /\ UNCHANGED <<hole, disturbed>>

-----------------------------------------------------------------------------
(* A hole.                                                                  *)

Lose(k, p) ==
    /\ Sends(k, p)
    /\ hole' = TRUE
    /\ disturbed' = disturbed \union {p.msg}
    /\ UNCHANGED <<open, downstream>>

\* Mutant: the hole goes unnoticed.
BreakStream_None ==
    /\ hole
    /\ hole' = FALSE
    /\ UNCHANGED <<open, sender, downstream, disturbed, over, resets>>

\* breakStream(): every SysEx open downstream is ended.
BreakStream ==
    /\ hole
    /\ hole' = FALSE
    /\ open' = {}
    /\ receiver' = [k \in Keys |-> IF k \in open THEN Assemble(receiver[k], ZeroEnd(k))
                                   ELSE receiver[k]]
    /\ spoilt' = (spoilt \/ \E k \in open : FinishesMixed(receiver[k], ZeroEnd(k)))
    /\ stray' = (stray \/ \E k \in open : JoinsNothing(receiver[k], ZeroEnd(k)))
    /\ disturbed' = disturbed \union {receiver[k].msg : k \in open}
    /\ UNCHANGED <<sender, overrun, whole, over, resets>>

\* The sender drops a message it has started, and never ends it.
SenderGivesUp(k) ==
    /\ source[k].msg # 0
    /\ source' = [source EXCEPT ![k] = Idle]
    /\ disturbed' = disturbed \union {source[k].msg}
    /\ UNCHANGED <<open, hole, messages, downstream, over, resets>>

\* reset() for a new session: the receiver downstream is told nothing.
Reset ==
    /\ resets < MaxResets
    /\ resets' = resets + 1
    /\ open' = {} /\ hole' = FALSE
    /\ disturbed' = disturbed \union ({source[k].msg : k \in Keys} \ {0})
    /\ UNCHANGED <<sender, downstream, over>>

Next ==
    \/ \E k \in Keys : \E p \in NextFrom(k) : Deliver(k, p) \/ Lose(k, p)
    \/ \E k \in Keys : SenderGivesUp(k)
    \/ BreakStream \/ Reset

Spec == Init /\ [][Next]_vars

-----------------------------------------------------------------------------
(* Properties.                                                              *)

TypeOK ==
    /\ open \subseteq Keys
    /\ {hole, spoilt, stray, overrun} \subseteq BOOLEAN
    /\ source \in [Keys -> [msg : Nat, part : Nat]]
    /\ receiver \in [Keys -> [msg : Nat, parts : Nat, mixed : BOOLEAN]]
    /\ messages \in Nat /\ resets \in Nat
    /\ {whole, disturbed, over} \subseteq SUBSET Nat

\* A SysEx never runs on into the remains of another: no message the receiver
\* has open or has finished is joined across a hole (SysExStreamGuard.h:24-30).
NeverSpliced == ~spoilt /\ \A k \in Keys : ~receiver[k].mixed

\* Within a session the guard marks as open exactly what is open downstream, so
\* that each End it makes finds its message and each message left open gets one
\* (SysExStreamGuard.h:36-42).
AgreesWithReceiver ==
    resets = 0 => /\ open = {k \in Keys : receiver[k].msg # 0}
                  /\ ~stray /\ ~overrun

\* Only what lost a part is lost: a message with nothing lost, and not under way
\* at a hole, is delivered entire, and no other message is (SysExStreamGuard.h:
\* 32-34).
OnlyBrokenLost ==
    /\ over \ disturbed \subseteq whole
    /\ whole \intersect disturbed = {}
=============================================================================
