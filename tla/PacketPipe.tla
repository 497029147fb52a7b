----------------------------- MODULE PacketPipe -----------------------------
(***************************************************************************)
(* What the USB -> network loop promises: an in-order pipe of packets,     *)
(* which are numbered as they are offered.  Nothing is reordered,          *)
(* duplicated or split, and while the session is up a packet leaves only   *)
(* by being accepted or answered, or with a peer that goes away.           *)
(***************************************************************************)
EXTENDS Naturals, Sequences

VARIABLES
    queue,      \* packets offered and not disposed of
    written,    \* packets offered so far
    accepted,   \* packets handed to the session, in order
    answered,   \* packets answered locally
    up          \* the session takes traffic

vars == <<queue, written, accepted, answered, up>>

Init ==
    /\ queue = {} /\ written = 0
    /\ accepted = <<>> /\ answered = {}
    /\ up \in BOOLEAN

\* Packets leave in the order they were offered.
IsNext(p) == p \in queue /\ \A q \in queue : p <= q

Offer ==
    /\ written' = written + 1
    /\ queue' = queue \union {written + 1}
    /\ UNCHANGED <<accepted, answered, up>>

Accept(p) ==
    /\ IsNext(p) /\ up
    /\ accepted' = Append(accepted, p)
    /\ queue' = queue \ {p}
    /\ UNCHANGED <<written, answered, up>>

Answer(p) ==
    /\ IsNext(p)
    /\ answered' = answered \union {p}
    /\ queue' = queue \ {p}
    /\ UNCHANGED <<written, accepted, up>>

Discard(p) ==
    /\ IsNext(p) /\ ~up
    /\ queue' = queue \ {p}
    /\ UNCHANGED <<written, accepted, answered, up>>

\* The peer goes away, and what it had not handed over, from packet k on, goes
\* with it.
PeerLost(k) ==
    /\ queue' = {p \in queue : p < k}
    /\ UNCHANGED <<written, accepted, answered, up>>

SessionChanges ==
    /\ up' = ~up
    /\ UNCHANGED <<queue, written, accepted, answered>>

Next ==
    \/ Offer
    \/ \E p \in queue : Accept(p) \/ Answer(p) \/ Discard(p)
    \/ \E k \in 0 .. written + 1 : PeerLost(k)
    \/ SessionChanges

Spec == Init /\ [][Next]_vars
=============================================================================
