--------------------------------- MODULE Ump ---------------------------------
(***************************************************************************)
(* UMP packet framing (include/networkmidi2/Ump.h).  A word is a record    *)
(* whose field mt is the nibble in bits 31:28, the only thing the framer   *)
(* looks at; whether a word really starts a packet is not visible to it.   *)
(***************************************************************************)
EXTENDS Naturals, Sequences

MessageType == 0 .. 15

\* Words in the packet whose first word carries Message Type mt.  Types the
\* code does not list count as the four-word maximum.
umpWordCount(mt) ==
    IF mt \in {0, 1, 2, 6, 7} THEN 1
    ELSE IF mt \in {3, 4, 8, 9, 10} THEN 2
    ELSE IF mt \in {11, 12} THEN 3
    ELSE 4

StreamMessage == 15          \* UMP Stream messages, answered by the bridge

-----------------------------------------------------------------------------
(* UmpFramer: buf_ is a sequence of at most kCapacity words.               *)

kCapacity == 8

hasRoomFor(buf, words) == Len(buf) + words <= kCapacity

push(buf, words) == IF hasRoomFor(buf, Len(words)) THEN buf \o words ELSE buf

\* Length of the complete packet at the head, 0 while it is incomplete.
peek(buf) ==
    IF buf # <<>> /\ umpWordCount(buf[1].mt) <= Len(buf)
    THEN umpWordCount(buf[1].mt)
    ELSE 0

\* Mutant: moves the tail up one word short.
consume_Short(buf, words) ==
    IF words >= Len(buf) THEN <<>> ELSE SubSeq(buf, words, Len(buf))

consume(buf, words) ==
    IF words >= Len(buf) THEN <<>> ELSE SubSeq(buf, words + 1, Len(buf))
=============================================================================
