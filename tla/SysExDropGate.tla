---------------------------- MODULE SysExDropGate ----------------------------
(***************************************************************************)
(* SysExDropGate (include/networkmidi2/Ump.h:146-259): one slot per Group  *)
(* that remembers which SysEx is being abandoned because part of it could  *)
(* not be written.  The slots are a function g from Groups.                *)
(***************************************************************************)
EXTENDS SysEx

Slot == [abandoning : BOOLEAN, owesEnd : BOOLEAN, isSysEx8 : BOOLEAN,
         streamId : 0 .. 255]

EmptySlot == [abandoning |-> FALSE, owesEnd |-> FALSE, isSysEx8 |-> FALSE,
              streamId |-> 0]

\* Other: neither SysEx7 nor SysEx8.  SysEx7 has no Stream ID: it counts as 0.
IsSysEx(p) == p.mt \in {SysEx7, SysEx8}

suppress(g, p) ==
    /\ IsSysEx(p)
    /\ g[p.group].abandoning
    /\ g[p.group].isSysEx8 <=> p.mt = SysEx8
    /\ p.mt = SysEx8 => g[p.group].streamId = p.streamId

\* Mutant: a message refused at its Start owes an End too.
noteRefused_AlwaysOwes(g, p) ==
    IF IsSysEx(p) /\ p.status # kComplete
    THEN [g EXCEPT ![p.group] =
            [abandoning |-> TRUE, owesEnd |-> TRUE,
             isSysEx8 |-> p.mt = SysEx8, streamId |-> p.streamId]]
    ELSE g

\* Mutant: only a refused Start arms the gate.
noteRefused_StartOnly(g, p) ==
    IF IsSysEx(p) /\ p.status = kStart
    THEN [g EXCEPT ![p.group] =
            [abandoning |-> TRUE, owesEnd |-> FALSE,
             isSysEx8 |-> p.mt = SysEx8, streamId |-> p.streamId]]
    ELSE g

noteRefused(g, p) ==
    IF IsSysEx(p) /\ p.status # kComplete
    THEN [g EXCEPT ![p.group] =
            [abandoning |-> TRUE, owesEnd |-> p.status # kStart,
             isSysEx8 |-> p.mt = SysEx8, streamId |-> p.streamId]]
    ELSE g

Forgotten(g, group) ==
    [g EXCEPT ![group].abandoning = FALSE, ![group].owesEnd = FALSE]

\* The last packet of any SysEx on the Group, whichever it was.
EndsSysEx(p) == IsSysEx(p) /\ p.status \in {kEnd, kComplete}

noteSent(g, p) == IF EndsSysEx(p) THEN Forgotten(g, p.group) ELSE g

\* terminatorFor() returns 2 when a zero-length End is due, and forgets the
\* abandoned message either way.
TerminatorDue(g, p) ==
    EndsSysEx(p) /\ g[p.group].abandoning /\ g[p.group].owesEnd

\* Written as two words for either kind.
TerminatorWords == 2

\* Mutant: the debt is settled but the message stays abandoned.
AfterTerminator_StillAbandoning(g, p) ==
    IF EndsSysEx(p) /\ g[p.group].abandoning
    THEN [g EXCEPT ![p.group].owesEnd = FALSE] ELSE g

AfterTerminator(g, p) ==
    IF EndsSysEx(p) /\ g[p.group].abandoning THEN Forgotten(g, p.group) ELSE g
=============================================================================
