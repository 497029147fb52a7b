----------------------------- MODULE CliProgram -----------------------------
(***************************************************************************)
(* What the interactive demo programs have in common:                      *)
(*   "posix"  examples/midi_bridge/posix/main_interactive.cpp              *)
(*   "lwip"   examples/midi_bridge/lwip/main.cpp                           *)
(*   "rtos"   examples/midi_bridge/freertos/SessionTask.cpp                *)
(* Each is one thread that goes round a main loop, polls for a discovered  *)
(* host, ticks the session, and reads at most one character of the console *)
(* per round.  `phase' says where in the round it is.  `g' is the record   *)
(* of its globals and of what they stand for outside: the session object   *)
(* and the discovery service, whose code is in the library.                *)
(*                                                                         *)
(* A typed character is the record of its key and of `stale', a history    *)
(* field: it was typed before the present session was begun.               *)
(***************************************************************************)
EXTENDS Naturals, Sequences

CONSTANTS
    Programs,  \* the programs considered
    MaxTyped   \* characters that wait unread at the console, at most

ASSUME CliAssumption ==
    /\ Programs \subseteq {"posix", "lwip", "rtos", "app"}
    /\ MaxTyped \in Nat

VARIABLES
    program,  \* the program that runs; never changes
    phase,    \* where the main loop stands
    g,        \* globals, console input, session and discovery service
    flash     \* what the flash sector holds (lwip and rtos)

cliVars == <<program, phase, g, flash>>

(***************************************************************************)
(* Console input.  A key stands for all characters the programs treat      *)
(* alike (either case of a letter); "addr" begins a valid IPv4 address,    *)
(* "text" any other line.  handleLine() looks at the first character of a  *)
(* line only, so the line buffer is that character.                        *)
(***************************************************************************)
Letters == {"q", "H", "C", "Y", "R", "d", "addr", "text"}
Keys    == Letters \cup {"enter", "backspace", "etx"}
Chars   == [key : Keys, stale : BOOLEAN]
Blank   == [key |-> "blank", stale |-> FALSE]

KeysOf(p) == CASE p = "posix" -> Keys \ {"d"}
               [] p = "lwip"  -> Keys \ {"d", "etx"}
               [] p = "rtos"  -> Keys \ {"etx"}

\* Only a `q' can end a session, so only there is the age of a key kept.
Aged(c) == [c EXCEPT !.stale = (c.key \in {"q", "etx"})]

States == {"WIFI_SSID", "WIFI_PASS", "WIFI_CONNECTING", "STATIC_IP",
           "MDNS_NAME", "ROLE_SELECT", "AUTH_PASS", "MDNS_RESOLVE", "CLIENT_IP",
           "SESSION_RUN", "REPEAT_PROMPT", "DONE"}

SessionStates == {"none", "Idle", "Pending", "Established"}

(***************************************************************************)
(* Flash: no record, or the record saveConfig() writes.                    *)
(***************************************************************************)
FlashRecords == [saved : BOOLEAN, ip : BOOLEAN, name : BOOLEAN]
Erased == [saved |-> FALSE, ip |-> FALSE, name |-> FALSE]

saveConfig(p) == [saved |-> TRUE, ip |-> p.ip, name |-> p.name]

Globals == [
    state      : States,          \* gState
    running    : BOOLEAN,         \* gRunLoop
    typed      : Seq(Chars),      \* typed and not yet read
    line       : Chars \cup {Blank},
    isHost     : BOOLEAN,         \* gIsHost
    lastHost   : BOOLEAN,         \* gLastHostEp.isValid()
    up         : BOOLEAN,         \* gSessionEstablished
    session    : SessionStates,   \* gSession and its state()
    browsing   : BOOLEAN,         \* a browse is under way (gMdnsSearching)
    held       : BOOLEAN,         \* PCB and mDNS service are held (lwip, rtos)
    auth       : BOOLEAN,         \* gHasAuth
    dropping   : BOOLEAN,         \* gDropper has datagrams still to drop
    hasSaved   : BOOLEAN,         \* gHasSaved
    ip         : BOOLEAN,         \* gStaticIp is not empty
    name       : BOOLEAN,         \* gMdnsName is not empty
    everUp     : BOOLEAN,         \* history: this session was Established
    chosen     : {"none", "host", "client"}]   \* history: last role picked

\* The globals as the loader leaves them, and loadConfig().
Boot(f) ==
    [state |-> "WIFI_SSID", running |-> TRUE, typed |-> <<>>, line |-> Blank,
     isHost |-> FALSE, lastHost |-> FALSE, up |-> FALSE, session |-> "none",
     browsing |-> FALSE, held |-> FALSE, auth |-> FALSE, dropping |-> FALSE,
     hasSaved |-> f.saved, ip |-> f.ip, name |-> f.name,
     everUp |-> FALSE, chosen |-> "none"]

\* None of the three runs.
CliOff == phase = "end" /\ flash = Erased /\ g = Boot(Erased)

(***************************************************************************)
(* The session (external).  A Host starts Idle and returns to it when its  *)
(* peer goes; a Client starts with its Invitation and stays Idle once it   *)
(* gets there.  One tick takes in everything that has arrived, so it may   *)
(* pass through several states, which onStateChange() reports one by one.  *)
(***************************************************************************)
SessionTick(p) ==
    IF ~p.isHost /\ p.session = "Idle"
      THEN {[state |-> "Idle", wasUp |-> FALSE]}
      ELSE [state : SessionStates \ {"none"}, wasUp : BOOLEAN]
             \ [state : {"Established"}, wasUp : {FALSE}]

\* Mutant: the state is looked at after the tick.
onStateChange_Polled(p, r) ==
    [p EXCEPT !.session = r.state, !.up = @ \/ r.state = "Established", !.everUp = @ \/ r.wasUp]

\* onStateChange(): notes Established the moment it is reported.
onStateChange(p, r) ==
    [p EXCEPT !.session = r.state, !.up = @ \/ r.wasUp, !.everUp = @ \/ r.wasUp]

(***************************************************************************)
(* A round of the console.                                                 *)
(***************************************************************************)
\* The user presses a key.
Type ==
    /\ phase # "end"
    /\ Len(g.typed) < MaxTyped
    /\ \E k \in KeysOf(program) :
         g' = [g EXCEPT !.typed = Append(@, [key |-> k, stale |-> FALSE])]
    /\ UNCHANGED <<program, phase, flash>>

\* processCli() up to the dispatch of a whole line: a character joins the
\* buffer, or a backspace empties it if nothing but the first one is there.
TakesChar ==
    /\ g.typed # <<>>
    /\ LET c == Head(g.typed)
           h == [g EXCEPT !.typed = Tail(@)]
       IN  \/ /\ c.key \in Letters
              /\ g' = IF g.line = Blank THEN [h EXCEPT !.line = c] ELSE h
           \/ /\ c.key = "backspace"
              /\ \E l \in {g.line, Blank} : g' = [h EXCEPT !.line = l]
    /\ UNCHANGED flash

EntersLine == g.typed # <<>> /\ Head(g.typed).key = "enter"

\* The globals as processCli() leaves them apart from what handleLine() does.
LineTaken == [g EXCEPT !.typed = Tail(@), !.line = Blank]

NothingTyped == g.typed = <<>> /\ UNCHANGED <<g, flash>>

\* Mutant: what waits at the console is kept.
FlushInput_LineOnly(p) == [p EXCEPT !.line = Blank]

\* What was typed is thrown away, in the line buffer and at the console.
FlushInput(p) == [p EXCEPT !.typed = <<>>, !.line = Blank]

\* History: everything typed so far was typed before the session now begun.
AgeInput(p) ==
    [p EXCEPT !.typed = [i \in DOMAIN @ |-> Aged(@[i])], !.line = Aged(@)]
=============================================================================
