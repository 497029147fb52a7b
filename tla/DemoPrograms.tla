---------------------------- MODULE DemoPrograms ----------------------------
(***************************************************************************)
(* The demo programs of examples/midi_bridge, one of them running, with a  *)
(* user who types or presses Ctrl-C, a peer that comes and goes, and what  *)
(* stops a program: SIGTERM for the interactive desktop program ("posix"), *)
(* loss of power for the boards ("lwip", "rtos").  "app" stands for        *)
(* nm2_host and nm2_client.                                                *)
(***************************************************************************)
EXTENDS PosixInteractive, LwipDemo, RtosDemo, MidiBridgeApp

vars == <<cliVars, app>>

Init ==
    /\ program \in Programs
    /\ \/ program = "posix" /\ PosixInit /\ app = AppOff
       \/ program = "lwip" /\ LwipInit /\ app = AppOff
       \/ program = "rtos" /\ RtosInit /\ app = AppOff
       \/ program = "app" /\ AppInit /\ CliOff

\* The thread of the program.
Step ==
    /\ \/ program = "posix" /\ PosixStep /\ UNCHANGED app
       \/ program = "lwip" /\ LwipStep /\ UNCHANGED app
       \/ program = "rtos" /\ RtosStep /\ UNCHANGED app
       \/ program = "app" /\ AppStep /\ UNCHANGED <<phase, g, flash>>
    /\ UNCHANGED program

Typing == Type /\ UNCHANGED app

Stops ==
    /\ \/ program = "posix" /\ PosixSignal /\ UNCHANGED app
       \/ program = "lwip" /\ LwipPowerLoss /\ UNCHANGED app
       \/ program = "rtos" /\ RtosPowerLoss /\ UNCHANGED app
       \/ program = "app" /\ Sigint /\ UNCHANGED <<phase, g, flash>>
    /\ UNCHANGED program

Next == Step \/ Typing \/ Stops

Spec == Init /\ [][Next]_vars

\* The thread goes on; it waits for nothing but half a millisecond or so.
FairSpec == Spec /\ WF_vars(Step)

Boards == {"lwip", "rtos"}

-----------------------------------------------------------------------------
TypeOK ==
    /\ program \in Programs
    /\ phase \in {"top", "browse", "tick", "peer", "trans", "cli", "end"}
    /\ g \in Globals
    /\ flash \in FlashRecords
    /\ app \in AppRuns

\* Every way out of MDNS_RESOLVE, the discovery of a host, Enter, `q', SIGTERM,
\* stops the browse (posix main_interactive.cpp:369-374, 525; lwip main.cpp:477,
\* 482, 668).
BrowseOnlyWhileResolving == g.browsing => g.state = "MDNS_RESOLVE"

\* No prompt is answered, and no authenticator or socket replaced, beneath a
\* session, and a board holds the PCB and the mDNS service exactly as long as one
\* (lwip main.cpp:283-284: "so the next role can re-register", "so it can be
\* reopened").
SessionOnlyInRun ==
    /\ g.session # "none" => g.state = "SESSION_RUN"
    /\ program \in Boards => (g.held <=> g.session # "none")

(***************************************************************************)
(* "Y" at the repeat prompt begins the role the user picked last, however  *)
(* the session, or the search for one, came to its end                     *)
(* (freertos SessionTask.cpp:496, 501, 574-581).  Not so in the lwIP       *)
(* program: "C" leaves gIsHost as it was (lwip main.cpp:467-468).          *)
(***************************************************************************)
SameRole ==
    g.state = "REPEAT_PROMPT" => (g.isHost <=> g.chosen = "host")

RepeatsRole == program # "lwip" => SameRole

(***************************************************************************)
(* Input typed before a session began does not end it: what is left on the *)
(* line and at the console is thrown away (lwip main.cpp:326-330:          *)
(* "so they don't trigger an immediate quit as soon as SESSION_RUN is      *)
(* entered").  The desktop program does not do this.                       *)
(***************************************************************************)
QuitsOnFreshInput ==
    [][ /\ program \in Boards
        /\ g.state = "SESSION_RUN" /\ g.running /\ g'.state = "SESSION_RUN" /\ ~g'.running
        /\ g.session # "none" /\ phase = "cli"
        => ~g.line.stale ]_vars

\* The loop is not left from a running session: a user who quits gets the repeat
\* prompt (lwip main.cpp:722-725).  The desktop program may leave without.
BoardsOfferRepeat ==
    program \in Boards /\ phase = "top" /\ ~g.running => g.state # "SESSION_RUN"

(***************************************************************************)
(* A browse, a session and what they hold live in their own states and     *)
(* nowhere else, and the program is not left with one of them, whatever    *)
(* order keys, signals and the peer come in.                               *)
(***************************************************************************)
NothingLeftBehind ==
    BrowseOnlyWhileResolving /\ SessionOnlyInRun /\ BoardsOfferRepeat

(***************************************************************************)
(* A session that was Established and is over is noticed and put away,     *)
(* even if both happened within one tick (lwip main.cpp:253-255, 710-720). *)
(***************************************************************************)
EndIsNoticed ==
    (g.session = "Idle" /\ g.everUp) ~> (g.session = "none")
=============================================================================
