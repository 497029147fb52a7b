--------------------------- MODULE MidiBridgeApp ---------------------------
(***************************************************************************)
(* The desktop demos nm2_host and nm2_client (posix/main_host.cpp,         *)
(* posix/main_client.cpp) and the loop they share                          *)
(* (examples/midi_bridge/common/MidiBridgeApp.cpp).  `app' is the record   *)
(* of a run of one of them; app.pc is the place in it.  SIGINT may arrive  *)
(* between any two steps.                                                  *)
(***************************************************************************)
EXTENDS Naturals

CONSTANTS
    MaxPolls,    \* polls of nextDiscovered() before the client stops browsing
    MaxByeTicks, \* ticks after close() until the session is Idle (external)
    MaxSigints   \* times the user presses Ctrl-C, at most

ASSUME AppAssumption ==
    MaxPolls \in Nat \ {0} /\ MaxByeTicks \in Nat /\ MaxSigints \in Nat

VARIABLE app

AppRuns == [
    pc        : {"main", "browse", "begin", "install", "clear",
                 "tick", "sigint", "exit", "leave", "ended", "killed"},
    role      : {"host", "client"},
    discover  : BOOLEAN,        \* --advertise, --discover
    session   : {"none", "Idle", "Pending", "Established", "PendingBye"},
    byeTicks  : 0..MaxByeTicks, \* ticks PendingBye can still last
    installed : BOOLEAN,        \* the SIGINT handler is in place
    gShutdown : 0..2,
    sigints   : 0..MaxSigints,
    had       : BOOLEAN,        \* hadConnection
    st        : {"none", "Idle", "Pending", "Established", "PendingBye"},
    polls     : 0..MaxPolls,
    browsing  : BOOLEAN,
    advertised : BOOLEAN,
    noteOn    : BOOLEAN]        \* the demo source owes a Note-Off

At(pc) == app.pc = pc

\* Nothing of it has run.
AppOff ==
    [pc |-> "ended", role |-> "host", discover |-> FALSE, session |-> "none",
     byeTicks |-> MaxByeTicks, installed |-> FALSE, gShutdown |-> 0, sigints |-> 0,
     had |-> FALSE, st |-> "none", polls |-> 0, browsing |-> FALSE,
     advertised |-> FALSE, noteOn |-> FALSE]

\* main() of either program: roles and options from the command line.
AppInit ==
    \E r \in {"host", "client"}, d \in BOOLEAN :
      app = [AppOff EXCEPT !.pc = "main", !.role = r, !.discover = d]


\* runHost() up to the loop: the session, then the service if one is set,
\* whether or not the daemon takes it.
RunHost ==
    /\ At("main") /\ app.role = "host"
    /\ \E a \in {app.discover, FALSE} :
         app' = [app EXCEPT !.session = "Idle", !.advertised = a, !.pc = "install"]

\* runClient(): browse() is asked for, or fails, or there is no discovery.
RunClient ==
    /\ At("main") /\ app.role = "client"
    /\ \E b \in {app.discover, FALSE} :
         app' = [app EXCEPT !.browsing = b, !.pc = IF b THEN "browse" ELSE "begin"]

\* Mutant: polls without an end.
BrowsePoll_Unbounded ==
    /\ At("browse")
    /\ \/ app' = [app EXCEPT !.browsing = FALSE, !.pc = "begin"]
       \/ /\ TRUE
          /\ app' = [app EXCEPT !.polls = @ + 1]

\* One poll of nextDiscovered(); found, or the last one, the browse is stopped.
BrowsePoll ==
    /\ At("browse")
    /\ \/ app' = [app EXCEPT !.browsing = FALSE, !.pc = "begin"]
       \/ /\ app.polls + 1 < MaxPolls
          /\ app' = [app EXCEPT !.polls = @ + 1]

BeginClient ==
    /\ At("begin")
    /\ app' = [app EXCEPT !.session = "Pending", !.pc = "install"]

(***************************************************************************)
(* eventLoop()                                                             *)
(***************************************************************************)
InstallHandler == At("install") /\ app' = [app EXCEPT !.installed = TRUE, !.pc = "clear"]

ClearShutdown == At("clear") /\ app' = [app EXCEPT !.gShutdown = 0, !.pc = "tick"]

\* What a tick makes of the session (external).  PendingBye ends with the
\* reply or when the session gives up waiting for it; a Client that has
\* become Idle stays so.
AfterTick(a) ==
    CASE a.session = "PendingBye" ->
           {[a EXCEPT !.session = "Idle"]} \cup
             (IF a.byeTicks = 0 THEN {} ELSE {[a EXCEPT !.byeTicks = @ - 1]})
      [] a.role = "client" /\ a.session = "Idle" -> {a}
      [] OTHER -> {[a EXCEPT !.session = s] : s \in {"Idle", "Pending", "Established"}}

\* DemoMidiSource::next(): when a note is due, On and Off take turns, whatever
\* becomes of the message.
NextNote(a) == {a, [a EXCEPT !.noteOn = ~@]}

Tick ==
    /\ At("tick")
    /\ \E a \in AfterTick(app) :
         LET b == [a EXCEPT !.st = a.session, !.pc = "sigint"]
         IN  IF a.session = "Established"
               THEN \E c \in NextNote(b) : app' = [c EXCEPT !.had = TRUE]
               ELSE app' = b

\* Mutant: Ctrl-C is noted, the session not closed.
CheckShutdown_NoClose ==
    /\ At("sigint")
    /\ app' = IF app.gShutdown = 1
                THEN [app EXCEPT !.gShutdown = 2, !.pc = "exit"]
                ELSE [app EXCEPT !.pc = "exit"]

CheckShutdown ==
    /\ At("sigint")
    /\ app' = IF app.gShutdown = 1
                THEN [app EXCEPT !.gShutdown = 2, !.pc = "exit",
                                 !.session = IF app.st # "Idle" THEN "PendingBye" ELSE @]
                ELSE [app EXCEPT !.pc = "exit"]

\* Mutant: Ctrl-C ends the loop whatever the session is doing.
ShouldExit_AtOnce(a) ==
    \/ a.st = "Idle" /\ (a.had \/ a.gShutdown = 2)
    \/ a.gShutdown = 2

ShouldExit(a) ==
    \/ a.st = "Idle" /\ (a.had \/ a.gShutdown = 2)
    \/ a.gShutdown = 2 /\ ~a.had

LeaveLoop ==
    /\ At("exit")
    /\ app' = [app EXCEPT !.pc = IF ShouldExit(app) THEN "leave" ELSE "tick"]

\* Behind the loop: the service goes, the program ends.
Leave == At("leave") /\ app' = [app EXCEPT !.advertised = FALSE, !.pc = "ended"]

\* SIGINT: the handler, or, where it is not in place, the end of the process.
Sigint ==
    /\ app.pc \notin {"ended", "killed"} /\ app.sigints < MaxSigints
    /\ app' = IF app.installed
                THEN [app EXCEPT !.gShutdown = 1, !.sigints = @ + 1]
                ELSE [app EXCEPT !.pc = "killed", !.sigints = @ + 1]

AppStep ==
    \/ RunHost \/ RunClient \/ BrowsePoll \/ BeginClient \/ InstallHandler
    \/ ClearShutdown \/ Tick \/ CheckShutdown \/ LeaveLoop \/ Leave

InLoop == app.pc \in {"tick", "sigint", "exit"}

-----------------------------------------------------------------------------
(***************************************************************************)
(* A program that ends after a connection ends with the Bye answered or    *)
(* given up, not with the peer left believing in the session               *)
(* (MidiBridgeApp.h:41-42, main_host.cpp:129: "calls session.close(), then *)
(* ticks until Idle").                                                     *)
(***************************************************************************)
EndsCleanly ==
    At("ended") => /\ app.had => app.session = "Idle"
                   /\ ~app.browsing /\ ~app.advertised

(***************************************************************************)
(* A Ctrl-C the loop can see ends the program, however often it is         *)
(* repeated and whatever the session is doing (MidiBridgeApp.cpp:167-179). *)
(***************************************************************************)
CtrlCEnds == (InLoop /\ app.gShutdown = 1) ~> At("ended")
=============================================================================
