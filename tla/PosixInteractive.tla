-------------------------- MODULE PosixInteractive --------------------------
(***************************************************************************)
(* The interactive program for desktops,                                   *)
(* examples/midi_bridge/posix/main_interactive.cpp.  A round of its main   *)
(* loop: "top" (loop condition), "browse", "tick", "peer" (has the peer    *)
(* gone?), "trans" (to the repeat prompt), "cli" (one character).          *)
(***************************************************************************)
EXTENDS CliProgram

\* destroySession(): whatever the Bye exchange reaches in 200 ticks, the
\* session is deleted.
PosixDestroySession(p) ==
    [p EXCEPT !.session = "none", !.up = FALSE, !.everUp = FALSE]

PosixBeginHost(p) ==
    [AgeInput(PosixDestroySession(p)) EXCEPT
        !.isHost = TRUE, !.browsing = FALSE, !.session = "Idle",
        !.state = "SESSION_RUN"]

\* Mutant: the role of before is kept.
PosixBeginClient_KeepsRole(p) ==
    [AgeInput(PosixDestroySession(p)) EXCEPT
        !.lastHost = TRUE, !.browsing = FALSE,
        !.session = "Pending", !.state = "SESSION_RUN"]

PosixBeginClient(p) ==
    [AgeInput(PosixDestroySession(p)) EXCEPT
        !.isHost = FALSE, !.lastHost = TRUE, !.browsing = FALSE,
        !.session = "Pending", !.state = "SESSION_RUN"]

PosixStartResolve(p) == [p EXCEPT !.browsing = TRUE, !.state = "MDNS_RESOLVE"]

\* "Same role" at the repeat prompt.
PosixAgain(p) ==
    IF p.isHost THEN PosixBeginHost(p)
    ELSE IF p.lastHost THEN PosixBeginClient(p) ELSE PosixStartResolve(p)

(***************************************************************************)
(* handleLine(): k is the key the line begins with, h the globals.         *)
(***************************************************************************)
PosixHandleLine(k, h) ==
    \/ /\ h.state = "MDNS_NAME"
       /\ g' = [h EXCEPT !.state = "ROLE_SELECT"]
    \/ /\ h.state = "ROLE_SELECT"
       /\ \/ k = "H" /\ g' = [PosixBeginHost(h) EXCEPT !.chosen = "host"]
          \/ k = "C" /\ g' = [PosixStartResolve(h) EXCEPT !.chosen = "client"]
          \/ k \notin {"H", "C"} /\ g' = h
    \/ /\ h.state = "MDNS_RESOLVE"
       /\ \/ /\ k = "q"
             /\ g' = [h EXCEPT !.browsing = FALSE, !.running = FALSE,
                               !.state = "SESSION_RUN"]
          \/ /\ k # "q"
             /\ g' = [h EXCEPT !.browsing = FALSE, !.state = "CLIENT_IP"]
    \/ /\ h.state = "CLIENT_IP"
       /\ g' = IF k = "addr" THEN PosixBeginClient(h) ELSE h
    \/ /\ h.state = "SESSION_RUN"
       /\ g' = IF k = "q" THEN [h EXCEPT !.running = FALSE] ELSE h
    \/ /\ h.state = "REPEAT_PROMPT"
       /\ \/ k = "Y" /\ g' = PosixAgain(h)
          \/ k = "R" /\ g' = [h EXCEPT !.state = "ROLE_SELECT"]
          \/ /\ k \notin {"Y", "R"}
             /\ g' = [h EXCEPT !.running = FALSE, !.state = "DONE"]

\* processCli(): at most one character per round; Ctrl-C as a byte ends the
\* loop at once.
PosixProcessCli ==
    /\ phase = "cli"
    /\ \/ NothingTyped
       \/ TakesChar
       \/ /\ g.typed # <<>> /\ Head(g.typed).key = "etx"
          /\ g' = [g EXCEPT !.typed = Tail(@), !.running = FALSE]
          /\ UNCHANGED flash
       \/ EntersLine /\ PosixHandleLine(g.line.key, LineTaken) /\ UNCHANGED flash
    /\ phase' = "top"

(***************************************************************************)
(* The main loop.                                                          *)
(***************************************************************************)
PosixInit ==
    /\ phase = "top"
    /\ flash = Erased
    /\ \E s \in {"MDNS_NAME", "ROLE_SELECT"} : g = [Boot(Erased) EXCEPT !.state = s]

PosixTop ==
    /\ phase = "top" /\ g.running
    /\ phase' = "browse"
    /\ UNCHANGED <<g, flash>>

\* A host was found, or none yet.
PosixBrowse ==
    /\ phase = "browse"
    /\ \/ UNCHANGED g
       \/ /\ g.state = "MDNS_RESOLVE" /\ g.browsing
          /\ g' = PosixBeginClient([g EXCEPT !.browsing = FALSE])
    /\ phase' = "tick"
    /\ UNCHANGED flash

PosixTick ==
    /\ phase = "tick"
    /\ IF g.session = "none" THEN UNCHANGED g
                             ELSE \E r \in SessionTick(g) : g' = onStateChange(g, r)
    /\ phase' = "peer"
    /\ UNCHANGED flash

PosixPeerGone ==
    /\ phase = "peer"
    /\ g' = IF g.state = "SESSION_RUN" /\ g.up /\ g.session = "Idle"
              THEN [PosixDestroySession(g) EXCEPT !.running = FALSE]
              ELSE g
    /\ phase' = "trans"
    /\ UNCHANGED flash

PosixTransition ==
    /\ phase = "trans"
    /\ g' = IF ~g.running /\ g.state = "SESSION_RUN"
              THEN [PosixDestroySession(g) EXCEPT !.running = TRUE,
                                                  !.state = "REPEAT_PROMPT"]
              ELSE g
    /\ phase' = "cli"
    /\ UNCHANGED flash

\* The clean-up behind the loop.
PosixEnd ==
    /\ phase = "top" /\ ~g.running
    /\ g' = [PosixDestroySession(g) EXCEPT !.browsing = FALSE]
    /\ phase' = "end"
    /\ UNCHANGED flash

\* SIGTERM, at any point.
PosixSignal ==
    /\ phase # "end"
    /\ g' = [g EXCEPT !.running = FALSE]
    /\ UNCHANGED <<phase, flash>>

PosixStep ==
    \/ PosixTop \/ PosixBrowse \/ PosixTick \/ PosixPeerGone
    \/ PosixTransition \/ PosixProcessCli \/ PosixEnd
=============================================================================
