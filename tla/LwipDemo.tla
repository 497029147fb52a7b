------------------------------ MODULE LwipDemo ------------------------------
(***************************************************************************)
(* The Pico 2 W demo, examples/midi_bridge/lwip/main.cpp: the same prompts *)
(* behind a WiFi set-up with a record in flash.  A round of its main loop: *)
(* "top" (loop condition, WiFi connect), "browse", "tick", "peer", "cli",  *)
(* "trans".  Power may go at any time.                                     *)
(***************************************************************************)
EXTENDS CliProgram

LwipDestroySession(p) ==
    IF p.session = "none" THEN p
    ELSE [p EXCEPT !.session = "none", !.up = FALSE, !.everUp = FALSE, !.held = FALSE]

LwipBeginHost(p) ==
    [FlushInput(AgeInput(LwipDestroySession(p))) EXCEPT
        !.isHost = TRUE, !.session = "Idle", !.held = TRUE, !.state = "SESSION_RUN"]

LwipBeginClient(p) ==
    [FlushInput(AgeInput(LwipDestroySession(p))) EXCEPT
        !.isHost = FALSE, !.lastHost = TRUE, !.session = "Pending", !.held = TRUE,
        !.state = "SESSION_RUN"]

LwipStartResolve(p) == [p EXCEPT !.browsing = TRUE, !.state = "MDNS_RESOLVE"]

\* "Same role" at the repeat prompt.
LwipAgain(p) ==
    IF p.isHost THEN LwipBeginHost(p)
    ELSE IF p.lastHost THEN LwipBeginClient(p) ELSE LwipStartResolve(p)

(***************************************************************************)
(* handleLine(), the prompts of the set-up.                                *)
(***************************************************************************)
LwipSetupLine(k, h) ==
    \/ /\ h.state = "WIFI_SSID"
       /\ \/ k = "blank" /\ h.hasSaved /\ g' = [h EXCEPT !.state = "WIFI_CONNECTING"]
          \/ k = "blank" /\ ~h.hasSaved /\ g' = h
          \/ k # "blank" /\ g' = [h EXCEPT !.state = "WIFI_PASS"]
       /\ UNCHANGED flash
    \/ /\ h.state = "WIFI_PASS"
       /\ g' = [h EXCEPT !.state = "WIFI_CONNECTING"]
       /\ UNCHANGED flash
    \/ /\ h.state = "STATIC_IP"
       /\ \/ /\ k \in {"blank", "addr"}
             /\ g' = [h EXCEPT !.ip = (k = "addr"), !.state = "MDNS_NAME"]
             /\ flash' = saveConfig(g')
          \/ k \notin {"blank", "addr"} /\ g' = h /\ UNCHANGED flash
    \/ /\ h.state = "MDNS_NAME"
       /\ g' = [h EXCEPT !.name = TRUE, !.hasSaved = TRUE, !.state = "ROLE_SELECT"]
       /\ flash' = saveConfig(g')

\* handleLine(), the prompts around a session.
LwipSessionLine(k, h) ==
    \/ /\ h.state = "ROLE_SELECT"
       /\ \/ k = "H" /\ g' = [LwipBeginHost(h) EXCEPT !.chosen = "host"]
          \/ k = "C" /\ g' = [LwipStartResolve(h) EXCEPT !.chosen = "client"]
          \/ k \notin {"H", "C"} /\ g' = h
    \/ /\ h.state = "MDNS_RESOLVE"
       /\ \/ /\ k = "q"
             /\ g' = [h EXCEPT !.browsing = FALSE, !.running = FALSE,
                               !.state = "SESSION_RUN"]
          \/ /\ k # "q"
             /\ g' = [h EXCEPT !.browsing = FALSE, !.state = "CLIENT_IP"]
    \/ /\ h.state = "CLIENT_IP"
       /\ g' = IF k = "addr" THEN LwipBeginClient(h) ELSE h
    \/ /\ h.state = "SESSION_RUN"
       /\ g' = IF k = "q" THEN [h EXCEPT !.running = FALSE] ELSE h
    \/ /\ h.state = "REPEAT_PROMPT"
       /\ \/ k = "Y" /\ g' = LwipAgain(h)
          \/ k = "R" /\ g' = [LwipDestroySession(h) EXCEPT !.state = "ROLE_SELECT"]

LwipReboot == phase' = "top" /\ g' = Boot(flash) /\ UNCHANGED flash

LwipProcessCli ==
    /\ phase = "cli"
    /\ \/ NothingTyped /\ phase' = "trans"
       \/ TakesChar /\ phase' = "trans"
       \/ EntersLine /\ LwipSetupLine(g.line.key, LineTaken) /\ phase' = "trans"
       \/ /\ EntersLine /\ LwipSessionLine(g.line.key, LineTaken)
          /\ phase' = "trans" /\ UNCHANGED flash
       \/ /\ EntersLine /\ g.state = "REPEAT_PROMPT"
          /\ g.line.key \notin {"Y", "R"}
          /\ LwipReboot

(***************************************************************************)
(* The main loop.                                                          *)
(***************************************************************************)
LwipInit ==
    /\ phase = "top"
    /\ flash = Erased
    /\ g = Boot(Erased)

\* The blocking connect: the chip fails to start, three attempts fail, or the
\* link is up and the credentials are worth keeping.
LwipConnect ==
    /\ phase = "top" /\ g.running /\ g.state = "WIFI_CONNECTING"
    /\ \/ /\ g' = [g EXCEPT !.state = "DONE", !.running = FALSE]
          /\ UNCHANGED flash
       \/ /\ g' = [g EXCEPT !.state = "WIFI_SSID"]
          /\ UNCHANGED flash
       \/ /\ g' = [g EXCEPT !.hasSaved = TRUE,
                            !.state = IF g.hasSaved THEN "MDNS_NAME" ELSE "STATIC_IP"]
          /\ flash' = saveConfig(g)
    /\ UNCHANGED phase

LwipTop ==
    /\ phase = "top" /\ g.running /\ g.state # "WIFI_CONNECTING"
    /\ phase' = "browse"
    /\ UNCHANGED <<g, flash>>

\* Mutant: the browse is not stopped when a host is found.
LwipBrowse_KeepsOn ==
    /\ phase = "browse"
    /\ \/ UNCHANGED g
       \/ /\ g.state = "MDNS_RESOLVE"
          /\ g' = LwipBeginClient(g)
    /\ phase' = "tick"
    /\ UNCHANGED flash

\* A host was found, or none yet; the query is repeated every two seconds.
LwipBrowse ==
    /\ phase = "browse"
    /\ \/ UNCHANGED g
       \/ /\ g.state = "MDNS_RESOLVE"
          /\ g' = LwipBeginClient([g EXCEPT !.browsing = FALSE])
    /\ phase' = "tick"
    /\ UNCHANGED flash

LwipTick ==
    /\ phase = "tick"
    /\ IF g.session = "none" THEN UNCHANGED g
                             ELSE \E r \in SessionTick(g) : g' = onStateChange(g, r)
    /\ phase' = "peer"
    /\ UNCHANGED flash

LwipPeerGone ==
    /\ phase = "peer"
    /\ g' = IF g.state = "SESSION_RUN" /\ g.up /\ g.session = "Idle"
              THEN [LwipDestroySession(g) EXCEPT !.running = FALSE]
              ELSE g
    /\ phase' = "cli"
    /\ UNCHANGED flash

LwipTransition ==
    /\ phase = "trans"
    /\ g' = IF ~g.running /\ g.state = "SESSION_RUN"
              THEN [LwipDestroySession(g) EXCEPT !.running = TRUE,
                                                 !.state = "REPEAT_PROMPT"]
              ELSE g
    /\ phase' = "top"
    /\ UNCHANGED flash

\* The clean-up behind the loop, and doReboot().
LwipEnd == phase = "top" /\ ~g.running /\ LwipReboot

\* Power is lost and comes back; where a record is being written, the sector
\* may be found erased.
LwipPowerLoss ==
    /\ flash' \in {flash} \cup (IF g.state \in {"WIFI_CONNECTING", "STATIC_IP", "MDNS_NAME"}
                                  THEN {Erased} ELSE {})
    /\ g' = Boot(flash')
    /\ phase' = "top"

LwipStep ==
    \/ LwipConnect \/ LwipTop \/ LwipBrowse \/ LwipTick \/ LwipPeerGone
    \/ LwipProcessCli \/ LwipTransition \/ LwipEnd
=============================================================================
