------------------------------ MODULE RtosDemo ------------------------------
(***************************************************************************)
(* The FreeRTOS demo, examples/midi_bridge/freertos/SessionTask.cpp: the   *)
(* task vSessionTask.  It differs from the lwIP demo in what it asks (a    *)
(* passphrase behind the role), in what it sends through (a transport that *)
(* drops datagrams on request, DroppingTransport.h), and in that lwIP runs *)
(* beside it: the calls bracketed with cyw43_arch_lwip_begin() and _end()  *)
(* are atomic with what surrounds them in a step of this module.           *)
(***************************************************************************)
EXTENDS CliProgram

RtosDestroySession(p) ==
    IF p.session = "none" THEN p
    ELSE [p EXCEPT !.session = "none", !.up = FALSE, !.everUp = FALSE, !.held = FALSE]

RtosBeginHost(p) ==
    [FlushInput(AgeInput(RtosDestroySession(p))) EXCEPT
        !.isHost = TRUE, !.session = "Idle", !.held = TRUE, !.state = "SESSION_RUN"]

RtosBeginClient(p) ==
    [FlushInput(AgeInput(RtosDestroySession(p))) EXCEPT
        !.isHost = FALSE, !.lastHost = TRUE, !.session = "Pending", !.held = TRUE,
        !.state = "SESSION_RUN"]

RtosStartResolve(p) == [p EXCEPT !.browsing = TRUE, !.state = "MDNS_RESOLVE"]

\* Datagrams asked to be dropped go one by one, when there are any to drop;
\* what a session leaves over is dropped from the next one.
RtosDrops(p) == {[p EXCEPT !.dropping = d] : d \in {p.dropping, FALSE}}

\* "Same role" at the repeat prompt.
RtosAgain(p) ==
    IF p.isHost THEN RtosBeginHost(p)
    ELSE IF p.lastHost THEN RtosBeginClient(p) ELSE RtosStartResolve(p)

(***************************************************************************)
(* handleLine()                                                            *)
(***************************************************************************)
RtosSetupLine(k, h) ==
    \/ /\ h.state = "WIFI_SSID"
       /\ \/ k = "blank" /\ h.hasSaved /\ g' = [h EXCEPT !.state = "WIFI_CONNECTING"]
          \/ k = "blank" /\ ~h.hasSaved /\ g' = h
          \/ k # "blank" /\ g' = [h EXCEPT !.state = "WIFI_PASS"]
       /\ UNCHANGED flash
    \/ /\ h.state = "WIFI_PASS"
       /\ g' = [h EXCEPT !.state = "WIFI_CONNECTING"]
       /\ UNCHANGED flash
    \/ /\ h.state = "STATIC_IP"
       /\ \/ /\ k \in {"blank", "addr"}
             /\ g' = [h EXCEPT !.ip = (k = "addr"), !.state = "MDNS_NAME"]
             /\ flash' = saveConfig(g')
          \/ k \notin {"blank", "addr"} /\ g' = h /\ UNCHANGED flash
    \/ /\ h.state = "MDNS_NAME"
       /\ g' = [h EXCEPT !.name = TRUE, !.hasSaved = TRUE, !.state = "ROLE_SELECT"]
       /\ flash' = saveConfig(g')

\* The role, the passphrase that goes with it, and what begins then.
RtosRoleLine(k, h) ==
    \/ /\ h.state = "ROLE_SELECT"
       /\ \/ k = "H" /\ g' = [h EXCEPT !.isHost = TRUE, !.chosen = "host",
                                       !.state = "AUTH_PASS"]
          \/ k = "C" /\ g' = [h EXCEPT !.isHost = FALSE, !.chosen = "client",
                                       !.state = "AUTH_PASS"]
          \/ k \notin {"H", "C"} /\ g' = h
    \/ /\ h.state = "AUTH_PASS"
       /\ LET p == [h EXCEPT !.auth = (k # "blank")]
          IN  g' = IF h.isHost THEN RtosBeginHost(p) ELSE RtosStartResolve(p)

RtosSessionLine(k, h) ==
    \/ /\ h.state = "MDNS_RESOLVE"
       /\ \/ /\ k = "q"
             /\ g' = [h EXCEPT !.browsing = FALSE, !.running = FALSE,
                               !.state = "SESSION_RUN"]
          \/ /\ k # "q"
             /\ g' = [h EXCEPT !.browsing = FALSE, !.state = "CLIENT_IP"]
    \/ /\ h.state = "CLIENT_IP"
       /\ g' = IF k = "addr" THEN RtosBeginClient(h) ELSE h
    \/ /\ h.state = "SESSION_RUN"
       /\ \/ k = "q" /\ g' = [h EXCEPT !.running = FALSE]
          \/ k \in {"d", "R"} /\ g' = [h EXCEPT !.dropping = TRUE]
          \/ k \notin {"q", "d"} /\ g' = h
    \/ /\ h.state = "REPEAT_PROMPT"
       /\ \/ k = "Y" /\ g' = RtosAgain(h)
          \/ k = "R" /\ g' = [RtosDestroySession(h) EXCEPT !.state = "ROLE_SELECT"]

RtosReboot == phase' = "top" /\ g' = Boot(flash) /\ UNCHANGED flash

RtosProcessCli ==
    /\ phase = "cli"
    /\ \/ NothingTyped /\ phase' = "trans"
       \/ TakesChar /\ phase' = "trans"
       \/ EntersLine /\ RtosSetupLine(g.line.key, LineTaken) /\ phase' = "trans"
       \/ /\ EntersLine
          /\ RtosRoleLine(g.line.key, LineTaken) \/ RtosSessionLine(g.line.key, LineTaken)
          /\ phase' = "trans" /\ UNCHANGED flash
       \/ /\ EntersLine /\ g.state = "REPEAT_PROMPT"
          /\ g.line.key \notin {"Y", "R"}
          /\ RtosReboot

(***************************************************************************)
(* The loop of vSessionTask().                                             *)
(***************************************************************************)
RtosInit ==
    /\ phase = "top"
    /\ flash = Erased
    /\ g = Boot(Erased)

RtosConnect ==
    /\ phase = "top" /\ g.running /\ g.state = "WIFI_CONNECTING"
    /\ \/ /\ g' = [g EXCEPT !.state = "DONE", !.running = FALSE]
          /\ UNCHANGED flash
       \/ /\ g' = [g EXCEPT !.state = "WIFI_SSID"]
          /\ UNCHANGED flash
       \/ /\ g' = [g EXCEPT !.hasSaved = TRUE,
                            !.state = IF g.hasSaved THEN "MDNS_NAME" ELSE "STATIC_IP"]
          /\ flash' = saveConfig(g)
    /\ UNCHANGED phase

RtosTop ==
    /\ phase = "top" /\ g.running /\ g.state # "WIFI_CONNECTING"
    /\ phase' = "browse"
    /\ UNCHANGED <<g, flash>>

RtosBrowse ==
    /\ phase = "browse"
    /\ \/ UNCHANGED g
       \/ /\ g.state = "MDNS_RESOLVE"
          /\ g' = RtosBeginClient([g EXCEPT !.browsing = FALSE])
    /\ phase' = "tick"
    /\ UNCHANGED flash

RtosTick ==
    /\ phase = "tick"
    /\ IF g.session = "none"
         THEN UNCHANGED g
         ELSE \E r \in SessionTick(g), p \in RtosDrops(g) : g' = onStateChange(p, r)
    /\ phase' = "peer"
    /\ UNCHANGED flash

RtosPeerGone ==
    /\ phase = "peer"
    /\ g' = IF g.state = "SESSION_RUN" /\ g.up /\ g.session = "Idle"
              THEN [RtosDestroySession(g) EXCEPT !.running = FALSE]
              ELSE g
    /\ phase' = "cli"
    /\ UNCHANGED flash

RtosTransition ==
    /\ phase = "trans"
    /\ g' = IF ~g.running /\ g.state = "SESSION_RUN"
              THEN [RtosDestroySession(g) EXCEPT !.running = TRUE,
                                                 !.state = "REPEAT_PROMPT"]
              ELSE g
    /\ phase' = "top"
    /\ UNCHANGED flash

RtosEnd == phase = "top" /\ ~g.running /\ RtosReboot

RtosPowerLoss ==
    /\ flash' \in {flash} \cup (IF g.state \in {"WIFI_CONNECTING", "STATIC_IP", "MDNS_NAME"}
                                  THEN {Erased} ELSE {})
    /\ g' = Boot(flash')
    /\ phase' = "top"

RtosStep ==
    \/ RtosConnect \/ RtosTop \/ RtosBrowse \/ RtosTick \/ RtosPeerGone
    \/ RtosProcessCli \/ RtosTransition \/ RtosEnd
=============================================================================
