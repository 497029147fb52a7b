----------------------------- MODULE NxpConsole -----------------------------
(***************************************************************************)
(* The life of the FRDM-MCXN947 bridge: the console, the network and the   *)
(* session of examples/midi_bridge/nxp/SessionTask.cpp around the traffic  *)
(* of its other modules.  One task polls gState; no wait blocks it.  Every *)
(* deadline (the boot prompt, kAutoMs, kHostBrowseMs, kDhcpTimeoutMs) may  *)
(* pass at any time and passes in the end, so answers race all of them.    *)
(***************************************************************************)
EXTENDS BridgeMenu

VARIABLE nxp

AppStates == {"BOOT_PROMPT", "ROLE_SELECT", "MDNS_NAME", "NETWORK_SELECT", "STATIC_IP",
              "STATIC_NETMASK", "STATIC_GATEWAY", "STATIC_DNS", "WAIT_NETWORK",
              "MDNS_RESOLVE", "CLIENT_IP", "CLIENT_PORT", "SESSION_RUN"}

\* What a line is dispatched on: its first character, "1" also of an address,
\* or "blank": the empty line.
Letters == {"H", "C", "D", "S", "m", "1"}

NxpGlobals == [
    state    : AppStates,                 \* gState
    isHost   : BOOLEAN,
    useDhcp  : BOOLEAN,
    lastHost : BOOLEAN,                   \* gLastHostEp.isValid()
    entered  : BOOLEAN,                   \* gEnteredSetup
    line     : Letters \cup {"blank"},    \* gLineBuf
    auto     : BOOLEAN,                   \* gAutoActive
    browsing : BOOLEAN,                   \* gMdnsBrowsing
    search   : BOOLEAN,                   \* gDisc has a search under way
    found    : BOOLEAN,                   \* gFoundCount # 0
    session  : SessionStates,
    up       : BOOLEAN,                   \* netif_is_up()
    dhcp     : {"off", "trying", "bound"},
    autoip   : {"off", "trying", "bound"},
    autoIpStarted : BOOLEAN,
    addr     : {"none", "lease", "link", "static"},
    lost     : BOOLEAN,                   \* history: it went after it was awaited
    touched  : BOOLEAN]                   \* history: a prompt of this setup was typed at

NxpOff ==
    [state |-> "BOOT_PROMPT", isHost |-> FALSE, useDhcp |-> TRUE, lastHost |-> FALSE,
     entered |-> FALSE, line |-> "blank", auto |-> FALSE, browsing |-> FALSE,
     search |-> FALSE, found |-> FALSE, session |-> "none", up |-> FALSE,
     dhcp |-> "off", autoip |-> "off", autoIpStarted |-> FALSE, addr |-> "none",
     lost |-> FALSE, touched |-> FALSE]

In(s) == nxp.state = s

-----------------------------------------------------------------------------
\* close() and ticks, at most 200, then it is deleted whatever its state.
destroySession(r) == [r EXCEPT !.session = "none"]

doBeginHost(r) ==
    [destroySession(r) EXCEPT !.isHost = TRUE, !.session = "Idle", !.line = "blank",
                              !.lost = FALSE, !.state = "SESSION_RUN"]

doBeginClient(r) ==
    [destroySession(r) EXCEPT !.isHost = FALSE, !.lastHost = TRUE, !.session = "Pending",
                              !.line = "blank", !.lost = FALSE, !.state = "SESSION_RUN"]

\* A prompt, answered by itself if nobody does.
Prompt(r, s) == [r EXCEPT !.state = s, !.auto = TRUE]

enterSetupNow(r) ==
    Prompt([r EXCEPT !.entered = TRUE, !.touched = FALSE, !.lost = FALSE], "ROLE_SELECT")

\* The search may fail to start; the window is waited for all the same.
startMdnsResolve(r) ==
    {[r EXCEPT !.found = FALSE, !.browsing = TRUE, !.search = ok, !.state = "MDNS_RESOLVE"] :
       ok \in BOOLEAN}

finishMdnsResolve(r, manual) ==
    LET s == [r EXCEPT !.search = FALSE, !.browsing = FALSE]
    IN  IF ~manual /\ ~r.found /\ ~r.entered THEN [s EXCEPT !.state = "SESSION_RUN"]
        ELSE IF manual \/ ~r.found THEN [s EXCEPT !.state = "CLIENT_IP"]
        ELSE Prompt(s, "MDNS_RESOLVE")

(***************************************************************************)
(* NM2_NetifStartDhcp() starts it anew if it runs; NM2_NetifSetStatic()    *)
(* sets the address and stops neither DHCP nor AutoIP.                     *)
(***************************************************************************)
NM2_NetifStartDhcp(r) == [r EXCEPT !.up = TRUE, !.dhcp = "trying"]
NM2_NetifStartAutoIp(r) == [r EXCEPT !.autoip = IF @ = "off" THEN "trying" ELSE @]
NM2_NetifSetStatic(r) == [r EXCEPT !.up = TRUE, !.addr = "static"]

\* `ok' is whether the fields still parse once they are cut to 15 characters.
applyNetworkAndProceed(r, ok) ==
    LET s == [r EXCEPT !.autoIpStarted = FALSE, !.state = "WAIT_NETWORK"]
    IN  IF r.useDhcp THEN NM2_NetifStartDhcp(s)
        ELSE IF ok THEN NM2_NetifSetStatic(s)
        ELSE NM2_NetifStartDhcp([s EXCEPT !.useDhcp = TRUE])

proceedAfterNetworkReady(r) ==
    IF r.isHost THEN {doBeginHost(r)}
    ELSE IF r.entered \/ ~r.lastHost THEN startMdnsResolve(r)
    ELSE {doBeginClient(r)}

(***************************************************************************)
(* handleLine(), one operator per group of prompts.                        *)
(***************************************************************************)
RoleLine(r, l) ==
    IF l \in {"H", "C", "blank"}
      THEN Prompt([r EXCEPT !.isHost = IF l = "blank" THEN @ ELSE l = "H"], "MDNS_NAME")
      ELSE r

NetworkLine(r, l) ==
    LET s == [r EXCEPT !.useDhcp = IF l = "blank" THEN @ ELSE l = "D"]
    IN  IF l \notin {"D", "S", "blank"} THEN r
        ELSE IF s.useDhcp THEN applyNetworkAndProceed(s, TRUE)
        ELSE Prompt(s, "STATIC_IP")

NextField == [STATIC_IP |-> "STATIC_NETMASK", STATIC_NETMASK |-> "STATIC_GATEWAY",
              STATIC_GATEWAY |-> "STATIC_DNS"]

StaticLine(r, l) ==
    IF l \notin {"1", "blank"} THEN {r}
    ELSE IF r.state = "STATIC_DNS" THEN {applyNetworkAndProceed(r, ok) : ok \in BOOLEAN}
    ELSE {Prompt(r, NextField[r.state])}

\* Mutant: the address is asked for at once, and the search goes on.
HostLine_KeepsSearching(r, l) ==
    IF r.browsing THEN IF l = "m" THEN [r EXCEPT !.browsing = FALSE, !.state = "CLIENT_IP"]
                       ELSE finishMdnsResolve(r, FALSE)
    ELSE IF l = "1" THEN doBeginClient(r)
    ELSE IF l = "m" THEN [r EXCEPT !.state = "CLIENT_IP"]
    ELSE r

HostLine(r, l) ==
    IF r.browsing THEN finishMdnsResolve(r, l = "m")
    ELSE IF l = "1" THEN doBeginClient(r)
    ELSE IF l = "m" THEN [r EXCEPT !.state = "CLIENT_IP"]
    ELSE r

AddressLine(r, l) == IF l = "1" THEN [r EXCEPT !.state = "CLIENT_PORT"] ELSE r

handleLine(r, l) ==
    CASE r.state = "ROLE_SELECT"    -> {RoleLine(r, l)}
      [] r.state = "MDNS_NAME"      -> {Prompt(r, "NETWORK_SELECT")}
      [] r.state = "NETWORK_SELECT" -> {NetworkLine(r, l)}
      [] r.state \in {"STATIC_IP", "STATIC_NETMASK", "STATIC_GATEWAY", "STATIC_DNS"} ->
           StaticLine(r, l)
      [] r.state = "MDNS_RESOLVE"   -> {HostLine(r, l)}
      [] r.state = "CLIENT_IP"      -> {AddressLine(r, l)}
      [] r.state = "CLIENT_PORT"    -> {doBeginClient(r)}

-----------------------------------------------------------------------------
NxpBoot == nxp = NxpOff

(***************************************************************************)
(* processCli(), which runs in all states but BOOT_PROMPT and WAIT_NETWORK *)
(***************************************************************************)
Answering == AppStates \ {"BOOT_PROMPT", "WAIT_NETWORK", "SESSION_RUN"}

\* kAutoMs have passed: a default, not what the prompt shows in brackets.
AutoAnswer(r) ==
    CASE r.state = "ROLE_SELECT"    -> "H"
      [] r.state = "NETWORK_SELECT" -> "D"
      [] r.state = "MDNS_RESOLVE"   -> "1"
      [] OTHER                      -> "blank"

AutoAdvance ==
    /\ nxp.auto
    /\ nxp' \in handleLine([nxp EXCEPT !.auto = FALSE], AutoAnswer(nxp))

NxpEsc ==
    /\ In("SESSION_RUN")
    /\ nxp' = enterSetupNow(destroySession(nxp))

\* Any character ends the countdown for good.
Heard(r) == [r EXCEPT !.auto = FALSE, !.touched = TRUE]

TypeKey ==
    /\ nxp.state \in Answering
    /\ \/ \E k \in Letters : nxp' = [Heard(nxp) EXCEPT !.line = IF @ = "blank" THEN k ELSE @]
       \/ nxp' = [Heard(nxp) EXCEPT !.line = "blank"]

EnterLine ==
    /\ nxp.state \in Answering
    /\ \E r \in handleLine(Heard(nxp), nxp.line) : nxp' = [r EXCEPT !.line = "blank"]

(***************************************************************************)
(* vSessionTask()                                                          *)
(***************************************************************************)
BootKey ==
    /\ In("BOOT_PROMPT")
    /\ nxp' = enterSetupNow(nxp)

BootTimesOut ==
    /\ In("BOOT_PROMPT")
    /\ nxp' = applyNetworkAndProceed(nxp, TRUE)

NetworkReady(r) ==
    /\ r.up
    /\ r.useDhcp => r.dhcp = "bound" \/ r.autoip = "bound"

NxpNetworkReady ==
    /\ In("WAIT_NETWORK") /\ NetworkReady(nxp)
    /\ nxp' \in proceedAfterNetworkReady(nxp)

DhcpTimesOut ==
    /\ In("WAIT_NETWORK") /\ ~NetworkReady(nxp)
    /\ LET r == NM2_NetifStartDhcp(nxp)
       IN  nxp' = IF r.autoIpStarted THEN r
                  ELSE [NM2_NetifStartAutoIp(r) EXCEPT !.autoIpStarted = TRUE]

Browsing == In("MDNS_RESOLVE") /\ nxp.browsing

PeerFound ==
    /\ Browsing /\ nxp.search
    /\ nxp' = [nxp EXCEPT !.found = TRUE]

BrowseTimesOut ==
    /\ Browsing
    /\ nxp' = finishMdnsResolve(nxp, FALSE)

NxpTick ==
    /\ nxp.session # "none"
    /\ \E s \in NextSession([session |-> nxp.session, client |-> ~nxp.isHost], nxp.addr # "none")
                  \cup (IF nxp.session = "Established" THEN {"Idle"} ELSE {}) :
         nxp' = [nxp EXCEPT !.session = s]

(***************************************************************************)
(* lwIP's thread (external).  A lease, new or renewed, sets the address    *)
(* and ends AutoIP.                                                        *)
(***************************************************************************)
LeaseComes ==
    /\ nxp.dhcp = "trying" \/ (nxp.dhcp = "bound" /\ nxp.addr # "lease")
    /\ nxp' = [nxp EXCEPT !.dhcp = "bound", !.addr = "lease", !.autoip = "off"]

LeaseGoes ==
    /\ nxp.dhcp = "bound"
    /\ nxp' = [nxp EXCEPT !.dhcp = "trying", !.addr = "none",
                          !.lost = @ \/ nxp.state \in {"MDNS_RESOLVE", "CLIENT_IP", "CLIENT_PORT"}]

AutoIpSettles ==
    /\ nxp.autoip = "trying"
    /\ nxp' = [nxp EXCEPT !.autoip = "bound", !.addr = "link"]

NxpStep ==
    \/ BootTimesOut \/ AutoAdvance \/ DhcpTimesOut \/ BrowseTimesOut

NxpNext ==
    \/ NxpStep \/ NxpNetworkReady \/ PeerFound \/ NxpTick
    \/ BootKey \/ NxpEsc \/ TypeKey \/ EnterLine
    \/ LeaseComes \/ LeaseGoes \/ AutoIpSettles
=============================================================================
