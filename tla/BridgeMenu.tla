----------------------------- MODULE BridgeMenu -----------------------------
(***************************************************************************)
(* The console menus and the stored configuration of the Pico bridges:     *)
(* examples/midi_bridge/pico/console_menu.cpp and bridge_config.cpp, and   *)
(* the copies of them pico_w has, with WiFi credentials for DHCP/static.   *)
(* `pc' is the place of the only thread: a wait that polls the console, or *)
(* a step between two of them.  Whether a key comes, and which, is the     *)
(* user's choice; `touched' is the history of whether one came since the   *)
(* board was switched on and before it ran.                                *)
(***************************************************************************)
EXTENDS Naturals

CONSTANTS
    Boards,        \* the boards considered
    DefaultRole,   \* NM2_BRIDGE_DEFAULT_ROLE_HOST (pico)
    KLinkHold,     \* 2000 ms, in units of time: UP does not count sooner
    KRejoinRetry   \* kWifiRejoinRetryMs, in the same units

ASSUME BridgeAssumption ==
    /\ Boards \subseteq {"pico", "pico_w", "nxp"}
    /\ DefaultRole \in {"Client", "Host"}
    /\ KLinkHold \in Nat /\ KRejoinRetry \in Nat /\ KLinkHold <= KRejoinRetry

VARIABLES
    board,  \* the board that runs; never changes
    pc,     \* where its thread is
    cfg,    \* gBridgeConfig
    flash,  \* the last flash sector: a configuration, or Erased
    b,      \* the locals of main() and of the menus, session and network
    w       \* the WiFi chip and wifi_supervise()'s statics (pico_w)

bridgeVars == <<board, pc, cfg, flash, b, w>>

\* "dhcp" and "static" are of pico; of pico_w, "home" and "stage" stand for two
\* SSIDs with their passwords.
Nets == {"dhcp", "static", "none", "home", "stage"}
NetsOf(bd) == IF bd = "pico" THEN {"dhcp", "static"} ELSE {"home", "stage"}

BridgeConfigs == [role : {"Client", "Host"}, net : Nets, host : {"none", "saved"}]

Erased == [role |-> "none", net |-> "none", host |-> "none"]

\* BridgeConfig{}
Defaults(bd) ==
    IF bd = "pico" THEN [role |-> DefaultRole, net |-> "dhcp", host |-> "none"]
                   ELSE [role |-> "Host", net |-> "none", host |-> "none"]

\* loadBridgeConfig(): what is stored, or the defaults.
loadBridgeConfig(f) == IF f = Erased THEN Defaults(board) ELSE f

At(p) == pc = p
Goes(p) == pc' = p

\* A key was pressed.
Touched(r) == [r EXCEPT !.touched = TRUE]

-----------------------------------------------------------------------------
(***************************************************************************)
(* runConfigMenu(): three seconds for a key.                               *)
(***************************************************************************)
SetupDeclined == Goes(IF cfg.net = "none" THEN "role" ELSE "connect")

WindowCloses ==
    /\ At("window")
    /\ SetupDeclined
    /\ b' = [b EXCEPT !.entered = (cfg.net = "none")]
    /\ UNCHANGED <<cfg, flash>>

\* Any key; it counts if the deadline has not passed by the time it is drained.
KeyInWindow ==
    /\ At("window")
    /\ \/ Goes("role") /\ b' = [Touched(b) EXCEPT !.entered = TRUE]
       \/ SetupDeclined /\ b' = [Touched(b) EXCEPT !.entered = (cfg.net = "none")]
    /\ UNCHANGED <<cfg, flash>>

(***************************************************************************)
(* runSetupNow(): role and name, then the network, then it is saved.       *)
(***************************************************************************)
AnswerRole ==
    /\ At("role")
    /\ \E r \in {"Client", "Host", cfg.role} : cfg' = [cfg EXCEPT !.role = r]
    /\ b' = Touched(b)
    /\ Goes("network")
    /\ UNCHANGED flash

\* DHCP or static; Enter keeps what there is.  An address that is not valid
\* is asked for again.
AnswerDhcp ==
    /\ At("network")
    /\ \E n \in NetsOf("pico") : cfg' = [cfg EXCEPT !.net = n]
    /\ b' = Touched(b)
    /\ Goes("save")
    /\ UNCHANGED flash

(***************************************************************************)
(* saveBridgeConfig(): the sector is erased and programmed.  Behind it,    *)
(* the network is brought up, or the next round begins.                    *)
(***************************************************************************)
Save ==
    /\ At("save")
    /\ flash' = cfg
    /\ Goes(IF b.net = "none" THEN "connect" ELSE "reconnect")
    /\ UNCHANGED <<cfg, b>>

-----------------------------------------------------------------------------
\* Mutant: somebody is taken to be at the console.
BeginHostSelect_Attended(r) == [r EXCEPT !.sawInput = TRUE]

(***************************************************************************)
(* runClientHostSelect()                                                   *)
(***************************************************************************)
BeginHostSelect(r) == [r EXCEPT !.sawInput = r.entered]

\* Wait for an address, but not for ever, then ask once who is there.
NetifReadyOrNot ==
    /\ At("ready")
    /\ Goes("browse")
    /\ UNCHANGED <<cfg, flash, b>>

HostFound ==
    /\ At("browse") /\ ~b.found
    /\ b' = [b EXCEPT !.found = TRUE]
    /\ UNCHANGED <<pc, cfg, flash>>

\* Enter ends the browse; `m' is remembered until its Enter.
BrowseKey ==
    /\ At("browse")
    /\ \/ b' = [Touched(b) EXCEPT !.sawInput = TRUE] /\ Goes("browsed")
       \/ /\ ~b.manual /\ UNCHANGED pc
          /\ b' = [Touched(b) EXCEPT !.sawInput = TRUE, !.manual = TRUE]
    /\ UNCHANGED <<cfg, flash>>

BrowseEnds ==
    /\ At("browse")
    /\ Goes("browsed")
    /\ UNCHANGED <<cfg, flash, b>>

\* What to do with what was found, and whom to ask.
AfterBrowse ==
    /\ At("browsed")
    /\ \/ /\ b.manual \/ (~b.found /\ b.sawInput)
          /\ Goes("ip") /\ UNCHANGED <<b, cfg>>
       \/ /\ ~b.manual /\ ~b.found /\ ~b.sawInput
          /\ Goes("begin") /\ b' = [b EXCEPT !.have = FALSE] /\ UNCHANGED cfg
       \/ /\ ~b.manual /\ b.found /\ b.sawInput
          /\ Goes("pick") /\ UNCHANGED <<b, cfg>>
       \/ /\ ~b.manual /\ b.found /\ ~b.sawInput
          /\ Goes("saveHost") /\ cfg' = [cfg EXCEPT !.host = "saved"] /\ UNCHANGED b
    /\ UNCHANGED flash

\* A number of the list; `m' for an address; anything else is asked again.
AnswerPick ==
    /\ At("pick")
    /\ b' = Touched(b)
    /\ \/ Goes("saveHost") /\ cfg' = [cfg EXCEPT !.host = "saved"]
       \/ Goes("ip") /\ UNCHANGED cfg
    /\ UNCHANGED flash

\* An address and a port; Enter keeps the one there is, or takes a default.
AnswerAddress ==
    /\ At("ip")
    /\ b' = Touched(b)
    /\ cfg' = [cfg EXCEPT !.host = "saved"]
    /\ Goes("saveHost")
    /\ UNCHANGED flash

SaveHost ==
    /\ At("saveHost")
    /\ flash' = cfg
    /\ b' = [b EXCEPT !.have = TRUE]
    /\ Goes("begin")
    /\ UNCHANGED cfg

-----------------------------------------------------------------------------
(***************************************************************************)
(* The session (external).  A Host listens in Idle, a Client starts with   *)
(* its Invitation and stays Idle once it gets there.  Nothing is heard of  *)
(* the peer unless the network `works'; silence ends a session, and counts *)
(* in diagnostics().timeouts, which `timedOut' compares with seenTimeouts. *)
(***************************************************************************)
SessionStates == {"none", "Idle", "Pending", "Established", "PendingBye"}

NextSession(r, works) ==
    CASE r.session = "Established" -> {"Established"} \cup (IF works THEN {"Idle"} ELSE {})
      [] r.client /\ r.session = "Pending" ->
           {"Pending", "Idle"} \cup (IF works THEN {"Established"} ELSE {})
      [] r.client /\ r.session = "Idle" -> {"Idle"}
      [] OTHER -> {"Idle"} \cup (IF works THEN {"Pending", "Established"} ELSE {})

SessionTick(r, works) == {[r EXCEPT !.session = s] : s \in NextSession(r, works)}

\* Silence has lasted; `owed' is the history of a Client not yet inviting again.
SessionTimesOut(r) ==
    [r EXCEPT !.session = "Idle", !.timedOut = (board = "pico_w"),
              !.owed = (board = "pico_w" /\ r.client)]

BeginClient(r) == [r EXCEPT !.session = "Pending", !.owed = FALSE]

(***************************************************************************)
(* The locals of main().                                                   *)
(***************************************************************************)
Bridges == [
    net       : Nets,            \* the network that was brought up, or tried
    changed   : BOOLEAN,         \* wifiChanged
    netif     : BOOLEAN,         \* gNetworkUp (pico)
    networkUp : BOOLEAN,
    ready     : BOOLEAN,         \* the netif has an address (pico)
    lost      : BOOLEAN,         \* history: it went after it was awaited
    entered   : BOOLEAN,         \* enteredSetup, interactive
    found     : BOOLEAN,         \* hostCount # 0
    manual    : BOOLEAN,         \* manualPending
    sawInput  : BOOLEAN,
    have      : BOOLEAN,         \* haveClientHost
    started   : BOOLEAN,         \* sessionStarted
    client    : BOOLEAN,         \* clientSession
    session   : SessionStates,
    timedOut  : BOOLEAN,         \* diagnostics().timeouts # seenTimeouts
    owed      : BOOLEAN,
    again     : BOOLEAN,         \* history: ESC was pressed since power-on
    touched   : BOOLEAN]         \* history: a key was pressed since power-on

SwitchedOn ==
    [net |-> "none", changed |-> FALSE, netif |-> FALSE, networkUp |-> FALSE,
     ready |-> FALSE, lost |-> FALSE, entered |-> FALSE, found |-> FALSE,
     manual |-> FALSE, sawInput |-> FALSE, have |-> FALSE, started |-> FALSE,
     client |-> FALSE, session |-> "none", timedOut |-> FALSE, owed |-> FALSE,
     again |-> FALSE, touched |-> FALSE]

\* What the menus and the history of them say is of no use in the run loop.
Runs(r) ==
    [r EXCEPT !.changed = FALSE, !.lost = FALSE, !.entered = FALSE, !.found = FALSE,
              !.manual = FALSE, !.sawInput = FALSE, !.have = FALSE, !.touched = TRUE]

\* ESC: a Bye is sent and not waited for; the setup follows.
Escape(r) ==
    [r EXCEPT !.entered = TRUE, !.again = TRUE, !.owed = FALSE,
              !.session = IF r.started THEN "PendingBye" ELSE @]

\* The chip and the statics of wifi_supervise(); `lost' and `tried' are the
\* times since lostAtMs and lastTryMs, which count while the link is lost.
WifiStates == [
    chip      : BOOLEAN,         \* gCyw43Up
    pollReady : BOOLEAN,         \* gWifiPollReady
    status    : {"up", "joining", "down"},  \* what the driver reads
    wedged    : BOOLEAN,         \* nothing arrives, whatever the driver reads
    up        : BOOLEAN,
    lost      : 0..KLinkHold,
    tried     : 0..KRejoinRetry]

ChipOff ==
    [chip |-> FALSE, pollReady |-> FALSE, status |-> "down", wedged |-> FALSE,
     up |-> TRUE, lost |-> KLinkHold, tried |-> KRejoinRetry]

\* LwipMdnsDiscovery::isNetifReady(); the driver reads "up" of a netif with
\* an address.
isNetifReady == IF board = "pico" THEN b.ready ELSE w.chip /\ w.status = "up"

\* An address that goes once it was waited for goes unnoticed.
Selecting == {"select", "ready", "browse", "browsed", "pick", "ip", "saveHost", "begin"}

Lost(r) == [r EXCEPT !.lost = @ \/ pc \in Selecting]

RunLoop == {"poll", "tick"}
InRun == pc \in RunLoop

\* Mutant: whether an address came is not looked at.
Wait_GoesAhead ==
    /\ At("wait")
    /\ b' = [b EXCEPT !.networkUp = b.networkUp]
    /\ Goes("select")
    /\ UNCHANGED <<cfg, flash, w>>

(***************************************************************************)
(* The rounds of main() that both boards have.                             *)
(***************************************************************************)
Wait ==
    /\ At("wait")
    /\ b' = [b EXCEPT !.networkUp = b.networkUp /\ isNetifReady]
    /\ Goes("select")
    /\ UNCHANGED <<cfg, flash, w>>

Select ==
    /\ At("select")
    /\ LET h == [b EXCEPT !.have = (cfg.host # "none")]
       IN  IF b.networkUp /\ cfg.role = "Client" /\ (b.entered \/ ~h.have)
             THEN Goes("ready") /\ b' = BeginHostSelect(h)
             ELSE Goes("begin") /\ b' = h
    /\ UNCHANGED <<cfg, flash, w>>

Begin ==
    /\ At("begin")
    /\ b' = CASE ~b.networkUp \/ (cfg.role = "Client" /\ ~b.have) ->
                   [Runs(b) EXCEPT !.started = FALSE, !.client = FALSE]
              [] b.networkUp /\ cfg.role = "Client" /\ b.have ->
                   [BeginClient(Runs(b)) EXCEPT !.started = TRUE, !.client = TRUE]
              [] b.networkUp /\ cfg.role = "Host" ->
                   [Runs(b) EXCEPT !.started = TRUE, !.client = FALSE, !.session = "Idle"]
    /\ Goes("poll")
    /\ UNCHANGED <<cfg, flash, w>>

Esc ==
    /\ At("poll")
    /\ b' = Escape(b)
    /\ Goes("role")
    /\ UNCHANGED <<cfg, flash, w>>

Silence ==
    /\ At("tick") /\ b.started /\ b.session = "Established"
    /\ b' = SessionTimesOut(b)
    /\ Goes("poll")
    /\ UNCHANGED <<cfg, flash, w>>

\* What of the menus goes on by itself, and where they wait for a user.
MenuStep ==
    /\ WindowCloses \/ Save \/ NetifReadyOrNot \/ BrowseEnds \/ AfterBrowse \/ SaveHost
    /\ UNCHANGED w

ConfigMenu == WindowCloses \/ KeyInWindow

HostSelect ==
    \/ NetifReadyOrNot \/ HostFound \/ BrowseKey \/ BrowseEnds \/ AfterBrowse
    \/ AnswerPick \/ AnswerAddress \/ SaveHost

Prompts == {"role", "network", "pick", "ip"}
=============================================================================
