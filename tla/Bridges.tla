------------------------------ MODULE Bridges ------------------------------
(***************************************************************************)
(* One of the three bridges, from power-on, with a user at the console or  *)
(* none and a network that comes and goes.  The Pico boards are reset too, *)
(* by power or by the watchdog of pico_w; nxp stores nothing, so a reset   *)
(* of it is a new beginning.                                               *)
(***************************************************************************)
EXTENDS PicoBridge, PicoWBridge, NxpConsole

vars == <<bridgeVars, nxp>>

\* Of the other boards, the variables stay as they are.
NotPico ==
    /\ board = "nxp" /\ pc = "window" /\ flash = Erased
    /\ cfg = loadBridgeConfig(flash) /\ b = SwitchedOn /\ w = ChipOff

OnPico(A) == board # "nxp" /\ A /\ UNCHANGED <<board, nxp>>
OnNxp(A) == board = "nxp" /\ A /\ UNCHANGED bridgeVars

Init ==
    /\ board \in Boards
    /\ PicoBoot \/ PicoWBoot \/ NotPico
    /\ NxpBoot

\* The thread of main(), or the session task.
Step ==
    \/ OnPico(MenuStep)
    \/ OnPico(board = "pico" /\ PicoStep)
    \/ OnPico(board = "pico_w" /\ PicoWStep)
    \/ OnNxp(NxpStep)

\* A reset finds the sector as it was, or erased if it was being written.
Reset ==
    /\ flash' \in {flash} \cup (IF pc \in {"save", "saveHost"} THEN {Erased, cfg} ELSE {})
    /\ cfg' = loadBridgeConfig(flash')
    /\ pc' = "window" /\ b' = SwitchedOn /\ w' = ChipOff

Next ==
    \/ OnPico(board = "pico" /\ PicoNext)
    \/ OnPico(board = "pico_w" /\ PicoWNext)
    \/ OnPico(Silence)
    \/ OnPico(Reset)
    \/ OnNxp(NxpNext)

Spec == Init /\ [][Next]_vars

(***************************************************************************)
(* The thread goes on: all its waits end by themselves but those for a key *)
(* at a prompt, and it looks at the link, and whether there is an address, *)
(* again and again.  The clock goes on.  Of what is outside: a session on  *)
(* a dead network times out, a join tried again and again succeeds once,   *)
(* and an address asked for comes from the DHCP server, or from AutoIP.    *)
(***************************************************************************)
Looks ==
    \/ OnPico(board = "pico_w" /\ PicoWSupervise)
    \/ OnNxp(NxpNetworkReady)

TimePasses ==
    \/ OnPico(board = "pico_w" /\ TwoSeconds)
    \/ OnNxp(LeaseComes \/ AutoIpSettles)

DeadSilence == OnPico(board = "pico_w" /\ Silence /\ ~NetWorks)

JoinSucceeds == Looks /\ board = "pico_w" /\ RestartDue(w) /\ w'.up

FairSpec ==
    /\ Spec
    /\ WF_vars(Step) /\ WF_vars(TimePasses)
    /\ SF_vars(Looks) /\ SF_vars(DeadSilence) /\ SF_vars(JoinSucceeds)

-----------------------------------------------------------------------------
TypeOK ==
    /\ board \in Boards
    /\ pc \in Prompts \cup RunLoop \cup Selecting
              \cup {"window", "save", "connect", "reconnect", "wait"}
    /\ cfg \in BridgeConfigs /\ cfg.net \in NetsOf(board) \cup {"none"}
    /\ flash \in BridgeConfigs \cup {Erased}
    /\ b \in Bridges
    /\ w \in WifiStates
    /\ nxp \in NxpGlobals

\* pico and pico_w.
PicoHasEnds ==
    At("begin") /\ InRun' /\ b'.started
      => (isNetifReady \/ b.lost) /\ (b'.client => cfg.host # "none")

\* nxp.
NxpHasEnds ==
    nxp.session = "none" /\ nxp'.session # "none" /\ nxp.useDhcp
      => nxp'.addr # "none" \/ nxp.lost

(***************************************************************************)
(* No session is begun on a network without an address, unless the address *)
(* went away after it was waited for, and no Client without a Host to      *)
(* invite (pico main.cpp:640-652, 845-848: "rather than dialling 0.0.0.0").*)
(* On nxp the address may also be set by hand, which StaticStays is about: *)
(* the wait for the network has a deadline, and what follows it is another *)
(* wait (SessionTask.cpp:2109-2158).                                       *)
(***************************************************************************)
SessionHasEnds == [][PicoHasEnds /\ NxpHasEnds]_vars

\* What the session is.
PlaysRole(c) == b.started => (b.client <=> c.role = "Client") /\ (b.client => c.host # "none")

(***************************************************************************)
(* What a Pico board does in its run loop is what a power cycle would make *)
(* it do, whatever was answered, given up or cut short on the way: role,   *)
(* Host and network are those of the sector (bridge_config.h: "Persists    *)
(* `cfg` to flash so it survives a power cycle / reset").  Of pico the     *)
(* network is left out once ESC was pressed: its netif stays as it was     *)
(* first brought up (pico main.cpp:808-812), so that static may be stored  *)
(* while DHCP runs.  pico_w joins again if the credentials changed         *)
(* (pico_w main.cpp:876-895).  The name, of which the code itself says     *)
(* that a change needs a power cycle, is not modelled.                     *)
(***************************************************************************)
RunsAsStored ==
    InRun => LET stored == loadBridgeConfig(flash)
             IN  /\ cfg = stored
                 /\ PlaysRole(stored)
                 /\ b.net = stored.net \/ (board = "pico" /\ b.again)

PicoRuns ==
    <>[][~Reset]_vars
      => ((board # "nxp" /\ ~b.touched) ~> (InRun \/ b.touched \/ cfg.net = "none"))

SetupCompletes ==
    (board = "nxp" /\ ~nxp.touched) ~> (nxp.touched \/ nxp.state = "SESSION_RUN")

(***************************************************************************)
(* A board that stays on and at which nobody types gets to its run loop,   *)
(* be there a network, a Host, an address or not (pico                     *)
(* console_menu.cpp:248-252, issue #19).  A pico_w with no credentials has *)
(* to be set up first.  On nxp a setup that nobody answers answers itself, *)
(* though no Host is found and no DHCP server answers                      *)
(* (SessionTask.cpp:44-51: it "auto-advances any setup prompt").           *)
(***************************************************************************)
UnattendedRuns == PicoRuns /\ SetupCompletes

\* pico_w: wifi_supervise() is called.
Supervised == board = "pico_w" /\ InRun /\ b.networkUp

OutageIsNoticed ==
    (Supervised /\ b.session = "Established" /\ ~NetWorks)
      ~> (~w.up \/ NetWorks \/ ~InRun)

LostLinkComesBack == (Supervised /\ ~w.up) ~> (w.up \/ ~InRun)

(***************************************************************************)
(* A network that is dead under an Established session is noticed, by the  *)
(* driver or by the session, although the driver may read the link as up   *)
(* (pico_w main.cpp:438-446); and a link noticed to be lost is joined      *)
(* again, and the chip restarted again and again, until it is back,        *)
(* whatever the driver reads meanwhile (pico_w main.cpp:501-505:           *)
(* "so joining cannot be taken as progress").                              *)
(***************************************************************************)
OutageEnds == OutageIsNoticed /\ LostLinkComesBack

(***************************************************************************)
(* "A client whose session timed out meanwhile invites its host again"     *)
(* (pico_w main.cpp:760-761), in whatever order the loss of the link, the  *)
(* end of the session and the return of the link are noticed.              *)
(***************************************************************************)
ReinvitesAfterOutage == (Supervised /\ b.owed) ~> (~b.owed \/ ~InRun)

(***************************************************************************)
(* nxp: whatever was typed and whichever answer came first, a session      *)
(* exists only in the run loop, and a search for Hosts only in the browse  *)
(* window (SessionTask.cpp:1835-1843: "skipping it left discovery running  *)
(* in the background forever").                                            *)
(***************************************************************************)
OneActivity ==
    /\ nxp.session # "none" => nxp.state = "SESSION_RUN"
    /\ nxp.search => Browsing

(***************************************************************************)
(* nxp: an address set by hand stays while its session lives.              *)
(* SessionTask.cpp:1675-1677: "NM2_NetifSetStatic() stops any running DHCP *)
(* client first so the two don't fight over the address".                  *)
(***************************************************************************)
StaticStays == nxp.session # "none" /\ ~nxp.useDhcp => nxp.addr = "static"

(***************************************************************************)
(* The driver is polled only while it is initialised (pico_w               *)
(* main.cpp:358-359: "wifi_connect() leaves it deinitialised when it       *)
(* fails, and nothing may poll it then"); every wait of the menus polls it *)
(* by way of net_pump().                                                   *)
(***************************************************************************)
net_pump_polls == pc \in Prompts \cup {"window", "wait", "ready", "browse"} /\ w.pollReady

NothingPollsDownChip == board = "pico_w" /\ net_pump_polls => w.chip
=============================================================================
