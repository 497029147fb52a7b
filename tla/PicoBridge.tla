----------------------------- MODULE PicoBridge -----------------------------
(***************************************************************************)
(* The life of the W5500 bridge, examples/midi_bridge/pico/main.cpp:       *)
(* main() around the traffic of UsbToNet and NetToUsb.  The places of pc   *)
(* in a round of the run loop are "poll" and "tick".                       *)
(***************************************************************************)
EXTENDS BridgeMenu

PicoBoot ==
    /\ board = "pico" /\ pc = "window"
    /\ flash = Erased /\ cfg = Defaults(board)
    /\ b = SwitchedOn /\ w = ChipOff

PicoConfigMenu == ConfigMenu /\ UNCHANGED w
PicoSetupNow == (AnswerRole \/ AnswerDhcp \/ Save) /\ UNCHANGED w
PicoHostSelect == HostSelect /\ UNCHANGED w

\* wiznet_lwip_init(): the W5500 answers or does not; a static address is
\* there at once.
PicoConnect ==
    /\ At("connect")
    /\ \E ok \in BOOLEAN :
         b' = [b EXCEPT !.net = cfg.net, !.netif = ok, !.networkUp = ok,
                        !.ready = (ok /\ cfg.net = "static")]
    /\ Goes("wait")
    /\ UNCHANGED <<cfg, flash, w>>

\* The netif stays as it was brought up, whatever the menu has changed.
PicoReconnect ==
    /\ At("reconnect") /\ Goes("wait")
    /\ UNCHANGED <<cfg, flash, b, w>>

\* wiznet_lwip_poll_tick(), the only place a lease is got or lost.
PicoLease ==
    /\ pc \in {"wait", "ready", "browse", "poll"}
    /\ b.netif /\ b.net = "dhcp"
    /\ b' = [(IF b.ready THEN Lost(b) ELSE b) EXCEPT !.ready = ~b.ready]
    /\ UNCHANGED <<pc, cfg, flash, w>>

PicoWait == Wait
PicoSelect == Select
PicoBegin == Begin
PicoEsc == Esc

\* No ESC; what the W5500 holds is taken.
PicoPoll ==
    /\ At("poll") /\ Goes("tick")
    /\ UNCHANGED <<cfg, flash, b, w>>

\* A session without a transport is not ticked.
PicoTick ==
    /\ At("tick")
    /\ IF b.started THEN b' \in SessionTick(b, b.ready) ELSE UNCHANGED b
    /\ Goes("poll")
    /\ UNCHANGED <<cfg, flash, w>>

\* What the thread does by itself.
PicoStep ==
    PicoConnect \/ PicoReconnect \/ PicoWait \/ PicoSelect \/ PicoBegin \/ PicoPoll \/ PicoTick

PicoNext == PicoStep \/ PicoConfigMenu \/ PicoSetupNow \/ PicoHostSelect \/ PicoEsc \/ PicoLease
=============================================================================
