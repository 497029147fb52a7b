----------------------------- MODULE PicoWBridge -----------------------------
(***************************************************************************)
(* The life of the WiFi bridge, examples/midi_bridge/pico_w/main.cpp: the  *)
(* sequence of PicoBridge with WiFi credentials in its setup, and          *)
(* wifi_supervise(), which finds out that the link is gone, joins again,   *)
(* restarts the chip, and has a Client invite its Host again.  Time passes *)
(* in units of two seconds (TwoSeconds).                                   *)
(***************************************************************************)
EXTENDS BridgeMenu

PicoWBoot ==
    /\ board = "pico_w" /\ pc = "window"
    /\ flash = Erased /\ cfg = Defaults(board)
    /\ b = SwitchedOn /\ w = ChipOff

\* SSID and password: others, or Enter for what is saved, and an SSID is
\* asked for again if none is.
PicoWAnswerSsid ==
    /\ At("network")
    /\ \E n \in NetsOf("pico_w") :
         /\ cfg' = [cfg EXCEPT !.net = n]
         /\ b' = [Touched(b) EXCEPT !.changed = (n # cfg.net)]
    /\ Goes("save")
    /\ UNCHANGED flash

PicoWConfigMenu == ConfigMenu /\ UNCHANGED w
PicoWAnswerRole == AnswerRole /\ UNCHANGED w
PicoWSetupNow == (PicoWAnswerSsid \/ Save) /\ UNCHANGED w
PicoWHostSelect == HostSelect /\ UNCHANGED w

(***************************************************************************)
(* wifi_connect(): the chip is held off, started and joins, with an        *)
(* address, or is left deinitialised after three attempts.                 *)
(***************************************************************************)
Joined(r) == [r EXCEPT !.chip = TRUE, !.status = "up", !.wedged = FALSE]
ChipDown(r) == [r EXCEPT !.chip = FALSE, !.status = "down", !.wedged = FALSE]

wifi_connect(r) == {Joined(r), ChipDown(r)}

PicoWConnect ==
    /\ At("connect")
    /\ \E x \in wifi_connect(w) :
         /\ w' = [x EXCEPT !.pollReady = x.chip]
         /\ b' = [b EXCEPT !.net = cfg.net, !.networkUp = x.chip]
    /\ Goes("wait")
    /\ UNCHANGED <<cfg, flash>>

\* Mutant: what is compared with the new credentials was copied too late.
PicoWReconnect_Stays ==
    /\ At("reconnect")
    /\ Goes("wait")
    /\ UNCHANGED <<cfg, flash, b, w>>

\* Behind the setup ESC asked for: other credentials, another connect.
PicoWReconnect ==
    /\ At("reconnect")
    /\ Goes(IF b.changed THEN "connect" ELSE "wait")
    /\ UNCHANGED <<cfg, flash, b, w>>

PicoWWait == Wait
PicoWSelect == Select
PicoWBegin == Begin
PicoWEsc == Esc

(***************************************************************************)
(* wifi_supervise(), when it looks.  A verdict is the chip and the statics *)
(* it leaves, and whether the link has just come back.                     *)
(***************************************************************************)
Verdict(r, back) == [w |-> r, back |-> back]

\* The times are of no use while the link is up.
Counting(r) == IF r.up THEN [r EXCEPT !.lost = KLinkHold, !.tried = KRejoinRetry] ELSE r

\* Mutant: the caller is not told that the link is back.
restartChip_Unreported(r) ==
    {Verdict(Counting([x EXCEPT !.tried = 0, !.up = r.up \/ x.chip]), FALSE) :
       x \in wifi_connect(r)}

\* restartChip()
restartChip(r) ==
    {Verdict(Counting([x EXCEPT !.tried = 0, !.up = r.up \/ x.chip]), x.chip) :
       x \in wifi_connect(r)}

\* A restart whose join failed is tried again; nothing else is.
StillNoWifi(r) ==
    IF r.tried < KRejoinRetry THEN {Verdict(r, FALSE)} ELSE restartChip(r)

\* Mutant: only the driver is asked.
LinkLost_DriverOnly(r, sessionTimedOut) ==
    LET l == [r EXCEPT !.up = FALSE, !.lost = 0, !.tried = 0]
    IN  CASE r.status = "up" -> {Verdict(r, FALSE)}
          [] OTHER -> {Verdict([l EXCEPT !.status = s], FALSE) : s \in {"up", "joining", "down"}}

\* The link was up: is it still, by the driver and by the session?
LinkLost(r, sessionTimedOut) ==
    LET l == [r EXCEPT !.up = FALSE, !.lost = 0, !.tried = 0]
    IN  CASE r.status = "up" /\ ~sessionTimedOut -> {Verdict(r, FALSE)}
          [] r.status = "up" /\ sessionTimedOut -> restartChip(l)
          [] OTHER -> {Verdict([l EXCEPT !.status = s], FALSE) : s \in {"up", "joining", "down"}}

\* The link was lost: back, or given up on.
LinkBack(r) ==
    IF r.status = "up" /\ r.lost >= KLinkHold
      THEN {Verdict(Counting([r EXCEPT !.up = TRUE]), TRUE)}
      ELSE IF r.tried >= KRejoinRetry THEN restartChip(r) ELSE {Verdict(r, FALSE)}

RestartDue(r) ==
    /\ ~r.up /\ r.tried >= KRejoinRetry
    /\ r.chip => ~(r.status = "up" /\ r.lost >= KLinkHold)

wifi_supervise(r, sessionTimedOut) ==
    IF ~r.chip THEN StillNoWifi(r)
    ELSE IF r.up THEN LinkLost(r, sessionTimedOut) ELSE LinkBack(r)

\* The run loop's part: a Client whose session is gone invites again.
PicoWSupervise ==
    /\ At("poll") /\ b.networkUp
    /\ \E v \in wifi_supervise(w, b.timedOut) :
         LET s == [b EXCEPT !.timedOut = FALSE]
         IN  /\ w' = v.w
             /\ b' = IF v.back /\ s.client /\ s.session = "Idle" THEN BeginClient(s) ELSE s
    /\ Goes("tick")
    /\ UNCHANGED <<cfg, flash>>

\* No network, or less than kWifiCheckMs since the last look at it.
PicoWPoll ==
    /\ At("poll")
    /\ Goes("tick")
    /\ UNCHANGED <<cfg, flash, b, w>>

NetWorks == isNetifReady /\ ~w.wedged

PicoWTick ==
    /\ At("tick")
    /\ IF b.started THEN b' \in SessionTick(b, NetWorks) ELSE UNCHANGED b
    /\ Goes("poll")
    /\ UNCHANGED <<cfg, flash, w>>

\* What the thread does by itself.
PicoWStep ==
    \/ PicoWConnect \/ PicoWReconnect \/ PicoWWait \/ PicoWSelect \/ PicoWBegin
    \/ PicoWPoll \/ PicoWSupervise \/ PicoWTick

(***************************************************************************)
(* The air and the clock.                                                  *)
(***************************************************************************)
\* The driver's reading changes, and the address with it, or the access
\* point drops the station without the driver noticing.
LinkMoves ==
    /\ w.chip
    /\ \E s \in {"up", "joining", "down"}, d \in BOOLEAN :
         /\ d => s = "up"
         /\ w' = [w EXCEPT !.status = s, !.wedged = d]
         /\ b' = IF s = "up" THEN b ELSE Lost(b)
    /\ UNCHANGED <<pc, cfg, flash>>

\* Mutant: the time since the last try is not capped.
TwoSeconds_Unbounded ==
    /\ ~w.up
    /\ w' = [w EXCEPT !.lost = IF @ < KLinkHold THEN @ + 1 ELSE @,
                      !.tried = @ + 1]
    /\ UNCHANGED <<pc, cfg, flash, b>>

TwoSeconds ==
    /\ ~w.up
    /\ w' = [w EXCEPT !.lost = IF @ < KLinkHold THEN @ + 1 ELSE @,
                      !.tried = IF @ < KRejoinRetry THEN @ + 1 ELSE @]
    /\ UNCHANGED <<pc, cfg, flash, b>>

PicoWNext ==
    \/ PicoWStep \/ PicoWConfigMenu \/ PicoWAnswerRole \/ PicoWSetupNow
    \/ PicoWHostSelect \/ PicoWEsc \/ LinkMoves \/ TwoSeconds
=============================================================================
