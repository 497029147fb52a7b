--------------------------- MODULE Bridges_proofs ---------------------------
(***************************************************************************)
(* Proof that a Pico board does in its run loop what is stored, that no    *)
(* session is begun on a network without an address or without a Host to   *)
(* invite, and that nxp keeps a session and a search to the states they    *)
(* belong to.                                                              *)
(***************************************************************************)
EXTENDS Bridges, TLAPS

NetsKnown == NetsOf(board) \cup {"none"}

\* What the prompts have changed and not stored yet is the only difference.
StoredInv ==
    /\ flash = Erased \/ flash.net \in NetsKnown
    /\ pc \notin {"network", "save", "saveHost"} => cfg = loadBridgeConfig(flash)

\* From the wait for an address to the session: what was seen then holds still,
\* or it is known not to.
AddressSeen == pc \in Selecting /\ b.networkUp => isNetifReady \/ b.lost

\* A Host that was taken for known still is, and so is one about to be saved.
HostKnown ==
    /\ pc = "saveHost" => cfg.host # "none"
    /\ pc \in Selecting \ {"select", "saveHost"} /\ b.have => cfg.host # "none"

\* The places behind the setup, the network and its address.
Settled == {"wait"} \cup Selecting \cup RunLoop

\* The network is still the one of the configuration; of pico, it need not be
\* once ESC was pressed.
Rejoined == IF board = "pico" THEN b.again ELSE b.net = cfg.net

NetKept ==
    /\ pc = "window" => b.net = "none"
    /\ pc \in {"role", "network"} => b.net = "none" \/ Rejoined
    /\ pc \in {"save", "reconnect"} =>
         b.net = "none" \/ Rejoined \/ (board # "pico" /\ b.changed)
    /\ pc = "reconnect" => b.net # "none"
    /\ pc \in Settled => b.net = cfg.net \/ (board = "pico" /\ b.again)

RoleKept == InRun => PlaysRole(cfg)

\* The states in which an address is there because it was waited for.
Addressed == {"MDNS_RESOLVE", "CLIENT_IP", "CLIENT_PORT"}

AddressInv(r) ==
    /\ r.dhcp = "bound" => r.addr # "none" /\ r.autoip = "off"
    /\ r.autoip = "bound" => r.addr # "none"
    /\ r.useDhcp /\ r.state \in Addressed => r.addr # "none" \/ r.lost

ActivityInv(r) ==
    /\ r.session # "none" => r.state = "SESSION_RUN"
    /\ r.search => r.state = "MDNS_RESOLVE" /\ r.browsing

\* A countdown belongs to a prompt that has a default.
CountdownInv(r) ==
    r.auto => /\ r.state \in Answering \ {"CLIENT_IP", "CLIENT_PORT"}
              /\ ~(r.state = "MDNS_RESOLVE" /\ r.browsing)

NxpInv(r) == r \in NxpGlobals /\ AddressInv(r) /\ ActivityInv(r) /\ CountdownInv(r)

IInv ==
    /\ TypeOK /\ StoredInv /\ AddressSeen /\ HostKnown /\ NetKept /\ RoleKept
    /\ NxpInv(nxp)

\* SessionHasEnds of one step of nxp.
EndsKept(r, s) ==
    r.session = "none" /\ s.session # "none" /\ r.useDhcp => s.addr # "none" \/ r.lost

\* What a step of nxp from r to s promises.
NxpSound(r, s) == NxpInv(s) /\ EndsKept(r, s)

-----------------------------------------------------------------------------
(* nxp: what the lines typed, and the answers nobody typed, lead to.        *)

LEMMA NxpValues ==
    /\ TRUE \in BOOLEAN /\ FALSE \in BOOLEAN
    /\ \A l \in Letters : l \in Letters \cup {"blank"}
    /\ "blank" \in Letters \cup {"blank"}
    /\ \A s \in {"none", "Idle", "Pending", "Established"} : s \in SessionStates
    /\ \A s \in Answering : s \in AppStates
    /\ \A s \in {"ROLE_SELECT", "MDNS_NAME", "NETWORK_SELECT", "STATIC_IP", "STATIC_NETMASK",
                 "STATIC_GATEWAY", "STATIC_DNS"} : s \in Answering \ Addressed
    /\ Addressed \subseteq Answering
    /\ "WAIT_NETWORK" \in AppStates \ (Answering \cup Addressed)
    /\ "SESSION_RUN" \in AppStates \ (Answering \cup Addressed)
    /\ "BOOT_PROMPT" \in AppStates \ (Answering \cup Addressed)
    /\ "MDNS_RESOLVE" \in Addressed /\ "CLIENT_IP" \in Addressed /\ "CLIENT_PORT" \in Addressed
  BY DEF SessionStates, AppStates, Answering, Addressed, Letters

LEMMA PromptFacts ==
    ASSUME NEW r, NxpInv(r), r.state \in Answering \ Addressed, NEW s \in Answering \ Addressed
    PROVE  NxpSound(r, Prompt(r, s)) /\ NxpInv(Prompt(r, s)) /\ Prompt(r, s).session = "none"
  <1>1. r \in NxpGlobals /\ s \in AppStates
    BY NxpValues, Zenon DEF NxpInv
  <1>2. Prompt(r, s) \in NxpGlobals
    BY <1>1, NxpValues, Zenon DEF NxpGlobals, Prompt
  <1>3. QED
    BY <1>1, <1>2, SMTT(20) DEF NxpInv, NxpGlobals, Answering, Addressed, AddressInv, ActivityInv,
         CountdownInv, NxpSound, EndsKept, Prompt

LEMMA ProceedFacts ==
    ASSUME NEW r, NxpInv(r), ~r.auto, r.session = "none", ~r.search, NEW ok \in BOOLEAN
    PROVE  LET q == applyNetworkAndProceed(r, ok)
           IN  NxpSound(r, q) /\ NxpInv(q) /\ q.session = "none"
  <1> DEFINE q == applyNetworkAndProceed(r, ok)
  <1>1. r \in NxpGlobals
    BY Zenon DEF NxpInv
  <1>2. q \in NxpGlobals
    BY <1>1, NxpValues, ZenonT(40) DEF NxpGlobals, applyNetworkAndProceed, NM2_NetifStartDhcp,
         NM2_NetifSetStatic
  <1>3. QED
    BY <1>1, <1>2, SMTT(20) DEF NxpInv, NxpGlobals, Answering, Addressed, AddressInv, ActivityInv,
         CountdownInv, NxpSound, EndsKept, applyNetworkAndProceed, NM2_NetifStartDhcp,
         NM2_NetifSetStatic

LEMMA BeginFacts ==
    ASSUME NEW r, NxpInv(r), ~r.auto, ~r.search,
           r.useDhcp => r.addr # "none" \/ r.lost
    PROVE  NxpSound(r, doBeginHost(r)) /\ NxpSound(r, doBeginClient(r))
  <1>1. r \in NxpGlobals
    BY Zenon DEF NxpInv
  <1>2. doBeginHost(r) \in NxpGlobals /\ doBeginClient(r) \in NxpGlobals
    BY <1>1, NxpValues, Zenon DEF NxpGlobals, doBeginHost, doBeginClient, destroySession
  <1>3. NxpSound(r, doBeginHost(r))
    BY <1>1, <1>2, SMTT(20) DEF NxpInv, NxpGlobals, Addressed, AddressInv, ActivityInv,
         CountdownInv, NxpSound, EndsKept, doBeginHost, destroySession
  <1>4. NxpSound(r, doBeginClient(r))
    BY <1>1, <1>2, SMTT(20) DEF NxpInv, NxpGlobals, Addressed, AddressInv, ActivityInv,
         CountdownInv, NxpSound, EndsKept, doBeginClient, destroySession
  <1>5. QED
    BY <1>3, <1>4

LEMMA FinishFacts ==
    ASSUME NEW r, NxpInv(r), ~r.auto, r.state = "MDNS_RESOLVE", NEW manual \in BOOLEAN
    PROVE  NxpSound(r, finishMdnsResolve(r, manual))
  <1>1. r \in NxpGlobals
    BY Zenon DEF NxpInv
  <1>2. finishMdnsResolve(r, manual) \in NxpGlobals
    BY <1>1, NxpValues, ZenonT(40) DEF NxpGlobals, finishMdnsResolve, Prompt
  <1>3. QED
    BY <1>1, <1>2, SMTT(20) DEF NxpInv, NxpGlobals, AppStates, Answering, Addressed, AddressInv,
       ActivityInv, CountdownInv, NxpSound, EndsKept, finishMdnsResolve, Prompt

LEMMA SettingFacts ==
    ASSUME NEW r, NxpInv(r), ~r.auto, r.state \in Answering \ Addressed, NEW x \in BOOLEAN
    PROVE  \A q \in {[r EXCEPT !.isHost = x], [r EXCEPT !.useDhcp = x]} :
             /\ NxpInv(q) /\ ~q.auto /\ q.session = "none" /\ ~q.search
             /\ q.state \in Answering \ Addressed
  <1>1. r \in NxpGlobals
    BY Zenon DEF NxpInv
  <1>2. [r EXCEPT !.isHost = x] \in NxpGlobals /\ [r EXCEPT !.useDhcp = x] \in NxpGlobals
    BY <1>1, Zenon DEF NxpGlobals
  <1>3. QED
    BY <1>1, <1>2, SMTT(20) DEF NxpInv, NxpGlobals, Answering, Addressed, AddressInv,
         ActivityInv, CountdownInv

LEMMA SetupFacts ==
    ASSUME NEW r, NxpInv(r), r.session = "none", r.state \in {"BOOT_PROMPT", "SESSION_RUN"}
    PROVE  LET q == enterSetupNow(r)
           IN  NxpInv(q) /\ q.session = "none"
  <1>1. r \in NxpGlobals
    BY Zenon DEF NxpInv
  <1>2. enterSetupNow(r) \in NxpGlobals
    BY <1>1, NxpValues, ZenonT(40) DEF enterSetupNow, Prompt, NxpGlobals
  <1>3. QED
    BY <1>1, <1>2, NxpValues, SMTT(20) DEF NxpInv, NxpGlobals, AddressInv, ActivityInv,
       CountdownInv, enterSetupNow, Prompt, Addressed

\* A key pressed, or the line thrown away: only the countdown can end by it.
LEMMA LineFacts ==
    ASSUME NEW r, NxpInv(r), NEW l \in Letters \cup {"blank"}
    PROVE  /\ \A q \in {[r EXCEPT !.line = l], [r EXCEPT !.auto = FALSE],
                        [r EXCEPT !.auto = FALSE, !.touched = TRUE],
                        [[r EXCEPT !.auto = FALSE, !.touched = TRUE] EXCEPT !.line = l]} :
                NxpInv(q) /\ (q.auto => r.auto)
                /\ \A f \in {"state", "session", "useDhcp", "addr", "lost", "browsing"} :
                       q[f] = r[f]
           /\ ~[r EXCEPT !.auto = FALSE].auto /\ ~Heard(r).auto
  <1>1. r \in NxpGlobals
    BY Zenon DEF NxpInv
  <1> DEFINE A == [r EXCEPT !.line = l]
             B == [r EXCEPT !.auto = FALSE]
             C == [r EXCEPT !.auto = FALSE, !.touched = TRUE]
             D == [[r EXCEPT !.auto = FALSE, !.touched = TRUE] EXCEPT !.line = l]
  <1>2. A \in NxpGlobals /\ B \in NxpGlobals /\ C \in NxpGlobals /\ D \in NxpGlobals
    BY <1>1, NxpValues, ZenonT(40) DEF NxpGlobals
  <1>3. QED
    BY <1>1, <1>2, SMTT(20) DEF NxpInv, NxpGlobals, AddressInv, ActivityInv, CountdownInv, Heard

LEMMA MoveFacts ==
    ASSUME NEW r, NxpInv(r), ~r.auto, ~r.search, r.session = "none", r.state \in Addressed,
           NEW s \in Addressed
    PROVE  NxpSound(r, r) /\ NxpSound(r, [r EXCEPT !.state = s])
  <1>1. r \in NxpGlobals /\ s \in AppStates
    BY NxpValues, Zenon DEF NxpInv
  <1>2. [r EXCEPT !.state = s] \in NxpGlobals
    BY <1>1, Zenon DEF NxpGlobals
  <1>3. QED
    BY <1>1, <1>2, SMTT(20) DEF NxpInv, NxpGlobals, AddressInv, ActivityInv, CountdownInv,
         NxpSound, EndsKept

LEMMA AnswerFacts ==
    ASSUME NEW r, NxpInv(r), ~r.auto, r.state \in Answering, NEW l \in Letters \cup {"blank"},
           NEW q \in handleLine(r, l)
    PROVE  NxpSound(r, q)
  <1>1. r \in NxpGlobals /\ r.session = "none" /\ (r.search => r.browsing)
    BY SMT DEF NxpInv, ActivityInv, Answering
  <1>2. CASE r.state \in Answering \ Addressed
    <2>1. NxpSound(r, r) /\ ~r.search
      BY <1>1, <1>2, SMT DEF NxpSound, EndsKept, NxpInv, ActivityInv, Addressed
    <2>2. \A x \in BOOLEAN, s \in Answering \ Addressed :
            /\ NxpInv(Prompt([r EXCEPT !.isHost = x], s))
            /\ NxpInv(Prompt([r EXCEPT !.useDhcp = x], s))
            /\ Prompt([r EXCEPT !.isHost = x], s).session = "none"
            /\ Prompt([r EXCEPT !.useDhcp = x], s).session = "none"
      <3> TAKE x \in BOOLEAN, s \in Answering \ Addressed
      <3>1. \A p \in {[r EXCEPT !.isHost = x], [r EXCEPT !.useDhcp = x]} :
              NxpInv(p) /\ p.state \in Answering \ Addressed /\ p.session = "none"
        <4>1. \A p \in {[r EXCEPT !.isHost = x], [r EXCEPT !.useDhcp = x]} :
                NxpInv(p) /\ ~p.auto /\ p.session = "none" /\ ~p.search
                /\ p.state \in Answering \ Addressed
          BY <1>2, SettingFacts, Zenon
        <4>2. QED
          BY <4>1, Zenon
      <3>2. \A p \in {[r EXCEPT !.isHost = x], [r EXCEPT !.useDhcp = x]} :
              NxpInv(Prompt(p, s)) /\ Prompt(p, s).session = "none"
        BY <3>1, PromptFacts, Zenon
      <3>3. QED
        BY <3>2, Zenon
    <2>3. \A x, ok \in BOOLEAN :
            LET p == [r EXCEPT !.useDhcp = x]
            IN  /\ NxpInv(applyNetworkAndProceed(p, ok))
                /\ applyNetworkAndProceed(p, ok).session = "none"
      <3> TAKE x, ok \in BOOLEAN
      <3> DEFINE p == [r EXCEPT !.useDhcp = x]
      <3>1. NxpInv(p) /\ ~p.auto /\ p.session = "none" /\ ~p.search
        BY <1>2, SettingFacts, Zenon
      <3> HIDE DEF p
      <3>2. NxpInv(applyNetworkAndProceed(p, ok)) /\ applyNetworkAndProceed(p, ok).session = "none"
        BY <3>1, ProceedFacts, Zenon
      <3>3. QED
        BY <3>2, Zenon DEF p
    <2>4. CASE r.state = "ROLE_SELECT"
      <3> DEFINE x == IF l = "blank" THEN r.isHost ELSE l = "H"
      <3>1. q \in {r, Prompt([r EXCEPT !.isHost = x], "MDNS_NAME")}
        BY <2>4, SMT DEF handleLine, RoleLine
      <3>2. x \in BOOLEAN
        BY <1>1, Zenon DEF NxpGlobals
      <3> HIDE DEF x
      <3>3. QED
        BY <1>1, <2>1, <2>2, <3>1, <3>2, NxpValues, ZenonT(40) DEF NxpSound, EndsKept
    <2>5. CASE r.state = "MDNS_NAME"
      <3>1. q = Prompt(r, "NETWORK_SELECT")
        BY <2>5, SMT DEF handleLine
      <3>2. QED
        BY <1>2, <3>1, PromptFacts, NxpValues, Zenon
    <2>6. CASE r.state = "NETWORK_SELECT"
      <3> DEFINE x == IF l = "blank" THEN r.useDhcp ELSE l = "D"
                 p == [r EXCEPT !.useDhcp = x]
      <3>1. q \in {r, applyNetworkAndProceed(p, TRUE), Prompt(p, "STATIC_IP")}
        <4>1. handleLine(r, l) = {NetworkLine(r, l)}
          BY <2>6, SMT DEF handleLine
        <4>2. NetworkLine(r, l) =
                IF l \notin {"D", "S", "blank"} THEN r
                ELSE IF p.useDhcp THEN applyNetworkAndProceed(p, TRUE) ELSE Prompt(p, "STATIC_IP")
          BY Zenon DEF NetworkLine
        <4>3. QED
          BY <4>1, <4>2, Zenon
      <3>2. x \in BOOLEAN
        BY <1>1, Zenon DEF NxpGlobals
      <3> HIDE DEF x
      <3>3. NxpInv(Prompt(p, "STATIC_IP")) /\ Prompt(p, "STATIC_IP").session = "none"
        BY <2>2, <3>2, NxpValues, Zenon
      <3>4. /\ NxpInv(applyNetworkAndProceed(p, TRUE))
             /\ applyNetworkAndProceed(p, TRUE).session = "none"
        BY <2>3, <3>2, Zenon
      <3>5. QED
        BY <2>1, <3>1, <3>3, <3>4, Zenon DEF NxpSound, EndsKept
    <2>7. CASE r.state \in {"STATIC_IP", "STATIC_NETMASK", "STATIC_GATEWAY"}
      <3>1. q \in {r, Prompt(r, NextField[r.state])}
        BY <2>7, SMT DEF handleLine, StaticLine
      <3>2. NextField[r.state] \in Answering \ Addressed
        BY <2>7, NxpValues, SMT DEF NextField
      <3>3. QED
        BY <1>2, <2>1, <3>1, <3>2, PromptFacts, Zenon
    <2>8. CASE r.state = "STATIC_DNS"
      <3>1. PICK ok \in BOOLEAN : q \in {r, applyNetworkAndProceed(r, ok)}
        <4>1. handleLine(r, l) = StaticLine(r, l)
          BY <2>8, SMT DEF handleLine
        <4>2. QED
          BY <2>8, <4>1, Zenon DEF StaticLine
      <3>2. QED
        BY <1>1, <2>1, <3>1, ProceedFacts, Zenon
    <2>9. QED
      BY <1>2, <2>4, <2>5, <2>6, <2>7, <2>8, SMT DEF Answering, AppStates, Addressed
  <1>3. CASE r.state = "MDNS_RESOLVE"
    <2>1. handleLine(r, l) = {HostLine(r, l)}
      BY <1>3, SMT DEF handleLine
    <2>2. CASE r.browsing
      <3>1. q \in {finishMdnsResolve(r, TRUE), finishMdnsResolve(r, FALSE)}
        <4>1. (l = "m") \in BOOLEAN /\ q = finishMdnsResolve(r, l = "m")
          BY <2>1, <2>2, Zenon DEF HostLine
        <4>2. CASE l = "m"
          BY <4>1, <4>2, Zenon
        <4>3. CASE l # "m"
          BY <4>1, <4>3, Zenon
        <4>4. QED
          BY <4>2, <4>3, Zenon
      <3>2. QED
        BY <1>3, <3>1, FinishFacts, Zenon
    <2>3. CASE ~r.browsing
      <3>1. q \in {doBeginClient(r), [r EXCEPT !.state = "CLIENT_IP"], r}
        BY <2>1, <2>3, SMT DEF HostLine
      <3>2. NxpSound(r, doBeginClient(r))
        BY <1>1, <1>3, <2>3, BeginFacts, SMT DEF NxpInv, AddressInv, Addressed
      <3>3. NxpSound(r, [r EXCEPT !.state = "CLIENT_IP"]) /\ NxpSound(r, r)
        BY <1>1, <1>3, <2>3, MoveFacts, NxpValues, Zenon
      <3>4. QED
        BY <3>1, <3>2, <3>3, Zenon
    <2>4. QED
      BY <1>1, <2>2, <2>3, Zenon DEF NxpGlobals
  <1>4. CASE r.state = "CLIENT_IP"
    <2>1. q \in {r, [r EXCEPT !.state = "CLIENT_PORT"]}
      BY <1>4, SMT DEF handleLine, AddressLine
    <2>2. ~r.search
      BY <1>4, SMT DEF NxpInv, ActivityInv
    <2>3. NxpSound(r, r) /\ NxpSound(r, [r EXCEPT !.state = "CLIENT_PORT"])
      BY <1>1, <1>4, <2>2, MoveFacts, NxpValues, Zenon
    <2>4. QED
      BY <2>1, <2>3, Zenon
  <1>5. CASE r.state = "CLIENT_PORT"
    <2>1. q = doBeginClient(r)
      BY <1>5, SMT DEF handleLine
    <2>2. ~r.search /\ (r.useDhcp => r.addr # "none" \/ r.lost)
      BY <1>5, SMT DEF NxpInv, ActivityInv, AddressInv, Addressed
    <2>3. QED
      BY <2>1, <2>2, BeginFacts, Zenon
  <1>6. QED
    BY <1>2, <1>3, <1>4, <1>5, SMT DEF Answering, AppStates, Addressed

-----------------------------------------------------------------------------
(* nxp: the steps of the task and of lwIP.                                  *)

LEMMA SessionValues ==
    ASSUME NEW r, r.session \in SessionStates, NEW works \in BOOLEAN
    PROVE  NextSession(r, works) \subseteq SessionStates
  BY Zenon DEF NextSession, SessionStates

LEMMA AutoAnswerFacts ==
    ASSUME NEW r
    PROVE  AutoAnswer(r) \in Letters \cup {"blank"}
  BY Zenon DEF AutoAnswer, Letters

\* An answer after the countdown was ended, or a key was heard.
LEMMA HeardAnswerFacts ==
    ASSUME NEW r, NxpInv(r), r.state \in Answering, NEW l \in Letters \cup {"blank"},
           NEW h \in {[r EXCEPT !.auto = FALSE], Heard(r)},
           NEW q \in handleLine(h, l)
    PROVE  NxpSound(r, q)
  <1>1. /\ NxpInv(h) /\ ~h.auto
        /\ h.state = r.state /\ h.session = r.session /\ h.useDhcp = r.useDhcp /\ h.lost = r.lost
    <2>1. r \in NxpGlobals
      BY Zenon DEF NxpInv
    <2>2. h.state = r.state /\ h.session = r.session
      BY <2>1, Zenon DEF Heard, NxpGlobals
    <2>3. h.useDhcp = r.useDhcp /\ h.lost = r.lost /\ ~h.auto
      BY <2>1, Zenon DEF Heard, NxpGlobals
    <2>4. NxpInv(h)
      <3>1. NxpInv([r EXCEPT !.auto = FALSE]) /\ NxpInv([r EXCEPT !.auto = FALSE, !.touched = TRUE])
        BY LineFacts, NxpValues, Zenon
      <3>2. QED
        BY <3>1, Zenon DEF Heard
    <2>5. QED
      BY <2>2, <2>3, <2>4, Zenon
  <1>2. NxpSound(h, q)
    BY <1>1, AnswerFacts, Zenon
  <1>3. QED
    BY <1>1, <1>2, Zenon DEF NxpSound, EndsKept

LEMMA NxpTaskSteps ==
    ASSUME NxpInv(nxp), NxpStep \/ NxpNetworkReady \/ EnterLine
    PROVE  NxpSound(nxp, nxp')
  <1>1. nxp \in NxpGlobals
    BY Zenon DEF NxpInv
  <1>2. CASE BootTimesOut
    <2>1. ~nxp.auto /\ nxp.session = "none" /\ ~nxp.search
      BY <1>2, SMT DEF BootTimesOut, In, NxpInv, ActivityInv, CountdownInv, Answering
    <2>2. QED
      BY <1>2, <2>1, ProceedFacts, Zenon DEF BootTimesOut
  <1>3. CASE AutoAdvance
    <2>1. nxp.state \in Answering
      BY <1>3, SMT DEF AutoAdvance, NxpInv, CountdownInv
    <2>2. QED
      BY <1>3, <2>1, AutoAnswerFacts, HeardAnswerFacts, Zenon DEF AutoAdvance
  <1>4. CASE DhcpTimesOut
    <2>1. nxp' \in NxpGlobals
      BY <1>1, <1>4, NxpValues, ZenonT(40) DEF DhcpTimesOut, NM2_NetifStartDhcp, NM2_NetifStartAutoIp,
           NxpGlobals
    <2>2. QED
      BY <1>1, <1>4, <2>1, SMTT(20) DEF DhcpTimesOut, NM2_NetifStartDhcp, NM2_NetifStartAutoIp,
         NxpSound, EndsKept, NxpInv, NxpGlobals, AddressInv, ActivityInv, CountdownInv, In,
         Addressed
  <1>5. CASE BrowseTimesOut
    <2>1. nxp.state = "MDNS_RESOLVE" /\ ~nxp.auto
      BY <1>5, SMT DEF BrowseTimesOut, Browsing, In, NxpInv, CountdownInv
    <2>2. QED
      BY <1>5, <2>1, FinishFacts, Zenon DEF BrowseTimesOut
  <1>6. CASE NxpNetworkReady
    <2>1. /\ ~nxp.auto /\ nxp.session = "none" /\ ~nxp.search
          /\ nxp.useDhcp => nxp.addr # "none"
      BY <1>6, SMT DEF NxpNetworkReady, NetworkReady, In, NxpInv, ActivityInv, CountdownInv,
         AddressInv, Answering
    <2>2. NxpSound(nxp, doBeginHost(nxp)) /\ NxpSound(nxp, doBeginClient(nxp))
      BY <2>1, BeginFacts, Zenon
    <2>3. ASSUME NEW ok \in BOOLEAN
          PROVE  NxpSound(nxp, [nxp EXCEPT !.found = FALSE, !.browsing = TRUE, !.search = ok,
                                           !.state = "MDNS_RESOLVE"])
      <3> DEFINE q == [nxp EXCEPT !.found = FALSE, !.browsing = TRUE, !.search = ok,
                                  !.state = "MDNS_RESOLVE"]
      <3>1. q \in NxpGlobals
        BY <1>1, NxpValues, Zenon DEF NxpGlobals
      <3>2. QED
        BY <1>1, <2>1, <3>1, SMTT(20) DEF NxpSound, EndsKept, NxpInv, NxpGlobals, AddressInv,
           ActivityInv, CountdownInv
    <2>4. QED
      BY <1>6, <2>2, <2>3, Zenon DEF NxpNetworkReady, proceedAfterNetworkReady, startMdnsResolve
  <1>7. CASE EnterLine
    <2>1. PICK r \in handleLine(Heard(nxp), nxp.line) : nxp' = [r EXCEPT !.line = "blank"]
      BY <1>7, Zenon DEF EnterLine
    <2>2. nxp.state \in Answering /\ nxp.line \in Letters \cup {"blank"}
      BY <1>1, <1>7, Zenon DEF EnterLine, NxpGlobals
    <2>3. NxpSound(nxp, r)
      BY <2>1, <2>2, HeardAnswerFacts, Zenon
    <2>4. NxpInv(r)
      BY <2>3, Zenon DEF NxpSound
    <2>5. NxpInv(nxp')
      BY <2>1, <2>4, LineFacts, NxpValues, Zenon
    <2>6. nxp'.session = r.session /\ nxp'.addr = r.addr
      BY <2>1, <2>4, SMT DEF NxpInv, NxpGlobals
    <2>7. QED
      BY <2>3, <2>5, <2>6, Zenon DEF NxpSound, EndsKept
  <1>8. QED
    BY <1>2, <1>3, <1>4, <1>5, <1>6, <1>7, Zenon DEF NxpStep

LEMMA NxpOtherSteps ==
    ASSUME NxpInv(nxp),
           PeerFound \/ NxpTick \/ BootKey \/ NxpEsc \/ TypeKey
             \/ LeaseComes \/ LeaseGoes \/ AutoIpSettles
    PROVE  NxpSound(nxp, nxp')
  <1>1. nxp \in NxpGlobals
    BY Zenon DEF NxpInv
  <1> USE <1>1
  <1>2. CASE PeerFound
    <2>1. nxp' \in NxpGlobals
      BY <1>2, NxpValues, Zenon DEF PeerFound, NxpGlobals
    <2>2. QED
      BY <1>2, <2>1, SMTT(20) DEF PeerFound, Browsing, NxpSound, EndsKept, NxpInv, NxpGlobals,
         AddressInv, ActivityInv, CountdownInv
  <1>3. CASE NxpTick
    <2>1. PICK s : s \in SessionStates /\ nxp' = [nxp EXCEPT !.session = s]
      <3> DEFINE r == [session |-> nxp.session, client |-> ~nxp.isHost]
                 N == NextSession(r, nxp.addr # "none")
      <3>1. nxp.session \in SessionStates /\ r.session = nxp.session
        BY Zenon DEF NxpGlobals
      <3>2. N \subseteq SessionStates
        BY <3>1, SessionValues, Zenon
      <3> HIDE DEF N
      <3>3. QED
        BY <1>3, <3>2, NxpValues, Zenon DEF NxpTick, N
    <2>2. nxp' \in NxpGlobals
      BY <2>1, Zenon DEF NxpGlobals
    <2>3. nxp.session # "none"
      BY <1>3, Zenon DEF NxpTick
    <2>4. QED
      BY <2>1, <2>2, <2>3, SMTT(20) DEF NxpSound, EndsKept, NxpInv, NxpGlobals,
         AddressInv, ActivityInv, CountdownInv
  <1>4. CASE BootKey \/ NxpEsc
    <2> DEFINE r == IF nxp.state = "BOOT_PROMPT" THEN nxp ELSE destroySession(nxp)
    <2>1. nxp' = enterSetupNow(r) /\ nxp.state \in {"BOOT_PROMPT", "SESSION_RUN"}
      BY <1>4, Zenon DEF BootKey, NxpEsc, In
    <2>2. NxpInv(r) /\ r.session = "none" /\ r.state \in {"BOOT_PROMPT", "SESSION_RUN"}
      <3>1. destroySession(nxp) \in NxpGlobals
        BY NxpValues, Zenon DEF destroySession, NxpGlobals
      <3>2. QED
        BY <2>1, <3>1, SMT DEF destroySession, NxpInv, NxpGlobals, AddressInv, ActivityInv,
           CountdownInv
    <2> HIDE DEF r
    <2>3. NxpSound(nxp, nxp')
      BY <2>1, <2>2, SetupFacts, Zenon DEF NxpSound, EndsKept
    <2>4. QED
      BY <2>3
  <1>5. CASE TypeKey
    <2>1. PICK k \in Letters \cup {"blank"} : nxp' = [Heard(nxp) EXCEPT !.line = k]
      <3> DEFINE Typed(k) == IF Heard(nxp).line = "blank" THEN k ELSE Heard(nxp).line
      <3>1. Heard(nxp).line \in Letters \cup {"blank"}
        BY SMT DEF Heard, NxpGlobals
      <3>2. \A k \in Letters : Typed(k) \in Letters \cup {"blank"}
        BY <3>1, Zenon
      <3>3. \/ \E k \in Letters : nxp' = [Heard(nxp) EXCEPT !.line = Typed(k)]
            \/ nxp' = [Heard(nxp) EXCEPT !.line = "blank"]
        BY <1>5, Zenon DEF TypeKey
      <3> HIDE DEF Typed
      <3>4. QED
        BY <3>2, <3>3, NxpValues, Zenon
    <2>2. NxpInv(nxp')
      BY <2>1, LineFacts, Zenon DEF Heard
    <2>3. nxp'.session = nxp.session
      BY <2>1, SMT DEF Heard, NxpGlobals
    <2>4. QED
      BY <2>2, <2>3, Zenon DEF NxpSound, EndsKept
  <1>6. CASE LeaseComes \/ LeaseGoes \/ AutoIpSettles
    <2>1. nxp' \in NxpGlobals
      <3>1. CASE LeaseComes
        BY <3>1, NxpValues, Zenon DEF LeaseComes, NxpGlobals
      <3>2. CASE LeaseGoes
        <4>1. (nxp.lost \/ nxp.state \in Addressed) \in BOOLEAN
          OBVIOUS
        <4>2. QED
          BY <3>2, <4>1, NxpValues, ZenonT(40) DEF LeaseGoes, Addressed, NxpGlobals
      <3>3. CASE AutoIpSettles
        BY <3>3, NxpValues, Zenon DEF AutoIpSettles, NxpGlobals
      <3>4. QED
        BY <1>6, <3>1, <3>2, <3>3
    <2>2. CASE LeaseComes
      BY <2>1, <2>2, SMTT(20) DEF LeaseComes, NxpSound, EndsKept, NxpInv, NxpGlobals,
         AddressInv, ActivityInv, CountdownInv
    <2>3. CASE LeaseGoes
      BY <2>1, <2>3, SMTT(20) DEF LeaseGoes, NxpSound, EndsKept, NxpInv, NxpGlobals,
         AddressInv, ActivityInv, CountdownInv, Addressed
    <2>4. CASE AutoIpSettles
      BY <2>1, <2>4, SMTT(20) DEF AutoIpSettles, NxpSound, EndsKept, NxpInv, NxpGlobals,
         AddressInv, ActivityInv, CountdownInv
    <2>5. QED
      BY <1>6, <2>2, <2>3, <2>4
  <1>7. QED
    BY <1>2, <1>3, <1>4, <1>5, <1>6, Zenon

LEMMA NxpNextFacts ==
    ASSUME NxpInv(nxp), NxpNext
    PROVE  NxpSound(nxp, nxp')
  BY NxpTaskSteps, NxpOtherSteps, Zenon DEF NxpNext

-----------------------------------------------------------------------------
(* The Pico boards: the configuration and the sector it is stored in.       *)

Places == Prompts \cup RunLoop \cup Selecting
              \cup {"window", "save", "connect", "reconnect", "wait"}

ConfigOK ==
    /\ pc \in Places
    /\ cfg \in BridgeConfigs /\ cfg.net \in NetsKnown
    /\ flash \in BridgeConfigs \cup {Erased}
    /\ StoredInv

\* Any step of a Pico board.
PicoSteps ==
    /\ \/ board = "pico" /\ PicoNext
       \/ board = "pico_w" /\ PicoWNext
       \/ Silence
       \/ Reset
    /\ UNCHANGED board

\* The steps that leave the configuration alone, and where they lead.
Unstored == {"network", "save", "saveHost"}

LEMMA ConfigValues ==
    /\ Defaults(board) \in BridgeConfigs /\ Defaults(board).net \in NetsKnown
    /\ \A f \in BridgeConfigs : f # Erased /\ loadBridgeConfig(f) = f
    /\ loadBridgeConfig(Erased) = Defaults(board)
  BY BridgeAssumption, SMT DEF Defaults, BridgeConfigs, Nets, NetsKnown, NetsOf,
     loadBridgeConfig, Erased

LEMMA ConfigKept ==
    ASSUME ConfigOK, UNCHANGED <<board, cfg, flash>>, pc' \in Places,
           pc' = pc \/ pc \notin Unstored
    PROVE  ConfigOK'
  BY SMT DEF ConfigOK, StoredInv, NetsKnown, NetsOf, loadBridgeConfig, Defaults, Unstored

LEMMA MenuConfig ==
    ASSUME ConfigOK, UNCHANGED board,
           ConfigMenu \/ AnswerRole \/ HostSelect \/ Save
             \/ (board = "pico" /\ AnswerDhcp) \/ (board = "pico_w" /\ PicoWAnswerSsid)
    PROVE  ConfigOK'
  <1>1. CASE ConfigMenu
    <2>1. UNCHANGED <<cfg, flash>> /\ pc \notin Unstored /\ pc' \in Places
      BY <1>1, SMT DEF ConfigMenu, WindowCloses, KeyInWindow, SetupDeclined, At, Goes, Places,
         Prompts, Unstored
    <2>2. QED
      BY <2>1, ConfigKept
  <1>2. CASE NetifReadyOrNot \/ HostFound \/ BrowseKey \/ BrowseEnds
    <2>1. UNCHANGED <<cfg, flash>> /\ pc \notin Unstored /\ pc' \in Places
      BY <1>2, SMT DEF NetifReadyOrNot, HostFound, BrowseKey, BrowseEnds, At, Goes, Places,
         Selecting, Unstored
    <2>2. QED
      BY <2>1, ConfigKept
  <1>3. CASE AnswerRole \/ (board = "pico" /\ AnswerDhcp) \/ (board = "pico_w" /\ PicoWAnswerSsid)
    <2>1. UNCHANGED flash /\ pc' \in {"network", "save"}
      BY <1>3, SMT DEF AnswerRole, AnswerDhcp, PicoWAnswerSsid, Goes
    <2>2. cfg' \in BridgeConfigs /\ cfg'.net \in NetsKnown
      BY <1>3, SMT DEF AnswerRole, AnswerDhcp, PicoWAnswerSsid, ConfigOK, BridgeConfigs, NetsKnown,
         NetsOf, Nets
    <2>3. QED
      BY <2>1, <2>2, SMT DEF ConfigOK, StoredInv, NetsKnown, Places, Prompts
  <1>4. CASE AfterBrowse \/ AnswerPick \/ AnswerAddress
    <2>1. /\ UNCHANGED flash
          /\ \/ cfg' = [cfg EXCEPT !.host = "saved"] /\ pc' = "saveHost"
             \/ UNCHANGED cfg /\ pc \notin Unstored /\ pc' \in {"ip", "begin", "pick"}
      BY <1>4, SMT DEF AfterBrowse, AnswerPick, AnswerAddress, At, Goes, Unstored
    <2>2. CASE UNCHANGED cfg /\ pc \notin Unstored /\ pc' \in {"ip", "begin", "pick"}
      BY <2>1, <2>2, ConfigKept, SMT DEF Places, Selecting
    <2>3. CASE cfg' = [cfg EXCEPT !.host = "saved"] /\ pc' = "saveHost"
      BY <2>1, <2>3, SMT DEF ConfigOK, StoredInv, NetsKnown, Places, Selecting, BridgeConfigs
    <2>4. QED
      BY <2>1, <2>2, <2>3
  <1>5. CASE Save \/ SaveHost
    <2>1. flash' = cfg /\ UNCHANGED cfg /\ pc' \in {"connect", "reconnect", "begin"}
      BY <1>5, SMT DEF Save, SaveHost, Goes
    <2>2. cfg = loadBridgeConfig(flash)'
      BY <2>1, ConfigValues, SMT DEF ConfigOK, loadBridgeConfig
    <2>3. QED
      BY <2>1, <2>2, SMT DEF ConfigOK, StoredInv, NetsKnown, Places, Selecting
  <1>6. QED
    BY <1>1, <1>2, <1>3, <1>4, <1>5, Zenon DEF HostSelect

LEMMA RoundConfig ==
    ASSUME ConfigOK, UNCHANGED board,
           \/ PicoStep \/ PicoEsc \/ PicoLease
           \/ PicoWStep \/ PicoWEsc \/ LinkMoves \/ TwoSeconds
           \/ Silence
    PROVE  ConfigOK'
  <1>1. /\ UNCHANGED <<cfg, flash>>
        /\ (pc \notin Unstored /\ pc' \in Places) \/ pc' = pc
    <2>1. CASE PicoStep \/ PicoWStep
      <3>1. /\ UNCHANGED <<cfg, flash>>
            /\ pc \in {"connect", "reconnect", "wait", "select", "begin", "poll", "tick"}
            /\ pc' \in {"connect", "wait", "select", "ready", "begin", "poll", "tick"}
        BY <2>1, Zenon DEF PicoStep, PicoConnect, PicoReconnect, PicoWait, PicoSelect, PicoBegin,
           PicoPoll, PicoTick, PicoWStep, PicoWConnect, PicoWReconnect, PicoWWait, PicoWSelect,
           PicoWBegin, PicoWPoll, PicoWSupervise, PicoWTick, Wait, Select, Begin, At, Goes
      <3>2. QED
        BY <3>1, SMT DEF Places, Selecting, RunLoop, Unstored
    <2>3. CASE PicoEsc \/ PicoWEsc \/ Silence
      BY <2>3, SMT DEF PicoEsc, PicoWEsc, Esc, Silence, At, Goes, Places, Prompts, RunLoop, Unstored
    <2>4. CASE PicoLease \/ LinkMoves \/ TwoSeconds
      BY <2>4, Zenon DEF PicoLease, LinkMoves, TwoSeconds
    <2>5. QED
      BY <2>1, <2>3, <2>4
  <1>2. QED
    BY <1>1, ConfigKept, SMT DEF ConfigOK

LEMMA ResetConfig ==
    ASSUME ConfigOK, UNCHANGED board, Reset
    PROVE  ConfigOK'
  <1>1. flash' \in {flash, Erased, cfg} /\ cfg' = loadBridgeConfig(flash)' /\ pc' = "window"
    <2>1. /\ flash' \in {flash} \cup (IF pc \in {"save", "saveHost"} THEN {Erased, cfg} ELSE {})
          /\ cfg' = loadBridgeConfig(flash') /\ pc' = "window"
      BY Zenon DEF Reset
    <2>2. QED
      BY <2>1, SMT DEF loadBridgeConfig
  <1>2. flash' \in BridgeConfigs \cup {Erased} /\ (flash' = Erased \/ flash'.net \in NetsKnown)
    BY <1>1, SMT DEF ConfigOK, StoredInv
  <1>3. cfg' \in {flash', Defaults(board)}
    BY <1>1, SMT DEF loadBridgeConfig
  <1>4. cfg' \in BridgeConfigs /\ cfg'.net \in NetsKnown
    BY <1>1, <1>2, <1>3, ConfigValues, SMT DEF loadBridgeConfig
  <1>5. QED
    BY <1>1, <1>2, <1>4, SMT DEF ConfigOK, StoredInv, Places, NetsKnown

LEMMA ConfigStep ==
    ASSUME ConfigOK, PicoSteps
    PROVE  ConfigOK'
  BY MenuConfig, RoundConfig, ResetConfig, Zenon DEF PicoSteps, PicoNext, PicoWNext, PicoConfigMenu,
     PicoSetupNow, PicoHostSelect, PicoWConfigMenu, PicoWAnswerRole, PicoWSetupNow, PicoWHostSelect

-----------------------------------------------------------------------------
(* The Pico boards: the locals of main(), and the WiFi chip.                *)

LEMMA BridgeValues ==
    /\ TRUE \in BOOLEAN /\ FALSE \in BOOLEAN
    /\ \A s \in {"none", "Idle", "Pending", "Established", "PendingBye"} : s \in SessionStates
    /\ SwitchedOn \in Bridges
  BY DEF SessionStates, SwitchedOn, Bridges, Nets

LEMMA LocalsFacts ==
    ASSUME NEW r \in Bridges, NEW x \in BOOLEAN, NEW y \in BOOLEAN, NEW s \in SessionStates
    PROVE  /\ Touched(r) \in Bridges /\ Lost(r) \in Bridges /\ Runs(r) \in Bridges
           /\ BeginClient(r) \in Bridges /\ SessionTimesOut(r) \in Bridges
           /\ [r EXCEPT !.started = x, !.client = y] \in Bridges
           /\ [r EXCEPT !.started = x, !.client = y, !.session = s] \in Bridges
           /\ [r EXCEPT !.session = s] \in Bridges
           /\ [r EXCEPT !.sawInput = x] \in Bridges /\ [r EXCEPT !.ready = x] \in Bridges
           /\ [r EXCEPT !.found = x] \in Bridges /\ [r EXCEPT !.have = x] \in Bridges
           /\ [r EXCEPT !.sawInput = x, !.manual = y] \in Bridges
           /\ [r EXCEPT !.timedOut = x] \in Bridges
  <1>1. Touched(r) \in Bridges /\ Runs(r) \in Bridges /\ BeginClient(r) \in Bridges
    <2>1. Touched(r) \in Bridges /\ BeginClient(r) \in Bridges
      BY BridgeValues, Zenon DEF Touched, BeginClient, Bridges
    <2>2. Runs(r) \in Bridges
      <3>1. \A u, v \in BOOLEAN :
              [r EXCEPT !.changed = u, !.lost = u, !.entered = u, !.found = u, !.manual = u,
                        !.sawInput = u, !.have = u, !.touched = v] \in Bridges
        BY ZenonT(40) DEF Bridges
      <3>2. QED
        BY <3>1, BridgeValues, Zenon DEF Runs
    <2>3. QED
      BY <2>1, <2>2
  <1>2. Lost(r) \in Bridges
    <2>1. (r.lost \/ pc \in Selecting) \in BOOLEAN
      OBVIOUS
    <2>2. QED
      BY <2>1, Zenon DEF Lost, Bridges
  <1>3. SessionTimesOut(r) \in Bridges
    <2>1. (board = "pico_w") \in BOOLEAN /\ (board = "pico_w" /\ r.client) \in BOOLEAN
      OBVIOUS
    <2>2. QED
      BY <2>1, BridgeValues, ZenonT(40) DEF SessionTimesOut, Bridges
  <1>4. /\ [r EXCEPT !.started = x, !.client = y] \in Bridges
        /\ [r EXCEPT !.started = x, !.client = y, !.session = s] \in Bridges
        /\ [r EXCEPT !.session = s] \in Bridges
        /\ [r EXCEPT !.sawInput = x] \in Bridges /\ [r EXCEPT !.ready = x] \in Bridges
        /\ [r EXCEPT !.found = x] \in Bridges /\ [r EXCEPT !.have = x] \in Bridges
        /\ [r EXCEPT !.sawInput = x, !.manual = y] \in Bridges
        /\ [r EXCEPT !.timedOut = x] \in Bridges
    <2>1. [r EXCEPT !.started = x, !.client = y] \in Bridges
      BY DEF Bridges
    <2>2. [r EXCEPT !.started = x, !.client = y, !.session = s] \in Bridges
      BY DEF Bridges
    <2>3. [r EXCEPT !.session = s] \in Bridges
      BY DEF Bridges
    <2>4. [r EXCEPT !.sawInput = x] \in Bridges /\ [r EXCEPT !.ready = x] \in Bridges
      BY Zenon DEF Bridges
    <2>5. [r EXCEPT !.found = x] \in Bridges /\ [r EXCEPT !.have = x] \in Bridges
      BY Zenon DEF Bridges
    <2>6. [r EXCEPT !.sawInput = x, !.manual = y] \in Bridges
      BY Zenon DEF Bridges
    <2>7. [r EXCEPT !.timedOut = x] \in Bridges
      BY Zenon DEF Bridges
    <2>8. QED
      BY <2>1, <2>2, <2>3, <2>4, <2>5, <2>6, <2>7
  <1>5. QED
    BY <1>1, <1>2, <1>3, <1>4

LEMMA HostSelectLocals ==
    ASSUME HostSelect
    PROVE  \/ b' \in {b, Touched(b), [b EXCEPT !.found = TRUE], [b EXCEPT !.have = FALSE],
                      [b EXCEPT !.have = TRUE]}
           \/ b' = [Touched(b) EXCEPT !.sawInput = TRUE]
           \/ b' = [Touched(b) EXCEPT !.sawInput = TRUE, !.manual = TRUE]
  <1>1. CASE NetifReadyOrNot \/ HostFound \/ BrowseKey \/ BrowseEnds
    BY <1>1, Zenon DEF NetifReadyOrNot, HostFound, BrowseKey, BrowseEnds
  <1>2. CASE AfterBrowse
    BY <1>2, Zenon DEF AfterBrowse
  <1>3. CASE AnswerPick \/ AnswerAddress \/ SaveHost
    BY <1>3, Zenon DEF AnswerPick, AnswerAddress, SaveHost
  <1>4. QED
    BY <1>1, <1>2, <1>3, Zenon DEF HostSelect

LEMMA MenuLocals ==
    ASSUME b \in Bridges,
           ConfigMenu \/ AnswerRole \/ AnswerDhcp \/ PicoWAnswerSsid \/ Save \/ HostSelect
    PROVE  b' \in Bridges
  <1>1. CASE ConfigMenu
    <2>1. b' \in {[b EXCEPT !.entered = (cfg.net = "none")], [Touched(b) EXCEPT !.entered = TRUE],
                  [Touched(b) EXCEPT !.entered = (cfg.net = "none")]}
      BY <1>1, Zenon DEF ConfigMenu, WindowCloses, KeyInWindow
    <2>2. (cfg.net = "none") \in BOOLEAN
      OBVIOUS
    <2>3. QED
      BY <2>1, <2>2, BridgeValues, ZenonT(40) DEF Bridges, Touched
  <1>2. CASE AnswerRole \/ AnswerDhcp \/ PicoWAnswerSsid \/ Save
    BY <1>2, BridgeValues, ZenonT(40) DEF AnswerRole, AnswerDhcp, PicoWAnswerSsid, Save, Bridges, Touched
  <1>3. CASE HostSelect
    <2>1. \/ b' \in {b, Touched(b), [b EXCEPT !.found = TRUE], [b EXCEPT !.have = FALSE],
                     [b EXCEPT !.have = TRUE]}
          \/ b' = [Touched(b) EXCEPT !.sawInput = TRUE]
          \/ b' = [Touched(b) EXCEPT !.sawInput = TRUE, !.manual = TRUE]
      BY <1>3, HostSelectLocals
    <2>2. Touched(b) \in Bridges
      BY BridgeValues, LocalsFacts, Zenon
    <2>3. QED
      BY <2>1, <2>2, BridgeValues, LocalsFacts, Zenon
  <1>4. QED
    BY <1>1, <1>2, <1>3

LEMMA ConnectedValues ==
    ASSUME NEW r \in Bridges, NEW x \in BOOLEAN, NEW y \in BOOLEAN
    PROVE  [r EXCEPT !.networkUp = x, !.ready = y] \in Bridges
  BY ZenonT(40) DEF Bridges

LEMMA ConnectLocals ==
    ASSUME b \in Bridges, w \in WifiStates, cfg.net \in Nets,
           PicoConnect \/ PicoWConnect \/ PicoReconnect \/ PicoWReconnect \/ PicoLease \/ Wait
             \/ Select
    PROVE  b' \in Bridges
  <1>1. CASE PicoConnect
    <2>1. PICK ok \in BOOLEAN :
            b' = [b EXCEPT !.net = cfg.net, !.netif = ok, !.networkUp = ok,
                           !.ready = (ok /\ cfg.net = "static")]
      BY <1>1, Zenon DEF PicoConnect
    <2>2. (ok /\ cfg.net = "static") \in BOOLEAN
      OBVIOUS
    <2> DEFINE n == [b EXCEPT !.net = cfg.net, !.netif = ok]
    <2>3. n \in Bridges
      BY Zenon DEF Bridges
    <2>4. b' = [n EXCEPT !.networkUp = ok, !.ready = (ok /\ cfg.net = "static")]
      BY <2>1, Zenon
    <2> HIDE DEF n
    <2>5. QED
      BY <2>2, <2>3, <2>4, ConnectedValues, Zenon
  <1>2. CASE PicoWConnect
    <2>1. PICK x \in wifi_connect(w) : b' = [b EXCEPT !.net = cfg.net, !.networkUp = x.chip]
      BY <1>2, Zenon DEF PicoWConnect
    <2>2. x.chip \in BOOLEAN
      BY <2>1, BridgeValues, Zenon DEF wifi_connect, Joined, ChipDown, WifiStates
    <2>3. QED
      BY <2>1, <2>2, Zenon DEF Bridges
  <1>3. CASE PicoReconnect \/ PicoWReconnect
    BY <1>3, Zenon DEF PicoReconnect, PicoWReconnect
  <1>4. CASE PicoLease
    <2> DEFINE r == IF b.ready THEN Lost(b) ELSE b
    <2>1. (~b.ready) \in BOOLEAN /\ r \in Bridges
      BY BridgeValues, LocalsFacts, Zenon
    <2>2. b' = [r EXCEPT !.ready = ~b.ready]
      BY <1>4, Zenon DEF PicoLease
    <2> HIDE DEF r
    <2>3. QED
      BY <2>1, <2>2, BridgeValues, LocalsFacts, Zenon
  <1>5. CASE Wait
    <2>1. (b.networkUp /\ isNetifReady) \in BOOLEAN
      OBVIOUS
    <2>2. QED
      BY <1>5, <2>1, Zenon DEF Wait, Bridges
  <1>6. CASE Select
    <2>1. (cfg.host # "none") \in BOOLEAN
      OBVIOUS
    <2> DEFINE h == [b EXCEPT !.have = (cfg.host # "none")]
    <2>2. h \in Bridges
      BY <2>1, Zenon DEF Bridges
    <2>3. b' \in {h, BeginHostSelect(h)}
      BY <1>6, Zenon DEF Select
    <2> HIDE DEF h
    <2>4. QED
      BY <2>2, <2>3, Zenon DEF BeginHostSelect, Bridges
  <1>7. QED
    BY <1>1, <1>2, <1>3, <1>4, <1>5, <1>6

\* What a session is begun with.
LEMMA BeginCases ==
    ASSUME b \in Bridges, cfg \in BridgeConfigs, Begin
    PROVE  \/ b' = [Runs(b) EXCEPT !.started = FALSE, !.client = FALSE]
           \/ /\ b.networkUp /\ b.have
              /\ b' = [BeginClient(Runs(b)) EXCEPT !.started = TRUE, !.client = TRUE]
           \/ /\ b.networkUp
              /\ b' = [Runs(b) EXCEPT !.started = TRUE, !.client = FALSE, !.session = "Idle"]
  <1>1. cfg.role \in {"Client", "Host"}
    BY Zenon DEF BridgeConfigs
  <1>2. QED
    BY <1>1, Zenon DEF Begin

LEMMA RunLocals ==
    ASSUME b \in Bridges, cfg \in BridgeConfigs,
           Begin \/ Esc \/ Silence \/ PicoPoll \/ PicoTick \/ PicoWPoll \/ PicoWSupervise
           \/ PicoWTick \/ LinkMoves \/ TwoSeconds
    PROVE  b' \in Bridges
  <1>1. CASE Begin
    <2>1. Runs(b) \in Bridges
      BY BridgeValues, LocalsFacts, Zenon
    <2>2. BeginClient(Runs(b)) \in Bridges
      BY <2>1, BridgeValues, LocalsFacts, Zenon
    <2>3. QED
      <3> DEFINE none   == [Runs(b) EXCEPT !.started = FALSE, !.client = FALSE]
                 client == [BeginClient(Runs(b)) EXCEPT !.started = TRUE, !.client = TRUE]
                 host   == [Runs(b) EXCEPT !.started = TRUE, !.client = FALSE, !.session = "Idle"]
      <3>1. none \in Bridges
        BY <2>1, BridgeValues, LocalsFacts, Zenon
      <3>2. client \in Bridges
        BY <2>2, BridgeValues, LocalsFacts, Zenon
      <3>3. host \in Bridges
        BY <2>1, BridgeValues, LocalsFacts, Zenon
      <3>4. b' = none \/ b' = client \/ b' = host
        BY <1>1, BeginCases, Zenon
      <3> HIDE DEF none, client, host
      <3>5. QED
        BY <3>1, <3>2, <3>3, <3>4, Zenon
  <1>2. CASE Esc
    <2> DEFINE s == IF b.started THEN "PendingBye" ELSE b.session
    <2>1. s \in SessionStates
      BY BridgeValues, Zenon DEF Bridges
    <2>2. b' = [b EXCEPT !.entered = TRUE, !.again = TRUE, !.owed = FALSE, !.session = s]
      BY <1>2, Zenon DEF Esc, Escape
    <2> HIDE DEF s
    <2>3. QED
      BY <2>1, <2>2, BridgeValues, ZenonT(40) DEF Bridges
  <1>3. CASE Silence
    BY <1>3, BridgeValues, LocalsFacts, Zenon DEF Silence
  <1>4. CASE PicoTick \/ PicoWTick
    <2>1. \A works \in BOOLEAN : SessionTick(b, works) \subseteq Bridges
      <3>1. b.session \in SessionStates
        BY Zenon DEF Bridges
      <3>2. \A works \in BOOLEAN : NextSession(b, works) \subseteq SessionStates
        BY <3>1, SessionValues, Zenon
      <3>3. \A x \in SessionStates : [b EXCEPT !.session = x] \in Bridges
        BY BridgeValues, LocalsFacts, Zenon
      <3>4. QED
        BY <3>2, <3>3, Zenon DEF SessionTick
    <2>2. b.ready \in BOOLEAN /\ NetWorks \in BOOLEAN
      BY Zenon DEF Bridges, NetWorks
    <2>3. QED
      BY <1>4, <2>1, <2>2, Zenon DEF PicoTick, PicoWTick
  <1>5. CASE PicoWSupervise
    <2> DEFINE r == [b EXCEPT !.timedOut = FALSE]
    <2>1. r \in Bridges /\ BeginClient(r) \in Bridges
      BY BridgeValues, LocalsFacts, Zenon
    <2>2. b' \in {r, BeginClient(r)}
      BY <1>5, Zenon DEF PicoWSupervise
    <2>3. QED
      BY <2>1, <2>2, Zenon
  <1>6. CASE PicoPoll \/ PicoWPoll \/ TwoSeconds
    BY <1>6, Zenon DEF PicoPoll, PicoWPoll, TwoSeconds
  <1>7. CASE LinkMoves
    <2>1. (b.lost \/ pc \in Selecting) \in BOOLEAN
      OBVIOUS
    <2>2. QED
      BY <1>7, <2>1, Zenon DEF LinkMoves, Lost, Bridges
  <1>8. QED
    BY <1>1, <1>2, <1>3, <1>4, <1>5, <1>6, <1>7

LEMMA LocalsStep ==
    ASSUME b \in Bridges, w \in WifiStates, cfg \in BridgeConfigs, PicoSteps
    PROVE  b' \in Bridges
  <1>1. cfg.net \in Nets
    BY Zenon DEF BridgeConfigs
  <1>2. CASE Reset
    BY <1>2, BridgeValues, Zenon DEF Reset
  <1>3. CASE Silence
    BY <1>3, RunLocals
  <1>4. CASE PicoNext
    BY <1>1, <1>4, MenuLocals, ConnectLocals, RunLocals, Zenon DEF PicoNext, PicoStep, PicoWait,
       PicoSelect, PicoBegin, PicoEsc, PicoConfigMenu, PicoSetupNow, PicoHostSelect
  <1>5. CASE PicoWNext
    BY <1>1, <1>5, MenuLocals, ConnectLocals, RunLocals, Zenon DEF PicoWNext, PicoWStep, PicoWWait,
       PicoWSelect, PicoWBegin, PicoWEsc, PicoWConfigMenu, PicoWAnswerRole, PicoWSetupNow,
       PicoWHostSelect
  <1>6. QED
    BY <1>2, <1>3, <1>4, <1>5, Zenon DEF PicoSteps

LEMMA WifiValues ==
    /\ TRUE \in BOOLEAN /\ FALSE \in BOOLEAN
    /\ \A s \in {"up", "joining", "down"} : s \in {"up", "joining", "down"}
    /\ 0 \in 0..KLinkHold /\ KLinkHold \in 0..KLinkHold
    /\ 0 \in 0..KRejoinRetry /\ KRejoinRetry \in 0..KRejoinRetry
    /\ \A n \in 0..KLinkHold : n < KLinkHold => n + 1 \in 0..KLinkHold
    /\ \A n \in 0..KRejoinRetry : n < KRejoinRetry => n + 1 \in 0..KRejoinRetry
    /\ ChipOff \in WifiStates
  <1>1. 0 \in 0..KLinkHold /\ KLinkHold \in 0..KLinkHold
        /\ 0 \in 0..KRejoinRetry /\ KRejoinRetry \in 0..KRejoinRetry
    BY BridgeAssumption, SMT
  <1>2. ChipOff \in WifiStates
    BY <1>1, Zenon DEF ChipOff, WifiStates
  <1>3. /\ \A n \in 0..KLinkHold : n < KLinkHold => n + 1 \in 0..KLinkHold
        /\ \A n \in 0..KRejoinRetry : n < KRejoinRetry => n + 1 \in 0..KRejoinRetry
    BY BridgeAssumption, SMT
  <1>4. QED
    BY <1>1, <1>2, <1>3, Zenon

\* The chip and the statics, in whatever state they are left.
LEMMA WifiFacts ==
    ASSUME NEW r \in WifiStates, NEW x \in BOOLEAN, NEW s \in {"up", "joining", "down"}
    PROVE  /\ \A y \in wifi_connect(r) : y \in WifiStates /\ y.chip \in BOOLEAN
           /\ Counting(r) \in WifiStates
           /\ [r EXCEPT !.pollReady = x] \in WifiStates /\ [r EXCEPT !.up = x] \in WifiStates
           /\ [r EXCEPT !.tried = 0, !.up = x] \in WifiStates
           /\ [r EXCEPT !.up = FALSE, !.lost = 0, !.tried = 0] \in WifiStates
           /\ [r EXCEPT !.status = s] \in WifiStates
           /\ [r EXCEPT !.status = s, !.wedged = x] \in WifiStates
  <1>1. \A y \in wifi_connect(r) : y \in WifiStates
    BY WifiValues, ZenonT(40) DEF wifi_connect, Joined, ChipDown, WifiStates
  <1>2. \A y \in WifiStates : y.chip \in BOOLEAN
    BY Zenon DEF WifiStates
  <1>3. Counting(r) \in WifiStates
    BY WifiValues, Zenon DEF Counting, WifiStates
  <1>4. /\ [r EXCEPT !.pollReady = x] \in WifiStates /\ [r EXCEPT !.up = x] \in WifiStates
        /\ [r EXCEPT !.tried = 0, !.up = x] \in WifiStates
        /\ [r EXCEPT !.up = FALSE, !.lost = 0, !.tried = 0] \in WifiStates
    BY WifiValues, Zenon DEF WifiStates
  <1>5. /\ [r EXCEPT !.status = s] \in WifiStates
        /\ [r EXCEPT !.status = s, !.wedged = x] \in WifiStates
    BY WifiValues, Zenon DEF WifiStates
  <1>6. QED
    BY <1>1, <1>2, <1>3, <1>4, <1>5, Zenon

LEMMA SuperviseFacts ==
    ASSUME NEW r \in WifiStates, NEW t \in BOOLEAN, NEW v \in wifi_supervise(r, t)
    PROVE  v.w \in WifiStates
  <1>1. \A q, k : Verdict(q, k).w = q
    BY Zenon DEF Verdict
  <1>2. ASSUME NEW q \in WifiStates, NEW u \in restartChip(q)
        PROVE  u.w \in WifiStates
    <2>1. PICK x \in wifi_connect(q) :
            u = Verdict(Counting([x EXCEPT !.tried = 0, !.up = q.up \/ x.chip]), x.chip)
      BY <1>2, Zenon DEF restartChip
    <2>2. x \in WifiStates
      BY <2>1, WifiFacts, WifiValues, Zenon
    <2>3. (q.up \/ x.chip) \in BOOLEAN
      OBVIOUS
    <2>4. [x EXCEPT !.tried = 0, !.up = q.up \/ x.chip] \in WifiStates
      BY <2>2, <2>3, WifiFacts, WifiValues, Zenon
    <2>5. QED
      <3>1. Counting([x EXCEPT !.tried = 0, !.up = q.up \/ x.chip]) \in WifiStates
        BY <2>4, WifiFacts, WifiValues, Zenon
      <3>2. QED
        BY <1>1, <2>1, <3>1, Zenon
  <1>3. ASSUME v \in StillNoWifi(r)
        PROVE  v.w \in WifiStates
    BY <1>1, <1>2, <1>3, Zenon DEF StillNoWifi
  <1> DEFINE l == [r EXCEPT !.up = FALSE, !.lost = 0, !.tried = 0]
  <1>4. l \in WifiStates
    BY WifiFacts, WifiValues, Zenon
  <1>5. ASSUME v \in LinkLost(r, t)
        PROVE  v.w \in WifiStates
    <2>1. \/ v = Verdict(r, FALSE) \/ v \in restartChip(l)
          \/ \E s \in {"up", "joining", "down"} : v = Verdict([l EXCEPT !.status = s], FALSE)
      BY <1>5, Zenon DEF LinkLost
    <2>2. \A s \in {"up", "joining", "down"} : [l EXCEPT !.status = s] \in WifiStates
      BY <1>4, WifiFacts, WifiValues, Zenon
    <2> HIDE DEF l
    <2>3. QED
      BY <1>1, <1>2, <1>4, <2>1, <2>2, Zenon
  <1>6. ASSUME v \in LinkBack(r)
        PROVE  v.w \in WifiStates
    <2>1. \/ v = Verdict(Counting([r EXCEPT !.up = TRUE]), TRUE)
          \/ v \in restartChip(r) \/ v = Verdict(r, FALSE)
      BY <1>6, Zenon DEF LinkBack
    <2>2. [r EXCEPT !.up = TRUE] \in WifiStates
      BY WifiFacts, WifiValues, Zenon
    <2>3. Counting([r EXCEPT !.up = TRUE]) \in WifiStates
      BY <2>2, WifiFacts, WifiValues, Zenon
    <2>4. QED
      BY <1>1, <1>2, <2>1, <2>3, Zenon
  <1>7. QED
    BY <1>3, <1>5, <1>6, Zenon DEF wifi_supervise

LEMMA WifiStep ==
    ASSUME b \in Bridges, w \in WifiStates, PicoSteps
    PROVE  w' \in WifiStates
  <1>1. CASE UNCHANGED w
    BY <1>1
  <1>2. CASE Reset
    BY <1>2, WifiValues, Zenon DEF Reset
  <1>3. CASE PicoWConnect
    <2>1. PICK x \in wifi_connect(w) : w' = [x EXCEPT !.pollReady = x.chip]
      BY <1>3, Zenon DEF PicoWConnect
    <2>2. x \in WifiStates /\ x.chip \in BOOLEAN
      BY <2>1, WifiFacts, WifiValues, Zenon
    <2>3. QED
      BY <2>1, <2>2, WifiFacts, WifiValues, Zenon
  <1>4. CASE PicoWSupervise
    <2>1. b.timedOut \in BOOLEAN
      BY Zenon DEF Bridges
    <2>2. QED
      BY <1>4, <2>1, SuperviseFacts, Zenon DEF PicoWSupervise
  <1>5. CASE LinkMoves
    <2>1. PICK s \in {"up", "joining", "down"}, d \in BOOLEAN :
             w' = [w EXCEPT !.status = s, !.wedged = d]
      BY <1>5, Zenon DEF LinkMoves
    <2>2. QED
      BY <2>1, WifiFacts, Zenon
  <1>6. CASE TwoSeconds
    <2> DEFINE x == IF w.lost < KLinkHold THEN w.lost + 1 ELSE w.lost
               y == IF w.tried < KRejoinRetry THEN w.tried + 1 ELSE w.tried
    <2>1. w.lost \in 0..KLinkHold /\ w.tried \in 0..KRejoinRetry
      BY Zenon DEF WifiStates
    <2>2. x \in 0..KLinkHold /\ y \in 0..KRejoinRetry
      BY <2>1, WifiValues, Zenon
    <2>3. w' = [w EXCEPT !.lost = x, !.tried = y]
      BY <1>6, Zenon DEF TwoSeconds
    <2> HIDE DEF x, y
    <2>4. QED
      BY <2>2, <2>3, Zenon DEF WifiStates
  <1>7. UNCHANGED w \/ Reset \/ PicoWConnect \/ PicoWSupervise \/ LinkMoves \/ TwoSeconds
    BY Zenon DEF PicoSteps, PicoNext, PicoStep, PicoConnect, PicoReconnect, PicoWait,
       PicoSelect, PicoBegin, PicoPoll, PicoTick, PicoConfigMenu, PicoSetupNow, PicoHostSelect,
       PicoEsc, PicoLease, PicoWNext, PicoWStep, PicoWReconnect, PicoWWait, PicoWSelect,
       PicoWBegin, PicoWPoll, PicoWTick, PicoWConfigMenu, PicoWAnswerRole, PicoWSetupNow,
       PicoWHostSelect, PicoWEsc, Wait, Select, Begin, Esc, Silence
  <1>8. QED
    BY <1>1, <1>2, <1>3, <1>4, <1>5, <1>6, <1>7, Zenon

-----------------------------------------------------------------------------
(* The Pico boards: from the wait for an address to the session.            *)

\* What leads to, or stays in, the places between the wait and the session.
LEMMA SelectingSteps ==
    ASSUME PicoSteps, pc' \in Selecting
    PROVE  \/ HostSelect /\ UNCHANGED w
           \/ Wait \/ Select \/ PicoLease \/ LinkMoves \/ TwoSeconds
  <1>1. /\ "role" \notin Selecting /\ "network" \notin Selecting /\ "save" \notin Selecting
        /\ "connect" \notin Selecting /\ "reconnect" \notin Selecting /\ "wait" \notin Selecting
        /\ "window" \notin Selecting /\ "poll" \notin Selecting /\ "tick" \notin Selecting
    BY DEF Selecting
  <1>2. ~Reset /\ ~Silence
    BY <1>1, Zenon DEF Reset, Silence, Goes
  <1>3. ~ConfigMenu /\ ~AnswerRole /\ ~AnswerDhcp /\ ~PicoWAnswerSsid /\ ~Save
    BY <1>1, Zenon DEF ConfigMenu, WindowCloses, KeyInWindow, SetupDeclined, AnswerRole, AnswerDhcp,
       PicoWAnswerSsid, Save, Goes
  <1>4. ~PicoConnect /\ ~PicoReconnect /\ ~PicoWConnect /\ ~PicoWReconnect /\ ~Begin /\ ~Esc
    BY <1>1, Zenon DEF PicoConnect, PicoReconnect, PicoWConnect, PicoWReconnect, Begin, Esc, Goes
  <1>5. ~PicoPoll /\ ~PicoTick /\ ~PicoWPoll /\ ~PicoWSupervise /\ ~PicoWTick
    BY <1>1, Zenon DEF PicoPoll, PicoTick, PicoWPoll, PicoWSupervise, PicoWTick, Goes
  <1>6. QED
    BY <1>2, <1>3, <1>4, <1>5, Zenon DEF PicoSteps, PicoNext, PicoStep, PicoWait, PicoSelect,
       PicoBegin, PicoConfigMenu, PicoSetupNow, PicoHostSelect, PicoEsc, PicoWNext, PicoWStep,
       PicoWWait, PicoWSelect, PicoWBegin, PicoWConfigMenu, PicoWAnswerRole, PicoWSetupNow,
       PicoWHostSelect, PicoWEsc

LEMMA HostSelectFacts ==
    ASSUME b \in Bridges, HostSelect
    PROVE  /\ pc \in Selecting \ {"select", "begin"}
           /\ pc' \in Selecting
           /\ b'.networkUp = b.networkUp /\ b'.lost = b.lost /\ b'.ready = b.ready
           /\ b'.net = b.net /\ b'.again = b.again
  <1>1. /\ pc \in {"ready", "browse", "browsed", "pick", "ip", "saveHost"}
        /\ pc' \in {"browse", "browsed", "pick", "ip", "saveHost", "begin"}
    BY Zenon DEF HostSelect, NetifReadyOrNot, HostFound, BrowseKey, BrowseEnds, AfterBrowse,
       AnswerPick, AnswerAddress, SaveHost, At, Goes
  <1>2. \/ b' \in {b, Touched(b), [b EXCEPT !.found = TRUE], [b EXCEPT !.have = FALSE],
                   [b EXCEPT !.have = TRUE]}
        \/ b' = [Touched(b) EXCEPT !.sawInput = TRUE]
        \/ b' = [Touched(b) EXCEPT !.sawInput = TRUE, !.manual = TRUE]
    BY HostSelectLocals
  <1>3. /\ b'.networkUp = b.networkUp /\ b'.lost = b.lost /\ b'.ready = b.ready
        /\ b'.net = b.net /\ b'.again = b.again
    BY <1>2, Zenon DEF Touched, Bridges
  <1>4. QED
    BY <1>1, <1>3, SMT DEF Selecting

LEMMA AddressStep ==
    ASSUME b \in Bridges, w \in WifiStates, AddressSeen, PicoSteps
    PROVE  AddressSeen'
  <1> SUFFICES ASSUME pc' \in Selecting, b'.networkUp
               PROVE  isNetifReady' \/ b'.lost
    BY Zenon DEF AddressSeen
  <1>1. UNCHANGED board
    BY Zenon DEF PicoSteps
  <1>2. CASE HostSelect /\ UNCHANGED w
    BY <1>1, <1>2, HostSelectFacts, Zenon DEF AddressSeen, isNetifReady
  <1>3. CASE Wait
    <2>1. b' = [b EXCEPT !.networkUp = b.networkUp /\ isNetifReady] /\ w' = w
      BY <1>3, Zenon DEF Wait
    <2>2. b'.networkUp = (b.networkUp /\ isNetifReady) /\ b'.ready = b.ready
      BY <2>1, Zenon DEF Bridges
    <2>3. QED
      BY <1>1, <2>1, <2>2, Zenon DEF isNetifReady
  <1>4. CASE Select
    <2>1. w' = w /\ pc = "select"
      BY <1>4, Zenon DEF Select, At
    <2>2. b'.networkUp = b.networkUp /\ b'.lost = b.lost /\ b'.ready = b.ready
      BY <1>4, Zenon DEF Select, BeginHostSelect, Bridges
    <2>3. "select" \in Selecting
      BY DEF Selecting
    <2>4. QED
      BY <1>1, <2>1, <2>2, <2>3, Zenon DEF AddressSeen, isNetifReady
  <1>5. CASE PicoLease
    <2>1. pc' = pc /\ w' = w
      BY <1>5, Zenon DEF PicoLease
    <2>2. CASE b.ready
      <3>1. b' = [Lost(b) EXCEPT !.ready = FALSE]
        BY <1>5, <2>2, Zenon DEF PicoLease
      <3>2. b'.lost
        BY <2>1, <3>1, Zenon DEF Lost, Bridges
      <3>3. QED
        BY <3>2
    <2>3. CASE ~b.ready
      <3>1. b' = [b EXCEPT !.ready = TRUE]
        BY <1>5, <2>3, Zenon DEF PicoLease
      <3>2. b'.ready /\ b'.networkUp = b.networkUp /\ b'.lost = b.lost
        BY <3>1, Zenon DEF Bridges
      <3>3. QED
        BY <1>1, <2>1, <3>2, Zenon DEF AddressSeen, isNetifReady
    <2>4. QED
      BY <2>2, <2>3
  <1>6. CASE LinkMoves
    <2>1. PICK s \in {"up", "joining", "down"}, d \in BOOLEAN :
            /\ w' = [w EXCEPT !.status = s, !.wedged = d]
            /\ b' = IF s = "up" THEN b ELSE Lost(b)
      BY <1>6, Zenon DEF LinkMoves
    <2>2. w.chip /\ pc' = pc
      BY <1>6, Zenon DEF LinkMoves
    <2>3. w'.chip = w.chip /\ w'.status = s
      BY <2>1, Zenon DEF WifiStates
    <2>4. CASE s = "up"
      BY <1>1, <2>1, <2>2, <2>3, <2>4, Zenon DEF AddressSeen, isNetifReady
    <2>5. CASE s # "up"
      BY <2>1, <2>2, <2>5, Zenon DEF Lost, Bridges
    <2>6. QED
      BY <2>4, <2>5
  <1>7. CASE TwoSeconds
    <2>1. pc' = pc /\ b' = b
      BY <1>7, Zenon DEF TwoSeconds
    <2>2. w'.chip = w.chip /\ w'.status = w.status
      BY <1>7, Zenon DEF TwoSeconds, WifiStates
    <2>3. QED
      BY <1>1, <2>1, <2>2, Zenon DEF AddressSeen, isNetifReady
  <1>8. QED
    BY <1>2, <1>3, <1>4, <1>5, <1>6, <1>7, SelectingSteps, Zenon

LEMMA HostStep ==
    ASSUME b \in Bridges, cfg \in BridgeConfigs, HostKnown, PicoSteps
    PROVE  HostKnown'
  <1> SUFFICES ASSUME pc' \in Selecting
               PROVE  HostKnown'
    BY DEF HostKnown, Selecting
  <1>1. CASE HostSelect
    <2>1. CASE NetifReadyOrNot \/ HostFound \/ BrowseKey \/ BrowseEnds
      <3>1. /\ pc \in {"ready", "browse"} /\ pc' \in {"browse", "browsed"}
            /\ UNCHANGED cfg
        BY <2>1, Zenon DEF NetifReadyOrNot, HostFound, BrowseKey, BrowseEnds, At, Goes
      <3>2. b'.have = b.have
        BY <2>1, Zenon DEF NetifReadyOrNot, HostFound, BrowseKey, BrowseEnds, Touched, Bridges
      <3>3. QED
        BY <3>1, <3>2, SMT DEF HostKnown, Selecting
    <2>2. CASE AfterBrowse
      <3>1. /\ pc = "browsed"
            /\ \/ pc' \in {"ip", "pick"} /\ UNCHANGED <<b, cfg>>
               \/ pc' = "begin" /\ b' = [b EXCEPT !.have = FALSE] /\ UNCHANGED cfg
               \/ pc' = "saveHost" /\ cfg' = [cfg EXCEPT !.host = "saved"]
        BY <2>2, Zenon DEF AfterBrowse, At, Goes
      <3>2. CASE pc' \in {"ip", "pick"} /\ UNCHANGED <<b, cfg>>
        BY <3>1, <3>2, SMT DEF HostKnown, Selecting
      <3>3. CASE pc' = "begin" /\ b' = [b EXCEPT !.have = FALSE] /\ UNCHANGED cfg
        <4>1. ~b'.have
          BY <3>3, Zenon DEF Bridges
        <4>2. QED
          BY <3>3, <4>1, SMT DEF HostKnown
      <3>4. CASE pc' = "saveHost" /\ cfg' = [cfg EXCEPT !.host = "saved"]
        BY <3>4, SMT DEF HostKnown, BridgeConfigs
      <3>5. QED
        BY <3>1, <3>2, <3>3, <3>4
    <2>3. CASE AnswerPick \/ AnswerAddress
      <3>1. /\ pc \in {"pick", "ip"} /\ b' = Touched(b)
            /\ \/ pc' = "saveHost" /\ cfg' = [cfg EXCEPT !.host = "saved"]
               \/ pc' = "ip" /\ UNCHANGED cfg
        BY <2>3, Zenon DEF AnswerPick, AnswerAddress, At, Goes
      <3>2. b'.have = b.have
        BY <3>1, Zenon DEF Touched, Bridges
      <3>3. QED
        BY <3>1, <3>2, SMT DEF HostKnown, Selecting, BridgeConfigs
    <2>4. CASE SaveHost
      <3>1. pc = "saveHost" /\ pc' = "begin" /\ UNCHANGED cfg
        BY <2>4, Zenon DEF SaveHost, At, Goes
      <3>2. QED
        BY <3>1, SMT DEF HostKnown
    <2>5. QED
      BY <1>1, <2>1, <2>2, <2>3, <2>4, Zenon DEF HostSelect
  <1>2. CASE Wait
    BY <1>2, SMT DEF Wait, Goes, HostKnown
  <1>3. CASE Select
    <2>1. pc' \in {"ready", "begin"} /\ UNCHANGED cfg
      BY <1>3, Zenon DEF Select, Goes
    <2>2. b'.have = (cfg.host # "none")
      BY <1>3, Zenon DEF Select, BeginHostSelect, Bridges
    <2>3. QED
      BY <2>1, <2>2, Zenon DEF HostKnown
  <1>4. CASE PicoLease \/ LinkMoves \/ TwoSeconds
    <2>1. UNCHANGED <<pc, cfg>>
      BY <1>4, Zenon DEF PicoLease, LinkMoves, TwoSeconds
    <2>2. b'.have = b.have
      BY <1>4, Zenon DEF PicoLease, LinkMoves, TwoSeconds, Lost, Bridges
    <2>3. QED
      BY <2>1, <2>2, SMT DEF HostKnown
  <1>5. QED
    BY <1>1, <1>2, <1>3, <1>4, SelectingSteps, Zenon

LEMMA EndsStep ==
    ASSUME b \in Bridges, cfg \in BridgeConfigs, AddressSeen, HostKnown, PicoSteps
    PROVE  PicoHasEnds
  <1> SUFFICES ASSUME At("begin"), InRun', b'.started
               PROVE  (isNetifReady \/ b.lost) /\ (b'.client => cfg.host # "none")
    BY Zenon DEF PicoHasEnds
  <1>1. pc = "begin" /\ "begin" \in Selecting \ {"select", "saveHost"}
    BY SMT DEF At, Selecting
  <1>2. Begin
    <2>1. pc' \in {"poll", "tick"}
      BY Zenon DEF InRun, RunLoop
    <2>2. ~Reset /\ ~Silence /\ ~Wait /\ ~Select /\ ~Esc
      BY <1>1, <2>1, Zenon DEF Reset, Silence, Wait, Select, Esc, At
    <2>3. ~ConfigMenu /\ ~AnswerRole /\ ~AnswerDhcp /\ ~PicoWAnswerSsid /\ ~Save
      BY <1>1, Zenon DEF ConfigMenu, WindowCloses, KeyInWindow, AnswerRole, AnswerDhcp,
         PicoWAnswerSsid, Save, At
    <2>4. ~PicoConnect /\ ~PicoReconnect /\ ~PicoWConnect /\ ~PicoWReconnect
      BY <1>1, Zenon DEF PicoConnect, PicoReconnect, PicoWConnect, PicoWReconnect, At
    <2>5. ~PicoPoll /\ ~PicoTick /\ ~PicoWPoll /\ ~PicoWSupervise /\ ~PicoWTick
      BY <1>1, Zenon DEF PicoPoll, PicoTick, PicoWPoll, PicoWSupervise, PicoWTick, At
    <2>6. ~PicoLease /\ ~LinkMoves /\ ~TwoSeconds
      BY <1>1, <2>1, Zenon DEF PicoLease, LinkMoves, TwoSeconds
    <2>7. ~HostSelect
      BY <1>1, Zenon DEF HostSelect, NetifReadyOrNot, HostFound, BrowseKey, BrowseEnds, AfterBrowse,
         AnswerPick, AnswerAddress, SaveHost, At
    <2>8. QED
      BY <2>2, <2>3, <2>4, <2>5, <2>6, <2>7, Zenon DEF PicoSteps, PicoNext, PicoStep, PicoWait,
         PicoSelect, PicoBegin, PicoConfigMenu, PicoSetupNow, PicoHostSelect, PicoEsc, PicoWNext,
         PicoWStep, PicoWWait, PicoWSelect, PicoWBegin, PicoWConfigMenu, PicoWAnswerRole,
         PicoWSetupNow, PicoWHostSelect, PicoWEsc
  <1>3. b.networkUp /\ (b'.client => b.have)
    <2>1. CASE b' = [Runs(b) EXCEPT !.started = FALSE, !.client = FALSE]
      BY <2>1, Zenon DEF Runs, Bridges
    <2>2. CASE b' = [Runs(b) EXCEPT !.started = TRUE, !.client = FALSE, !.session = "Idle"]
      <3>1. Runs(b) \in Bridges
        BY BridgeValues, LocalsFacts, Zenon
      <3>2. ~b'.client
        BY <2>2, <3>1, Zenon DEF Bridges
      <3>3. QED
        BY <1>2, <2>1, <2>2, <3>2, BeginCases, Zenon
    <2>3. QED
      BY <1>2, <2>1, <2>2, BeginCases, Zenon
  <1>4. QED
    BY <1>1, <1>3, Zenon DEF AddressSeen, HostKnown

-----------------------------------------------------------------------------
(* The Pico boards: the network that was joined and the role that is        *)
(* played, against the configuration.                                       *)

\* A round of the run loop.
RoundSteps ==
    Silence \/ PicoPoll \/ PicoTick \/ PicoWPoll \/ PicoWSupervise \/ PicoWTick

LEMMA RoundFields ==
    ASSUME b \in Bridges, RoundSteps
    PROVE  /\ pc \in RunLoop /\ pc' \in RunLoop /\ UNCHANGED cfg
           /\ b'.net = b.net /\ b'.again = b.again
           /\ b'.started = b.started /\ b'.client = b.client
  <1>1. /\ pc \in {"poll", "tick"} /\ pc' \in {"poll", "tick"} /\ UNCHANGED cfg
    BY Zenon DEF RoundSteps, Silence, PicoPoll, PicoTick, PicoWPoll, PicoWSupervise, PicoWTick, At,
       Goes
  <1>2. \/ b' = b \/ b' = SessionTimesOut(b)
        \/ \E s : b' = [b EXCEPT !.session = s]
        \/ b' \in {[b EXCEPT !.timedOut = FALSE], BeginClient([b EXCEPT !.timedOut = FALSE])}
    <2>1. CASE Silence \/ PicoPoll \/ PicoWPoll
      BY <2>1, Zenon DEF Silence, PicoPoll, PicoWPoll
    <2>2. CASE PicoTick \/ PicoWTick
      BY <2>2, Zenon DEF PicoTick, PicoWTick, SessionTick
    <2>3. CASE PicoWSupervise
      BY <2>3, Zenon DEF PicoWSupervise
    <2>4. QED
      BY <2>1, <2>2, <2>3, Zenon DEF RoundSteps
  <1>3. /\ b'.net = b.net /\ b'.again = b.again
        /\ b'.started = b.started /\ b'.client = b.client
    BY <1>2, Zenon DEF SessionTimesOut, BeginClient, Bridges
  <1>4. QED
    BY <1>1, <1>3, Zenon DEF RunLoop

LEMMA BeginFields ==
    ASSUME b \in Bridges, cfg \in BridgeConfigs, HostKnown, Begin
    PROVE  /\ pc = "begin" /\ pc' = "poll" /\ UNCHANGED cfg
           /\ b'.net = b.net /\ b'.again = b.again
           /\ PlaysRole(cfg)'
  <1>1. pc = "begin" /\ pc' = "poll" /\ UNCHANGED cfg
    BY Zenon DEF Begin, At, Goes
  <1>2. b.have => cfg.host # "none"
    BY <1>1, SMT DEF HostKnown, Selecting
  <1>3. Runs(b) \in Bridges /\ Runs(b).net = b.net /\ Runs(b).again = b.again
    <2>1. Runs(b) \in Bridges
      BY BridgeValues, LocalsFacts, Zenon
    <2>2. QED
      BY <2>1, Zenon DEF Runs, Bridges
  <1>4. CASE ~b.networkUp \/ (cfg.role = "Client" /\ ~b.have)
    <2>1. b' = [Runs(b) EXCEPT !.started = FALSE, !.client = FALSE]
      BY <1>4, Zenon DEF Begin
    <2>2. b'.net = Runs(b).net /\ b'.again = Runs(b).again /\ ~b'.started
      BY <1>3, <2>1, Zenon DEF Bridges
    <2>3. QED
      BY <1>1, <1>3, <2>2, Zenon DEF PlaysRole
  <1>5. CASE b.networkUp /\ cfg.role = "Client" /\ b.have
    <2> DEFINE q == BeginClient(Runs(b))
    <2>1. b' = [q EXCEPT !.started = TRUE, !.client = TRUE]
      BY <1>5, Zenon DEF Begin
    <2>2. q \in Bridges /\ q.net = Runs(b).net /\ q.again = Runs(b).again
      <3>1. q \in Bridges
        BY <1>3, BridgeValues, LocalsFacts, Zenon
      <3>2. QED
        BY <1>3, <3>1, Zenon DEF BeginClient, Bridges
    <2> HIDE DEF q
    <2>3. b'.net = q.net /\ b'.again = q.again /\ b'.client
      BY <2>1, <2>2, Zenon DEF Bridges
    <2>4. QED
      BY <1>1, <1>2, <1>3, <1>5, <2>2, <2>3, Zenon DEF PlaysRole
  <1>6. CASE b.networkUp /\ cfg.role = "Host"
    <2>1. b' = [Runs(b) EXCEPT !.started = TRUE, !.client = FALSE, !.session = "Idle"]
      BY <1>6, Zenon DEF Begin
    <2>2. b'.net = Runs(b).net /\ b'.again = Runs(b).again /\ ~b'.client
      BY <1>3, <2>1, Zenon DEF Bridges
    <2>3. QED
      BY <1>1, <1>3, <1>6, <2>2, Zenon DEF PlaysRole
  <1>7. QED
    BY <1>4, <1>5, <1>6, Zenon DEF BridgeConfigs

\* What happens behind the setup keeps the network.
LEMMA SettledFields ==
    ASSUME b \in Bridges, cfg \in BridgeConfigs, HostKnown,
           HostSelect \/ Wait \/ Select \/ Begin \/ RoundSteps
    PROVE  /\ pc \in Settled /\ pc' \in Settled
           /\ b'.net = b.net /\ b'.again = b.again /\ cfg'.net = cfg.net
  <1>1. CASE HostSelect
    <2>1. cfg' \in {cfg, [cfg EXCEPT !.host = "saved"]}
      BY <1>1, Zenon DEF HostSelect, NetifReadyOrNot, HostFound, BrowseKey, BrowseEnds, AfterBrowse,
         AnswerPick, AnswerAddress, SaveHost
    <2>2. cfg'.net = cfg.net
      BY <2>1, Zenon DEF BridgeConfigs
    <2>3. QED
      BY <1>1, <2>2, HostSelectFacts, Zenon DEF Settled
  <1>2. CASE Wait \/ Select
    <2>1. /\ UNCHANGED cfg
          /\ pc \in {"wait", "select"} /\ pc' \in {"select", "ready", "begin"}
      BY <1>2, Zenon DEF Wait, Select, At, Goes
    <2>2. b'.net = b.net /\ b'.again = b.again
      BY <1>2, Zenon DEF Wait, Select, BeginHostSelect, Bridges
    <2>3. QED
      BY <2>1, <2>2, SMT DEF Settled, Selecting
  <1>3. CASE Begin \/ RoundSteps
    BY <1>3, BeginFields, RoundFields, SMT DEF Settled, Selecting, RunLoop
  <1>4. QED
    BY <1>1, <1>2, <1>3

\* The air, the clock and the leases change neither the place nor the network.
LEMMA OutsideFields ==
    ASSUME b \in Bridges, PicoLease \/ LinkMoves \/ TwoSeconds
    PROVE  /\ UNCHANGED <<pc, cfg>>
           /\ b'.net = b.net /\ b'.again = b.again /\ b'.changed = b.changed
           /\ b'.started = b.started /\ b'.client = b.client
  <1>1. UNCHANGED <<pc, cfg>>
    BY Zenon DEF PicoLease, LinkMoves, TwoSeconds
  <1>2. \/ b' \in {b, Lost(b), [b EXCEPT !.ready = ~b.ready], [Lost(b) EXCEPT !.ready = ~b.ready]}
    BY Zenon DEF PicoLease, LinkMoves, TwoSeconds
  <1>3. QED
    BY <1>1, <1>2, Zenon DEF Lost, Bridges

LEMMA SetupNet ==
    ASSUME b \in Bridges, cfg \in BridgeConfigs, UNCHANGED board, NetKept,
           \/ ConfigMenu \/ AnswerRole \/ Save
           \/ (board = "pico" /\ AnswerDhcp) \/ (board # "pico" /\ PicoWAnswerSsid)
    PROVE  NetKept'
  <1>1. CASE ConfigMenu
    <2>1. pc = "window" /\ pc' \in {"role", "connect"}
      BY <1>1, Zenon DEF ConfigMenu, WindowCloses, KeyInWindow, SetupDeclined, At, Goes
    <2>2. b'.net = b.net
      BY <1>1, Zenon DEF ConfigMenu, WindowCloses, KeyInWindow, Touched, Bridges
    <2>3. QED
      BY <2>1, <2>2, SMT DEF NetKept, Settled, Selecting, RunLoop
  <1>2. CASE AnswerRole
    <2>1. pc = "role" /\ pc' = "network" /\ \E r : cfg' = [cfg EXCEPT !.role = r]
      BY <1>2, Zenon DEF AnswerRole, At, Goes
    <2>2. cfg'.net = cfg.net
      BY <2>1, Zenon DEF BridgeConfigs
    <2>3. b'.net = b.net /\ b'.again = b.again
      BY <1>2, Zenon DEF AnswerRole, Touched, Bridges
    <2>4. QED
      BY <2>1, <2>2, <2>3, SMT DEF NetKept, Rejoined, Settled, Selecting, RunLoop
  <1>3. CASE board = "pico" /\ AnswerDhcp
    <2>1. pc = "network" /\ pc' = "save"
      BY <1>3, Zenon DEF AnswerDhcp, At, Goes
    <2>2. b'.net = b.net /\ b'.again = b.again
      BY <1>3, Zenon DEF AnswerDhcp, Touched, Bridges
    <2>3. QED
      BY <1>3, <2>1, <2>2, SMT DEF NetKept, Rejoined, Settled, Selecting, RunLoop
  <1>4. CASE board # "pico" /\ PicoWAnswerSsid
    <2>1. pc = "network" /\ pc' = "save"
      BY <1>4, Zenon DEF PicoWAnswerSsid, At, Goes
    <2>2. PICK n \in NetsOf("pico_w") :
             /\ cfg' = [cfg EXCEPT !.net = n]
             /\ b' = [Touched(b) EXCEPT !.changed = (n # cfg.net)]
      BY <1>4, Zenon DEF PicoWAnswerSsid
    <2>3. cfg'.net = n
      BY <2>2, Zenon DEF BridgeConfigs
    <2>4. b'.net = b.net /\ (b'.changed \/ n = cfg.net)
      BY <2>2, Zenon DEF Touched, Bridges
    <2>5. b.net = "none" \/ b.net = cfg.net
      BY <1>4, <2>1, SMT DEF NetKept, Rejoined
    <2>6. b'.net = "none" \/ b'.net = cfg'.net \/ b'.changed
      BY <2>3, <2>4, <2>5, Zenon
    <2>7. QED
      BY <1>4, <2>1, <2>6, SMT DEF NetKept, Rejoined, Settled, Selecting, RunLoop
  <1>5. CASE Save
    <2>1. /\ pc = "save" /\ UNCHANGED <<cfg, b>>
          /\ pc' \in {"connect", "reconnect"} /\ (pc' = "reconnect" => b.net # "none")
      BY <1>5, Zenon DEF Save, At, Goes
    <2>2. QED
      BY <2>1, SMT DEF NetKept, Rejoined, Settled, Selecting, RunLoop
  <1>6. QED
    BY <1>1, <1>2, <1>3, <1>4, <1>5

LEMMA ConnectNet ==
    ASSUME b \in Bridges, cfg \in BridgeConfigs, UNCHANGED board, NetKept,
           \/ PicoConnect \/ PicoWConnect \/ Esc
           \/ (board = "pico" /\ PicoReconnect) \/ (board # "pico" /\ PicoWReconnect)
    PROVE  NetKept'
  <1>1. CASE PicoConnect \/ PicoWConnect
    <2>1. pc' = "wait" /\ UNCHANGED cfg
      BY <1>1, Zenon DEF PicoConnect, PicoWConnect, Goes
    <2>2. \/ \E ok, y : b' = [b EXCEPT !.net = cfg.net, !.netif = ok, !.networkUp = ok, !.ready = y]
          \/ \E ok : b' = [b EXCEPT !.net = cfg.net, !.networkUp = ok]
      BY <1>1, Zenon DEF PicoConnect, PicoWConnect
    <2>3. b'.net = cfg.net
      BY <2>2, Zenon DEF Bridges
    <2>4. QED
      BY <2>1, <2>3, SMT DEF NetKept, Settled, Selecting, RunLoop
  <1>2. CASE Esc
    <2>1. pc = "poll" /\ pc' = "role" /\ UNCHANGED cfg /\ b' = Escape(b)
      BY <1>2, Zenon DEF Esc, At, Goes
    <2>2. b'.net = b.net /\ b'.again
      BY <2>1, Zenon DEF Escape, Bridges
    <2>3. QED
      BY <2>1, <2>2, SMT DEF NetKept, Rejoined, Settled, Selecting, RunLoop
  <1>3. CASE \/ board = "pico" /\ PicoReconnect
             \/ board # "pico" /\ PicoWReconnect /\ pc' = "wait"
    <2>1. /\ pc = "reconnect" /\ pc' = "wait" /\ UNCHANGED <<cfg, b>>
          /\ board # "pico" => ~b.changed
      BY <1>3, Zenon DEF PicoReconnect, PicoWReconnect, At, Goes
    <2>2. QED
      BY <2>1, SMT DEF NetKept, Rejoined, Settled, Selecting, RunLoop
  <1>4. CASE PicoWReconnect /\ pc' # "wait"
    <2>1. pc' = "connect"
      BY <1>4, Zenon DEF PicoWReconnect, Goes
    <2>2. QED
      BY <2>1, SMT DEF NetKept, Settled, Selecting, RunLoop
  <1>5. QED
    BY <1>1, <1>2, <1>3, <1>4

LEMMA NetStep ==
    ASSUME b \in Bridges, cfg \in BridgeConfigs, HostKnown, NetKept, PicoSteps
    PROVE  NetKept'
  <1>1. UNCHANGED board
    BY Zenon DEF PicoSteps
  <1>2. CASE HostSelect \/ Wait \/ Select \/ Begin \/ RoundSteps
    <2>1. /\ pc \in Settled /\ pc' \in Settled
          /\ b'.net = b.net /\ b'.again = b.again /\ cfg'.net = cfg.net
      BY <1>2, SettledFields
    <2>2. QED
      BY <1>1, <2>1, SMT DEF NetKept, Settled, Selecting, RunLoop
  <1>3. CASE PicoLease \/ LinkMoves \/ TwoSeconds
    BY <1>1, <1>3, OutsideFields, SMT DEF NetKept, Rejoined
  <1>4. CASE Reset
    <2>1. pc' = "window" /\ b' = SwitchedOn
      BY <1>4, Zenon DEF Reset
    <2>2. b'.net = "none"
      BY <2>1, Zenon DEF SwitchedOn
    <2>3. QED
      BY <2>1, <2>2, SMT DEF NetKept, Settled, Selecting, RunLoop
  <1>5. "pico_w" # "pico"
    OBVIOUS
  <1>6. QED
    BY <1>1, <1>2, <1>3, <1>4, <1>5, SetupNet, ConnectNet, Zenon DEF PicoSteps, PicoNext, PicoStep,
       PicoWait, PicoSelect, PicoBegin, PicoConfigMenu, PicoSetupNow, PicoHostSelect, PicoEsc,
       PicoWNext, PicoWStep, PicoWWait, PicoWSelect, PicoWBegin, PicoWConfigMenu, PicoWAnswerRole,
       PicoWSetupNow, PicoWHostSelect, PicoWEsc, RoundSteps

LEMMA RoleStep ==
    ASSUME b \in Bridges, cfg \in BridgeConfigs, HostKnown, RoleKept, PicoSteps
    PROVE  RoleKept'
  <1> SUFFICES ASSUME pc' \in RunLoop
               PROVE  PlaysRole(cfg)'
    BY Zenon DEF RoleKept, InRun
  <1>1. CASE Begin
    BY <1>1, BeginFields
  <1>2. CASE RoundSteps
    BY <1>2, RoundFields, Zenon DEF RoleKept, InRun, PlaysRole
  <1>3. CASE PicoLease \/ LinkMoves \/ TwoSeconds
    BY <1>3, OutsideFields, Zenon DEF RoleKept, InRun, PlaysRole
  <1>4. /\ \A p \in Selecting \cup Prompts : p \notin RunLoop
        /\ \A p \in {"window", "save", "connect", "reconnect", "wait"} : p \notin RunLoop
        /\ "role" \in Prompts /\ "network" \in Prompts /\ "ready" \in Selecting
        /\ "select" \in Selecting /\ "begin" \in Selecting
    BY SMT DEF RunLoop, Selecting, Prompts
  <1>5. ~Reset /\ ~Esc /\ ~Wait /\ ~Select
    BY <1>4, Zenon DEF Reset, Esc, Wait, Select, Goes
  <1>6. ~ConfigMenu /\ ~AnswerRole /\ ~AnswerDhcp /\ ~PicoWAnswerSsid /\ ~Save
    BY <1>4, Zenon DEF ConfigMenu, WindowCloses, KeyInWindow, SetupDeclined, AnswerRole, AnswerDhcp,
       PicoWAnswerSsid, Save, Goes
  <1>7. ~PicoConnect /\ ~PicoReconnect /\ ~PicoWConnect /\ ~PicoWReconnect
    BY <1>4, Zenon DEF PicoConnect, PicoReconnect, PicoWConnect, PicoWReconnect, Goes
  <1>8. ~HostSelect
    BY <1>4, HostSelectFacts, Zenon
  <1>9. QED
    BY <1>1, <1>2, <1>3, <1>5, <1>6, <1>7, <1>8, Zenon DEF PicoSteps, PicoNext, PicoStep, PicoWait,
       PicoSelect, PicoBegin, PicoConfigMenu, PicoSetupNow, PicoHostSelect, PicoEsc, PicoWNext,
       PicoWStep, PicoWWait, PicoWSelect, PicoWBegin, PicoWConfigMenu, PicoWAnswerRole,
       PicoWSetupNow, PicoWHostSelect, PicoWEsc, RoundSteps

-----------------------------------------------------------------------------
(* A bridge, whichever it is.                                               *)

LEMMA NextCases ==
    ASSUME Next
    PROVE  \/ PicoSteps /\ board # "nxp" /\ UNCHANGED nxp
           \/ NxpNext /\ board = "nxp" /\ UNCHANGED bridgeVars
  BY Zenon DEF Next, OnPico, OnNxp, PicoSteps

LEMMA InitIInv ==
    ASSUME Init
    PROVE  IInv
  <1>1. board \in {"pico", "pico_w", "nxp"} /\ board \in Boards
    BY BridgeAssumption, Zenon DEF Init
  <1>2. /\ pc = "window" /\ flash = Erased /\ cfg = Defaults(board)
        /\ b = SwitchedOn /\ w = ChipOff /\ nxp = NxpOff
    BY ConfigValues, SMT DEF Init, PicoBoot, PicoWBoot, NotPico, NxpBoot
  <1>3. ConfigOK
    BY <1>2, ConfigValues, SMT DEF ConfigOK, StoredInv, Places
  <1>4. b \in Bridges /\ w \in WifiStates
    BY <1>2, BridgeValues, WifiValues, Zenon
  <1>5. NxpOff \in NxpGlobals
    BY NxpValues, Zenon DEF NxpOff, NxpGlobals
  <1>6. NxpInv(nxp)
    BY <1>2, <1>5, SMT DEF NxpInv, AddressInv, ActivityInv, CountdownInv, Addressed, NxpOff
  <1>7. AddressSeen /\ HostKnown
    BY <1>2, SMT DEF AddressSeen, HostKnown, Selecting
  <1>8. TypeOK
    BY <1>1, <1>3, <1>4, <1>6, Zenon DEF TypeOK, ConfigOK, Places, NetsKnown, NxpInv
  <1>9. NetKept /\ RoleKept
    BY <1>2, SMT DEF NetKept, RoleKept, Settled, Selecting, RunLoop, InRun, SwitchedOn
  <1>10. QED
    BY <1>3, <1>6, <1>7, <1>8, <1>9, Zenon DEF IInv, ConfigOK

LEMMA NextIInv ==
    ASSUME IInv, [Next]_vars
    PROVE  IInv' /\ ((PicoHasEnds /\ NxpHasEnds) \/ UNCHANGED vars)
  <1>1. /\ b \in Bridges /\ w \in WifiStates /\ cfg \in BridgeConfigs /\ board \in Boards
        /\ ConfigOK
    BY Zenon DEF IInv, TypeOK, ConfigOK, Places, NetsKnown
  <1>2. CASE PicoSteps /\ board # "nxp" /\ UNCHANGED nxp
    <2>1. UNCHANGED <<board, nxp>>
      BY <1>2, Zenon DEF PicoSteps
    <2>2. ConfigOK' /\ b' \in Bridges /\ w' \in WifiStates
      BY <1>1, <1>2, ConfigStep, LocalsStep, WifiStep, Zenon
    <2>3. AddressSeen' /\ HostKnown' /\ PicoHasEnds
      BY <1>1, <1>2, AddressStep, HostStep, EndsStep, Zenon DEF IInv
    <2>4. NetKept' /\ RoleKept'
      BY <1>1, <1>2, NetStep, RoleStep, Zenon DEF IInv
    <2>5. NxpInv(nxp)' /\ NxpHasEnds
      BY <2>1, Zenon DEF IInv, NxpHasEnds
    <2>6. TypeOK'
      BY <1>1, <2>1, <2>2, <2>5, Zenon DEF TypeOK, ConfigOK, Places, NetsKnown, NxpInv
    <2>7. QED
      BY <2>2, <2>3, <2>4, <2>5, <2>6, Zenon DEF IInv, ConfigOK
  <1>3. CASE NxpNext /\ board = "nxp" /\ UNCHANGED bridgeVars
    <2>1. NxpInv(nxp') /\ EndsKept(nxp, nxp')
      BY <1>3, NxpNextFacts, Zenon DEF IInv, NxpSound
    <2>2. UNCHANGED <<board, pc, cfg, flash, b, w>>
      BY <1>3, Zenon DEF bridgeVars
    <2>3. TypeOK'
      BY <2>1, <2>2, SMT DEF IInv, TypeOK, NxpInv, NetsOf
    <2>4. StoredInv' /\ AddressSeen' /\ HostKnown'
      BY <2>2, SMT DEF IInv, StoredInv, AddressSeen, HostKnown, NetsKnown, NetsOf, loadBridgeConfig,
         Defaults, isNetifReady
    <2>5. NetKept' /\ RoleKept'
      BY <2>2, Zenon DEF IInv, NetKept, RoleKept, Rejoined, InRun, PlaysRole
    <2>6. PicoHasEnds
      BY <2>2, SMT DEF PicoHasEnds, At, InRun, RunLoop
    <2>7. NxpHasEnds
      BY <2>1, Zenon DEF NxpHasEnds, EndsKept
    <2>8. QED
      BY <2>1, <2>3, <2>4, <2>5, <2>6, <2>7, Zenon DEF IInv
  <1>4. CASE UNCHANGED vars
    <2>1. UNCHANGED <<board, pc, cfg, flash, b, w, nxp>>
      BY <1>4, Zenon DEF vars, bridgeVars
    <2>2. TypeOK' /\ StoredInv' /\ AddressSeen' /\ HostKnown' /\ NxpInv(nxp)'
      BY <2>1, Zenon DEF IInv, TypeOK, StoredInv, AddressSeen, HostKnown, NetsKnown, NetsOf,
         loadBridgeConfig, Defaults, isNetifReady
    <2>3. NetKept' /\ RoleKept'
      BY <2>1, Zenon DEF IInv, NetKept, RoleKept, Rejoined, InRun, PlaysRole
    <2>4. QED
      BY <1>4, <2>2, <2>3, Zenon DEF IInv
  <1>5. QED
    BY <1>2, <1>3, <1>4, NextCases, Zenon

(***************************************************************************)
(* All variables have their types, whichever boards are considered and     *)
(* whatever the times of wifi_supervise() are (pico main.cpp, pico_w       *)
(* main.cpp, nxp SessionTask.cpp: the globals and what they may hold).     *)
(***************************************************************************)
THEOREM BridgesTypes == Spec => []TypeOK
  <1>1. Init => IInv
    BY InitIInv
  <1>2. IInv /\ [Next]_vars => IInv'
    BY NextIInv
  <1>3. IInv => TypeOK
    BY DEF IInv
  <1>4. QED
    BY <1>1, <1>2, <1>3, PTL DEF Spec

LEMMA SpecIInv == Spec => []IInv
  <1>1. Init => IInv
    BY InitIInv
  <1>2. IInv /\ [Next]_vars => IInv'
    BY NextIInv
  <1>3. QED
    BY <1>1, <1>2, PTL DEF Spec

(***************************************************************************)
(* A Pico board in its run loop has the stored role, a Host if it is to    *)
(* invite one, and the stored network, whatever was typed and wherever     *)
(* resets came, also while the sector was written (pico main.cpp:616-660,  *)
(* console_menu.cpp: runSetupNow(), runClientHostSelect()).  On pico_w     *)
(* that takes the comparison of the credentials before and after the setup *)
(* (pico_w main.cpp:876-895), which NetKept follows through the menu; on   *)
(* pico the network is claimed only until ESC is first pressed.            *)
(***************************************************************************)
THEOREM BoardRunsAsStored == Spec => []RunsAsStored
  <1>1. IInv => RunsAsStored
    <2> SUFFICES ASSUME IInv, InRun
                 PROVE  RunsAsStored
      BY Zenon DEF RunsAsStored
    <2>1. cfg = loadBridgeConfig(flash)
      BY SMT DEF IInv, StoredInv, InRun, RunLoop
    <2>2. (b.net = cfg.net) \/ (board = "pico" /\ b.again)
      BY SMT DEF IInv, NetKept, InRun, Settled
    <2>3. PlaysRole(cfg)
      BY Zenon DEF IInv, RoleKept
    <2>4. QED
      BY <2>1, <2>2, <2>3, Zenon DEF RunsAsStored
  <1>2. QED
    BY <1>1, SpecIInv, PTL

(***************************************************************************)
(* nxp: a session lives in SESSION_RUN only, a search in the browse window *)
(* only, whatever answer, key or deadline of SessionTask.cpp comes first.  *)
(***************************************************************************)
THEOREM NxpOneActivity == Spec => []OneActivity
  <1>1. IInv => OneActivity
    BY Zenon DEF IInv, NxpInv, ActivityInv, OneActivity, Browsing, In
  <1>2. QED
    BY <1>1, SpecIInv, PTL

(***************************************************************************)
(* No step begins a session on a network that never had an address, or a   *)
(* Client with nobody to invite (pico main.cpp:640-652 and 845-848, nxp    *)
(* SessionTask.cpp:2109-2158).                                             *)
(***************************************************************************)
THEOREM SessionsHaveEnds == Spec => SessionHasEnds
  <1>1. IInv /\ [Next]_vars => [PicoHasEnds /\ NxpHasEnds]_vars
    BY NextIInv
  <1>2. QED
    BY <1>1, SpecIInv, PTL DEF Spec, SessionHasEnds

=============================================================================
