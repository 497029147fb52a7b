------------------------ MODULE DemoPrograms_proofs ------------------------
(***************************************************************************)
(* Proofs about the demo programs: what they hold lives in its own state   *)
(* and is not left behind, "same role" is the role picked, input typed     *)
(* before a session does not end it, and nm2_host and nm2_client end       *)
(* cleanly; for any amount of type-ahead, polls, ticks of the Bye and      *)
(* Ctrl-Cs.                                                                *)
(***************************************************************************)
EXTENDS DemoPrograms, SequenceTheorems, TLAPS

-----------------------------------------------------------------------------
(* The globals of the interactive programs.                                 *)

LEMMA Values ==
    /\ TRUE \in BOOLEAN /\ FALSE \in BOOLEAN
    /\ "WIFI_SSID" \in States /\ "WIFI_PASS" \in States /\ "WIFI_CONNECTING" \in States
    /\ "STATIC_IP" \in States /\ "MDNS_NAME" \in States /\ "ROLE_SELECT" \in States
    /\ "AUTH_PASS" \in States /\ "MDNS_RESOLVE" \in States /\ "CLIENT_IP" \in States
    /\ "SESSION_RUN" \in States /\ "REPEAT_PROMPT" \in States /\ "DONE" \in States
    /\ "none" \in SessionStates /\ "Idle" \in SessionStates /\ "Pending" \in SessionStates
    /\ "none" \in {"none", "host", "client"}
    /\ "host" \in {"none", "host", "client"}
    /\ "client" \in {"none", "host", "client"}
    /\ Blank \in Chars \cup {Blank} /\ <<>> \in Seq(Chars)
    /\ Erased \in FlashRecords
<1>1. <<>> \in Seq(Chars)
  OBVIOUS
<1>2. Erased \in FlashRecords
  <2>1. FALSE \in BOOLEAN
    OBVIOUS
  <2> QED BY <2>1, Zenon DEF Erased, FlashRecords
<1> QED BY <1>1, <1>2, Zenon DEF States, SessionStates

\* What is typed is a sequence of characters, whatever its age.
LEMMA AgedTypes ==
    ASSUME NEW c, c \in Chars \cup {Blank} PROVE Aged(c) \in Chars \cup {Blank}
<1>1. c.key \in Keys \/ c = Blank
  BY DEF Chars
<1>2. (c.key \in {"q", "etx"}) \in BOOLEAN
  OBVIOUS
<1>3. CASE c = Blank
  <2> DEFINE x == Blank.key \in {"q", "etx"}
  <2>1. x = FALSE
    BY DEF Blank
  <2>2. Aged(Blank) = [Blank EXCEPT !.stale = x]
    BY DEF Aged
  <2> HIDE DEF x
  <2>3. [Blank EXCEPT !.stale = x] = Blank
    <3>1. [Blank EXCEPT !.stale = FALSE] = Blank
      <4> DEFINE R == [key : {"blank"}, stale : BOOLEAN]
      <4>1. FALSE \in BOOLEAN /\ "blank" \in {"blank"}
        OBVIOUS
      <4>2. Blank \in R
        BY <4>1, Zenon DEF Blank
      <4>3. [Blank EXCEPT !.stale = FALSE] \in R
        BY <4>1, <4>2, Zenon
      <4>4. Blank.stale = FALSE /\ [Blank EXCEPT !.stale = FALSE].stale = FALSE
        BY <4>2, Zenon DEF Blank
      <4>5. \A a, b \in R : a.stale = b.stale => a = b
        OBVIOUS
      <4> HIDE DEF R
      <4> QED BY <4>2, <4>3, <4>4, <4>5, Zenon
    <3> QED BY <2>1, <3>1, Zenon
  <2> QED BY <1>3, <2>2, <2>3, Zenon
<1>4. CASE c \in Chars
  <2> DEFINE x == c.key \in {"q", "etx"}
  <2>1. x \in BOOLEAN
    BY <1>2
  <2>2. Aged(c) = [c EXCEPT !.stale = x]
    BY DEF Aged
  <2> HIDE DEF x
  <2> QED BY <1>4, <2>1, <2>2, Zenon DEF Chars
<1> QED BY <1>3, <1>4

LEMMA AgedTyped ==
    ASSUME NEW s \in Seq(Chars) PROVE [i \in DOMAIN s |-> Aged(s[i])] \in Seq(Chars)
<1>1. \A i \in 1 .. Len(s) : s[i] \in Chars
  BY ElementOfSeq
<1>2. \A c \in Chars : Aged(c) \in Chars
  <2> TAKE c \in Chars
  <2> DEFINE x == c.key \in {"q", "etx"}
  <2>1. x \in BOOLEAN
    OBVIOUS
  <2>2. Aged(c) = [c EXCEPT !.stale = x]
    BY DEF Aged
  <2> HIDE DEF x
  <2> QED BY <2>1, <2>2, Zenon DEF Chars
<1>3. Len(s) \in Nat /\ DOMAIN s = 1 .. Len(s)
  BY LenProperties
<1> DEFINE t == [i \in 1 .. Len(s) |-> Aged(s[i])]
<1>4. t \in [1 .. Len(s) -> Chars]
  BY <1>1, <1>2
<1>5. t \in Seq(Chars)
  BY <1>3, <1>4
<1> QED BY <1>3, <1>5

LEMMA BootTypes ==
    ASSUME NEW f \in FlashRecords PROVE Boot(f) \in Globals
<1>1. f.saved \in BOOLEAN /\ f.ip \in BOOLEAN /\ f.name \in BOOLEAN
  BY DEF FlashRecords
<1> QED BY <1>1, Values, Zenon DEF Boot, Globals

LEMMA SaveTypes ==
    ASSUME NEW p \in Globals PROVE saveConfig(p) \in FlashRecords
<1>1. p.ip \in BOOLEAN /\ p.name \in BOOLEAN /\ TRUE \in BOOLEAN
  BY DEF Globals
<1> QED BY <1>1, Zenon DEF saveConfig, FlashRecords

\* The helpers that put a session and its input away, or begin one.
LEMMA HelperTypes ==
    ASSUME NEW p \in Globals
    PROVE  /\ AgeInput(p) \in Globals /\ FlushInput(p) \in Globals
           /\ PosixDestroySession(p) \in Globals /\ LwipDestroySession(p) \in Globals
           /\ PosixStartResolve(p) \in Globals /\ LwipStartResolve(p) \in Globals
<1>1. AgeInput(p) \in Globals
  <2>1. p.typed \in Seq(Chars) /\ p.line \in Chars \cup {Blank}
    BY Zenon DEF Globals
  <2> DEFINE t == [i \in DOMAIN p.typed |-> Aged(p.typed[i])]
             l == Aged(p.line)
  <2>2. t \in Seq(Chars) /\ l \in Chars \cup {Blank}
    BY <2>1, AgedTypes, AgedTyped
  <2>3. AgeInput(p) = [p EXCEPT !.typed = t, !.line = l]
    BY Zenon DEF AgeInput
  <2> HIDE DEF t, l
  <2> QED BY <2>2, <2>3, Zenon DEF Globals
<1>2. FlushInput(p) \in Globals
  BY Values, Zenon DEF FlushInput, Globals
<1>3. PosixDestroySession(p) \in Globals
  BY Values, Zenon DEF PosixDestroySession, Globals
<1>4. LwipDestroySession(p) \in Globals
  <2>1. [p EXCEPT !.session = "none", !.up = FALSE, !.everUp = FALSE, !.held = FALSE] \in Globals
    BY Values, Zenon DEF Globals
  <2> QED BY <2>1, Zenon DEF LwipDestroySession
<1>5. PosixStartResolve(p) \in Globals /\ LwipStartResolve(p) \in Globals
  BY Values, Zenon DEF PosixStartResolve, LwipStartResolve, Globals
<1> QED BY <1>1, <1>2, <1>3, <1>4, <1>5

\* The roles that begin, once the session before is put away and the input seen to.
PosixHost(q)   == [q EXCEPT !.isHost = TRUE, !.browsing = FALSE, !.session = "Idle",
                            !.state = "SESSION_RUN"]
PosixClient(q) == [q EXCEPT !.isHost = FALSE, !.lastHost = TRUE, !.browsing = FALSE,
                            !.session = "Pending", !.state = "SESSION_RUN"]
BoardHost(q)   == [q EXCEPT !.isHost = TRUE, !.session = "Idle", !.held = TRUE,
                            !.state = "SESSION_RUN"]
BoardClient(q) == [q EXCEPT !.isHost = FALSE, !.lastHost = TRUE, !.session = "Pending",
                            !.held = TRUE, !.state = "SESSION_RUN"]

LEMMA RoleTypes ==
    ASSUME NEW q \in Globals
    PROVE  /\ PosixHost(q) \in Globals /\ PosixClient(q) \in Globals
           /\ BoardHost(q) \in Globals /\ BoardClient(q) \in Globals
<1>1. PosixHost(q) \in Globals
  BY Values, Zenon DEF PosixHost, Globals
<1>2. PosixClient(q) \in Globals
  BY Values, Zenon DEF PosixClient, Globals
<1>3. BoardHost(q) \in Globals
  BY Values, Zenon DEF BoardHost, Globals
<1>4. BoardClient(q) \in Globals
  BY Values, Zenon DEF BoardClient, Globals
<1> QED BY <1>1, <1>2, <1>3, <1>4

LEMMA BeginTypes ==
    ASSUME NEW p \in Globals
    PROVE  /\ PosixBeginHost(p) \in Globals /\ PosixBeginClient(p) \in Globals
           /\ LwipBeginHost(p) \in Globals /\ LwipBeginClient(p) \in Globals
           /\ PosixAgain(p) \in Globals /\ LwipAgain(p) \in Globals
<1> DEFINE q == AgeInput(PosixDestroySession(p))
           r == FlushInput(AgeInput(LwipDestroySession(p)))
<1>1. q \in Globals /\ r \in Globals
  BY HelperTypes
<1>2. /\ PosixBeginHost(p) = PosixHost(q) /\ PosixBeginClient(p) = PosixClient(q)
      /\ LwipBeginHost(p) = BoardHost(r) /\ LwipBeginClient(p) = BoardClient(r)
  BY DEF PosixBeginHost, PosixBeginClient, LwipBeginHost, LwipBeginClient, PosixHost,
         PosixClient, BoardHost, BoardClient
<1> HIDE DEF q, r
<1>3. /\ PosixBeginHost(p) \in Globals /\ PosixBeginClient(p) \in Globals
      /\ LwipBeginHost(p) \in Globals /\ LwipBeginClient(p) \in Globals
  BY <1>1, <1>2, RoleTypes, Zenon
<1>4. PosixAgain(p) \in Globals
  BY <1>3, HelperTypes, Zenon DEF PosixAgain
<1>5. LwipAgain(p) \in Globals
  BY <1>3, HelperTypes, Zenon DEF LwipAgain
<1> QED BY <1>3, <1>4, <1>5

-----------------------------------------------------------------------------
(* The two boards' programs share most of their code.                       *)

LEMMA SharedHelpers ==
    ASSUME NEW p
    PROVE  /\ RtosDestroySession(p) = LwipDestroySession(p)
           /\ RtosBeginHost(p) = LwipBeginHost(p)
           /\ RtosBeginClient(p) = LwipBeginClient(p)
           /\ RtosStartResolve(p) = LwipStartResolve(p)
           /\ RtosAgain(p) = LwipAgain(p)
<1>1. RtosDestroySession(p) = LwipDestroySession(p)
  BY Zenon DEF RtosDestroySession, LwipDestroySession
<1>2. RtosBeginHost(p) = LwipBeginHost(p)
  BY <1>1, Zenon DEF RtosBeginHost, LwipBeginHost
<1>3. RtosBeginClient(p) = LwipBeginClient(p)
  BY <1>1, Zenon DEF RtosBeginClient, LwipBeginClient
<1>4. RtosStartResolve(p) = LwipStartResolve(p)
  BY Zenon DEF RtosStartResolve, LwipStartResolve
<1>5. RtosAgain(p) = LwipAgain(p)
  BY <1>2, <1>3, <1>4, Zenon DEF RtosAgain, LwipAgain
<1> QED BY <1>1, <1>2, <1>3, <1>4, <1>5

LEMMA SharedCode ==
    /\ \A k, h : RtosSetupLine(k, h) => LwipSetupLine(k, h)
    /\ RtosReboot => LwipReboot
    /\ RtosConnect => LwipConnect
    /\ RtosTop => LwipTop
    /\ RtosBrowse => LwipBrowse
    /\ RtosPeerGone => LwipPeerGone
    /\ RtosTransition => LwipTransition
    /\ RtosEnd => LwipEnd
    /\ RtosPowerLoss => LwipPowerLoss
<1>1. \A k, h : RtosSetupLine(k, h) => LwipSetupLine(k, h)
  BY DEF RtosSetupLine, LwipSetupLine
<1>2. (RtosReboot => LwipReboot) /\ (RtosEnd => LwipEnd)
  BY DEF RtosReboot, LwipReboot, RtosEnd, LwipEnd
<1>3. (RtosConnect => LwipConnect) /\ (RtosTop => LwipTop)
  BY DEF RtosConnect, LwipConnect, RtosTop, LwipTop
<1>4. RtosBrowse => LwipBrowse
  <2>1. RtosBeginClient([g EXCEPT !.browsing = FALSE])
          = LwipBeginClient([g EXCEPT !.browsing = FALSE])
    BY SharedHelpers
  <2> QED BY <2>1, Zenon DEF RtosBrowse, LwipBrowse
<1>5. RtosPeerGone => LwipPeerGone
  <2>1. RtosDestroySession(g) = LwipDestroySession(g)
    BY SharedHelpers
  <2> QED BY <2>1, Zenon DEF RtosPeerGone, LwipPeerGone
<1>6. RtosTransition => LwipTransition
  <2>1. RtosDestroySession(g) = LwipDestroySession(g)
    BY SharedHelpers
  <2> QED BY <2>1, Zenon DEF RtosTransition, LwipTransition
<1>7. RtosPowerLoss => LwipPowerLoss
  BY DEF RtosPowerLoss, LwipPowerLoss
<1> QED BY <1>1, <1>2, <1>3, <1>4, <1>5, <1>6, <1>7

-----------------------------------------------------------------------------
(* Types.                                                                   *)

LEMMA KeysTyped ==
    ASSUME program \in {"posix", "lwip", "rtos"}, NEW k \in KeysOf(program)
    PROVE  k \in Keys
  BY DEF KeysOf

\* The console's steps.
LEMMA ConsoleTypes ==
    ASSUME g \in Globals
    PROVE  /\ g.typed # <<>> => LineTaken \in Globals
           /\ TakesChar => g' \in Globals
           /\ program \in {"posix", "lwip", "rtos"} /\ Type => g' \in Globals
<1>1. g.typed \in Seq(Chars) /\ g.line \in Chars \cup {Blank}
  BY Zenon DEF Globals
<1>2. ASSUME g.typed # <<>> PROVE Head(g.typed) \in Chars /\ Tail(g.typed) \in Seq(Chars)
  BY <1>1, <1>2, HeadTailProperties
<1>3. ASSUME g.typed # <<>>
      PROVE  /\ LineTaken \in Globals
             /\ \A l \in Chars \cup {Blank} :
                  [g EXCEPT !.typed = Tail(g.typed), !.line = l] \in Globals
             /\ [g EXCEPT !.typed = Tail(g.typed)] \in Globals
  <2> DEFINE t == Tail(g.typed)
  <2>1. t \in Seq(Chars)
    BY <1>2, <1>3
  <2>2. LineTaken = [g EXCEPT !.typed = t, !.line = Blank]
    BY DEF LineTaken
  <2> HIDE DEF t
  <2>3. \A l \in Chars \cup {Blank} : [g EXCEPT !.typed = t, !.line = l] \in Globals
    BY <2>1, Zenon DEF Globals
  <2>4. [g EXCEPT !.typed = t] \in Globals
    BY <2>1, Zenon DEF Globals
  <2>5. Blank \in Chars \cup {Blank}
    OBVIOUS
  <2>6. LineTaken \in Globals
    BY <2>2, <2>3, <2>5
  <2> QED BY <2>3, <2>4, <2>6 DEF t
<1>4. ASSUME TakesChar PROVE g' \in Globals
  <2> DEFINE c == Head(g.typed)
             h == [g EXCEPT !.typed = Tail(g.typed)]
  <2>1. g.typed # <<>>
    BY <1>4 DEF TakesChar
  <2>2. g' = h \/ \E l \in Chars \cup {Blank} : g' = [h EXCEPT !.line = l]
    <3>1. c \in Chars
      BY <1>2, <2>1
    <3> HIDE DEF c
    <3>2. \/ g' = IF g.line = Blank THEN [h EXCEPT !.line = c] ELSE h
          \/ \E l \in {g.line, Blank} : g' = [h EXCEPT !.line = l]
      BY <1>4, Zenon DEF TakesChar, c
    <3> HIDE DEF h
    <3> QED BY <1>1, <3>1, <3>2
  <2>3. h \in Globals
    BY <1>3, <2>1
  <2> HIDE DEF h
  <2>4. \A l \in Chars \cup {Blank} : [h EXCEPT !.line = l] \in Globals
    BY <2>3, Zenon DEF Globals
  <2> QED BY <2>2, <2>3, <2>4
<1>5. ASSUME program \in {"posix", "lwip", "rtos"}, Type PROVE g' \in Globals
  <2>1. PICK k \in KeysOf(program) :
          g' = [g EXCEPT !.typed = Append(g.typed, [key |-> k, stale |-> FALSE])]
    BY <1>5, Zenon DEF Type
  <2> DEFINE c == [key |-> k, stale |-> FALSE]
             t == Append(g.typed, c)
  <2>2. c \in Chars
    <3>1. k \in Keys /\ FALSE \in BOOLEAN
      BY <1>5, KeysTyped
    <3> QED BY <3>1, Zenon DEF Chars
  <2> HIDE DEF c
  <2>3. t \in Seq(Chars)
    BY <1>1, <2>2, AppendProperties
  <2>4. g' = [g EXCEPT !.typed = t]
    BY <2>1 DEF c
  <2> HIDE DEF t
  <2>5. [g EXCEPT !.typed = t] \in Globals
    BY <2>3, Zenon DEF Globals
  <2> QED BY <2>4, <2>5
<1> QED BY <1>3, <1>4, <1>5

\* What a tick of the session does.
LEMMA TickTypes ==
    ASSUME NEW p \in Globals, NEW q \in Globals, NEW r \in SessionTick(p)
    PROVE  /\ r.state \in SessionStates \ {"none"} /\ r.wasUp \in BOOLEAN
           /\ onStateChange(q, r) \in Globals
<1>1. r.state \in SessionStates \ {"none"} /\ r.wasUp \in BOOLEAN
  <2> DEFINE S == SessionStates \ {"none"}
  <2>1. "Idle" \in S /\ FALSE \in BOOLEAN
    BY DEF SessionStates
  <2>2. \/ r \in {[state |-> "Idle", wasUp |-> FALSE]}
        \/ r \in [state : S, wasUp : BOOLEAN] \ [state : {"Established"}, wasUp : {FALSE}]
    BY Zenon DEF SessionTick
  <2> HIDE DEF S
  <2>3. \/ r = [state |-> "Idle", wasUp |-> FALSE]
        \/ r \in [state : S, wasUp : BOOLEAN]
    BY <2>2, Zenon
  <2>4. CASE r = [state |-> "Idle", wasUp |-> FALSE]
    <3>1. r.state = "Idle" /\ r.wasUp = FALSE
      BY <2>4, Zenon
    <3> QED BY <2>1, <3>1, Zenon DEF S
  <2>5. CASE r \in [state : S, wasUp : BOOLEAN]
    <3>1. r.state \in S /\ r.wasUp \in BOOLEAN
      BY <2>5, Zenon
    <3> QED BY <3>1, Zenon DEF S
  <2> QED BY <2>3, <2>4, <2>5
<1>2. q.up \in BOOLEAN /\ q.everUp \in BOOLEAN
  BY Zenon DEF Globals
<1> DEFINE u == q.up \/ r.wasUp
           e == q.everUp \/ r.wasUp
           s == r.state
<1>3. u \in BOOLEAN /\ e \in BOOLEAN /\ s \in SessionStates
  BY <1>1
<1>4. onStateChange(q, r) = [q EXCEPT !.session = s, !.up = u, !.everUp = e]
  BY DEF onStateChange
<1> HIDE DEF u, e, s
<1>5. [q EXCEPT !.session = s, !.up = u, !.everUp = e] \in Globals
  BY <1>3, Zenon DEF Globals
<1> QED BY <1>1, <1>4, <1>5


-----------------------------------------------------------------------------
(* What the helpers do to what the invariants speak of.                     *)

\* Everything about the session and the role but its state.
SameUse(p, q) ==
    /\ q.session = p.session /\ q.held = p.held /\ q.browsing = p.browsing
    /\ q.isHost = p.isHost /\ q.chosen = p.chosen

SameInput(p, q) == q.typed = p.typed /\ q.line = p.line

LEMMA BootFacts ==
    ASSUME NEW f
    PROVE  /\ Boot(f).state = "WIFI_SSID" /\ Boot(f).running /\ Boot(f).session = "none"
           /\ ~Boot(f).held /\ ~Boot(f).browsing /\ ~Boot(f).isHost
           /\ Boot(f).chosen = "none" /\ Boot(f).typed = <<>> /\ Boot(f).line = Blank
  BY Zenon DEF Boot

LEMMA DestroyFacts ==
    ASSUME NEW p \in Globals
    PROVE  /\ LET q == PosixDestroySession(p)
              IN  /\ q.session = "none" /\ q.state = p.state /\ q.running = p.running
                  /\ q.browsing = p.browsing /\ q.isHost = p.isHost /\ q.chosen = p.chosen
           /\ LET q == LwipDestroySession(p)
              IN  /\ q.session = "none" /\ q.state = p.state /\ q.running = p.running
                  /\ q.browsing = p.browsing /\ q.isHost = p.isHost /\ q.chosen = p.chosen
                  /\ (p.held <=> p.session # "none") => ~q.held
                  /\ SameInput(p, q)
<1>1. p.session # "none" \/ p.session = "none"
  OBVIOUS
<1>2. /\ PosixDestroySession(p).session = "none"
      /\ PosixDestroySession(p).state = p.state /\ PosixDestroySession(p).running = p.running
      /\ PosixDestroySession(p).browsing = p.browsing
      /\ PosixDestroySession(p).isHost = p.isHost /\ PosixDestroySession(p).chosen = p.chosen
  BY SMTT(20) DEF PosixDestroySession, Globals
<1>3. LET q == LwipDestroySession(p)
      IN  /\ q.session = "none" /\ q.state = p.state /\ q.running = p.running
          /\ q.browsing = p.browsing /\ q.isHost = p.isHost /\ q.chosen = p.chosen
          /\ (p.held <=> p.session # "none") => ~q.held
          /\ SameInput(p, q)
  BY SMTT(20) DEF LwipDestroySession, SameInput, Globals
<1> QED BY <1>2, <1>3

LEMMA InputFacts ==
    ASSUME NEW p \in Globals
    PROVE  /\ LET q == AgeInput(p)
              IN  SameUse(p, q) /\ q.state = p.state /\ q.running = p.running
           /\ LET q == FlushInput(p)
              IN  /\ SameUse(p, q) /\ q.state = p.state /\ q.running = p.running
                  /\ q.typed = <<>> /\ q.line = Blank
<1>1. LET q == AgeInput(p)
      IN  SameUse(p, q) /\ q.state = p.state /\ q.running = p.running
  <2> DEFINE t == [i \in DOMAIN p.typed |-> Aged(p.typed[i])]
             l == Aged(p.line)
  <2>1. AgeInput(p) = [p EXCEPT !.typed = t, !.line = l]
    BY Zenon DEF AgeInput
  <2> HIDE DEF t, l
  <2> QED BY <2>1, SMTT(20) DEF SameUse, Globals
<1>2. LET q == FlushInput(p)
      IN  /\ SameUse(p, q) /\ q.state = p.state /\ q.running = p.running
          /\ q.typed = <<>> /\ q.line = Blank
  BY SMTT(20) DEF FlushInput, SameUse, Globals
<1> QED BY <1>1, <1>2

LEMMA RoleFacts ==
    ASSUME NEW q \in Globals
    PROVE  /\ LET r == PosixHost(q)
              IN  /\ r.isHost /\ ~r.browsing /\ r.session = "Idle"
                  /\ r.state = "SESSION_RUN" /\ r.running = q.running /\ r.chosen = q.chosen
           /\ LET r == PosixClient(q)
              IN  /\ ~r.isHost /\ ~r.browsing /\ r.session = "Pending"
                  /\ r.state = "SESSION_RUN" /\ r.running = q.running /\ r.chosen = q.chosen
           /\ LET r == BoardHost(q)
              IN  /\ r.isHost /\ r.browsing = q.browsing /\ r.session = "Idle" /\ r.held
                  /\ r.state = "SESSION_RUN" /\ r.running = q.running /\ r.chosen = q.chosen
                  /\ SameInput(q, r)
           /\ LET r == BoardClient(q)
              IN  /\ ~r.isHost /\ r.browsing = q.browsing /\ r.session = "Pending" /\ r.held
                  /\ r.state = "SESSION_RUN" /\ r.running = q.running /\ r.chosen = q.chosen
                  /\ SameInput(q, r)
<1>1. LET r == PosixHost(q)
      IN  /\ r.isHost /\ ~r.browsing /\ r.session = "Idle"
          /\ r.state = "SESSION_RUN" /\ r.running = q.running /\ r.chosen = q.chosen
  BY SMTT(20) DEF PosixHost, Globals
<1>2. LET r == PosixClient(q)
      IN  /\ ~r.isHost /\ ~r.browsing /\ r.session = "Pending"
          /\ r.state = "SESSION_RUN" /\ r.running = q.running /\ r.chosen = q.chosen
  BY SMTT(20) DEF PosixClient, Globals
<1>3. LET r == BoardHost(q)
      IN  /\ r.isHost /\ r.browsing = q.browsing /\ r.session = "Idle" /\ r.held
          /\ r.state = "SESSION_RUN" /\ r.running = q.running /\ r.chosen = q.chosen
          /\ SameInput(q, r)
  BY SMTT(20) DEF BoardHost, SameInput, Globals
<1>4. LET r == BoardClient(q)
      IN  /\ ~r.isHost /\ r.browsing = q.browsing /\ r.session = "Pending" /\ r.held
          /\ r.state = "SESSION_RUN" /\ r.running = q.running /\ r.chosen = q.chosen
          /\ SameInput(q, r)
  BY SMTT(20) DEF BoardClient, SameInput, Globals
<1> QED BY <1>1, <1>2, <1>3, <1>4

LEMMA BeginFacts ==
    ASSUME NEW p \in Globals
    PROVE  /\ LET r == PosixBeginHost(p)
              IN  /\ r.isHost /\ ~r.browsing /\ r.state = "SESSION_RUN"
                  /\ r.running = p.running /\ r.chosen = p.chosen
           /\ LET r == PosixBeginClient(p)
              IN  /\ ~r.isHost /\ ~r.browsing /\ r.state = "SESSION_RUN"
                  /\ r.running = p.running /\ r.chosen = p.chosen
           /\ LET r == LwipBeginHost(p)
              IN  /\ r.isHost /\ r.browsing = p.browsing /\ r.session = "Idle" /\ r.held
                  /\ r.state = "SESSION_RUN" /\ r.running = p.running /\ r.chosen = p.chosen
                  /\ r.typed = <<>> /\ r.line = Blank
           /\ LET r == LwipBeginClient(p)
              IN  /\ ~r.isHost /\ r.browsing = p.browsing /\ r.session = "Pending" /\ r.held
                  /\ r.state = "SESSION_RUN" /\ r.running = p.running /\ r.chosen = p.chosen
                  /\ r.typed = <<>> /\ r.line = Blank
<1> DEFINE u == PosixDestroySession(p)
           q == AgeInput(u)
           v == LwipDestroySession(p)
           w == AgeInput(v)
           r == FlushInput(w)
<1>1. u \in Globals /\ q \in Globals /\ v \in Globals /\ w \in Globals /\ r \in Globals
  BY HelperTypes
<1>2. /\ PosixBeginHost(p) = PosixHost(q) /\ PosixBeginClient(p) = PosixClient(q)
      /\ LwipBeginHost(p) = BoardHost(r) /\ LwipBeginClient(p) = BoardClient(r)
  BY DEF PosixBeginHost, PosixBeginClient, LwipBeginHost, LwipBeginClient, PosixHost,
         PosixClient, BoardHost, BoardClient
<1>3. q.running = p.running /\ q.chosen = p.chosen
  <2>1. u.running = p.running /\ u.chosen = p.chosen
    BY DestroyFacts
  <2> HIDE DEF u
  <2>2. q.running = u.running /\ q.chosen = u.chosen
    BY <1>1, InputFacts DEF SameUse
  <2> QED BY <2>1, <2>2
<1>4. /\ r.browsing = p.browsing /\ r.running = p.running /\ r.chosen = p.chosen
      /\ r.typed = <<>> /\ r.line = Blank
  <2>1. v.browsing = p.browsing /\ v.running = p.running /\ v.chosen = p.chosen
    BY DestroyFacts
  <2> HIDE DEF v
  <2>2. w.browsing = v.browsing /\ w.running = v.running /\ w.chosen = v.chosen
    BY <1>1, InputFacts DEF SameUse
  <2> HIDE DEF w
  <2>3. /\ r.browsing = w.browsing /\ r.running = w.running /\ r.chosen = w.chosen
        /\ r.typed = <<>> /\ r.line = Blank
    BY <1>1, InputFacts DEF SameUse
  <2> QED BY <2>1, <2>2, <2>3
<1> HIDE DEF q, r
<1>5. /\ LET s == PosixHost(q)
         IN  /\ s.isHost /\ ~s.browsing /\ s.state = "SESSION_RUN"
             /\ s.running = p.running /\ s.chosen = p.chosen
      /\ LET s == PosixClient(q)
         IN  /\ ~s.isHost /\ ~s.browsing /\ s.state = "SESSION_RUN"
             /\ s.running = p.running /\ s.chosen = p.chosen
  BY <1>1, <1>3, RoleFacts
<1>6. /\ LET s == BoardHost(r)
         IN  /\ s.isHost /\ s.browsing = p.browsing /\ s.session = "Idle" /\ s.held
             /\ s.state = "SESSION_RUN" /\ s.running = p.running /\ s.chosen = p.chosen
             /\ s.typed = <<>> /\ s.line = Blank
      /\ LET s == BoardClient(r)
         IN  /\ ~s.isHost /\ s.browsing = p.browsing /\ s.session = "Pending" /\ s.held
             /\ s.state = "SESSION_RUN" /\ s.running = p.running /\ s.chosen = p.chosen
             /\ s.typed = <<>> /\ s.line = Blank
  BY <1>1, <1>4, RoleFacts DEF SameInput
<1> QED BY <1>2, <1>5, <1>6

LEMMA ResolveFacts ==
    ASSUME NEW p \in Globals
    PROVE  /\ LET r == PosixStartResolve(p)
              IN  /\ r.state = "MDNS_RESOLVE" /\ r.session = p.session /\ r.browsing
                  /\ r.isHost = p.isHost /\ r.chosen = p.chosen
           /\ LET r == LwipStartResolve(p)
              IN  /\ r.state = "MDNS_RESOLVE" /\ r.session = p.session /\ r.browsing
                  /\ r.isHost = p.isHost /\ r.chosen = p.chosen /\ r.held = p.held
                  /\ SameInput(p, r)
  BY SMTT(20) DEF PosixStartResolve, LwipStartResolve, SameInput, Globals

\* What the console's steps leave alone.
Fresh(p) ==
    /\ ~p.line.stale
    /\ \A i \in 1 .. Len(p.typed) : ~p.typed[i].stale

SameButInput(p, q) == SameUse(p, q) /\ q.state = p.state /\ q.running = p.running

LEMMA FreshFacts ==
    ASSUME NEW p \in Globals, NEW q \in Globals
    PROVE  /\ q.typed = <<>> /\ q.line = Blank => Fresh(q)
           /\ SameInput(p, q) /\ Fresh(p) => Fresh(q)
<1>1. ~Blank.stale
  BY Zenon DEF Blank
<1>2. Len(<<>>) = 0 /\ \A i \in 1 .. 0 : FALSE
  OBVIOUS
<1>3. ASSUME q.typed = <<>>, q.line = Blank PROVE Fresh(q)
  BY <1>1, <1>2, <1>3, Zenon DEF Fresh
<1>4. ASSUME SameInput(p, q), Fresh(p) PROVE Fresh(q)
  BY <1>4, Zenon DEF SameInput, Fresh
<1> QED BY <1>3, <1>4

LEMMA ConsoleFacts ==
    ASSUME g \in Globals
    PROVE  /\ g.typed # <<>> =>
                /\ SameButInput(g, LineTaken)
                /\ Fresh(g) => Fresh(LineTaken)
           /\ TakesChar =>
                /\ SameButInput(g, g')
                /\ Fresh(g) => Fresh(g')
           /\ program \in {"posix", "lwip", "rtos"} /\ Type =>
                /\ SameButInput(g, g')
                /\ Fresh(g) => Fresh(g')
<1>1. g.typed \in Seq(Chars) /\ g.line \in Chars \cup {Blank} /\ ~Blank.stale
  <2>1. ~Blank.stale
    BY Zenon DEF Blank
  <2> QED BY <2>1, Zenon DEF Globals
<1>2. ASSUME NEW t, NEW l
      PROVE  /\ SameButInput(g, [g EXCEPT !.typed = t, !.line = l])
             /\ [g EXCEPT !.typed = t, !.line = l].typed = t
             /\ [g EXCEPT !.typed = t, !.line = l].line = l
             /\ SameButInput(g, [g EXCEPT !.typed = t])
             /\ [g EXCEPT !.typed = t].typed = t
             /\ [g EXCEPT !.typed = t].line = g.line
  BY SMTT(20) DEF SameButInput, SameUse, Globals
<1>3. ASSUME g.typed # <<>>, Fresh(g)
      PROVE  /\ ~Head(g.typed).stale
             /\ \A i \in 1 .. Len(Tail(g.typed)) : ~Tail(g.typed)[i].stale
  <2> DEFINE n == Len(g.typed)
  <2>1. \A i \in 1 .. n : ~g.typed[i].stale
    BY <1>3 DEF Fresh
  <2>2. /\ n \in Nat /\ n # 0 /\ Head(g.typed) = g.typed[1] /\ Len(Tail(g.typed)) = n - 1
        /\ \A i \in 1 .. n - 1 : Tail(g.typed)[i] = g.typed[i + 1]
    BY <1>1, <1>3
  <2> HIDE DEF n
  <2>3. 1 \in 1 .. n /\ \A i \in 1 .. n - 1 : i + 1 \in 1 .. n
    BY <2>2
  <2>4. ~Head(g.typed).stale
    BY <2>1, <2>2, <2>3, Zenon
  <2>5. \A i \in 1 .. n - 1 : ~Tail(g.typed)[i].stale
    BY <2>1, <2>2, <2>3, Zenon
  <2> QED BY <2>2, <2>4, <2>5
<1>4. ASSUME g.typed # <<>>
      PROVE  SameButInput(g, LineTaken) /\ (Fresh(g) => Fresh(LineTaken))
  <2> DEFINE t == Tail(g.typed)
  <2>1. LineTaken = [g EXCEPT !.typed = t, !.line = Blank]
    BY DEF LineTaken
  <2>2. Fresh(g) => \A i \in 1 .. Len(t) : ~t[i].stale
    BY <1>3, <1>4
  <2> HIDE DEF t
  <2>3. SameButInput(g, LineTaken) /\ LineTaken.typed = t /\ LineTaken.line = Blank
    BY <1>2, <2>1
  <2> QED BY <1>1, <2>2, <2>3, Zenon DEF Fresh
<1>5. ASSUME TakesChar PROVE SameButInput(g, g') /\ (Fresh(g) => Fresh(g'))
  <2> DEFINE t == Tail(g.typed)
             c == Head(g.typed)
  <2>1. g.typed # <<>>
    BY <1>5 DEF TakesChar
  <2>2. \/ g' = IF g.line = Blank THEN [g EXCEPT !.typed = t, !.line = c]
                                  ELSE [g EXCEPT !.typed = t]
        \/ \E l \in {g.line, Blank} : g' = [g EXCEPT !.typed = t, !.line = l]
    <3> DEFINE h == [g EXCEPT !.typed = t]
    <3>1. \A l : [h EXCEPT !.line = l] = [g EXCEPT !.typed = t, !.line = l]
      OBVIOUS
    <3>2. \/ g' = IF g.line = Blank THEN [h EXCEPT !.line = c] ELSE h
          \/ \E l \in {g.line, Blank} : g' = [h EXCEPT !.line = l]
      BY <1>5, Zenon DEF TakesChar
    <3> HIDE DEF t, c
    <3> QED BY <3>1, <3>2
  <2>3. Fresh(g) => ~c.stale /\ ~g.line.stale /\ \A i \in 1 .. Len(t) : ~t[i].stale
    BY <1>3, <2>1, Zenon DEF Fresh
  <2> HIDE DEF t, c
  <2>4. CASE g' = [g EXCEPT !.typed = t]
    <3>1. SameButInput(g, g') /\ g'.typed = t /\ g'.line = g.line
      BY <1>2, <2>4
    <3> QED BY <2>3, <3>1, Zenon DEF Fresh
  <2>5. ASSUME NEW l \in {g.line, c, Blank}, g' = [g EXCEPT !.typed = t, !.line = l]
        PROVE  SameButInput(g, g') /\ (Fresh(g) => Fresh(g'))
    <3> DEFINE q == [g EXCEPT !.typed = t, !.line = l]
    <3>0. SameButInput(g, q) /\ q.typed = t /\ q.line = l
      BY SMTT(20) DEF SameButInput, SameUse, Globals
    <3>1. SameButInput(g, g') /\ g'.typed = t /\ g'.line = l
      <4> HIDE DEF q
      <4>1. g' = q
        BY <2>5 DEF q
      <4> QED BY <3>0, <4>1, Zenon
    <3>2. Fresh(g) => ~l.stale
      BY <1>1, <2>3, Zenon
    <3> QED BY <2>3, <3>1, <3>2, Zenon DEF Fresh
  <2> QED BY <2>2, <2>4, <2>5
<1>6. ASSUME program \in {"posix", "lwip", "rtos"}, Type
      PROVE  SameButInput(g, g') /\ (Fresh(g) => Fresh(g'))
  <2>1. PICK k \in KeysOf(program) :
          g' = [g EXCEPT !.typed = Append(g.typed, [key |-> k, stale |-> FALSE])]
    BY <1>6, Zenon DEF Type
  <2> DEFINE c == [key |-> k, stale |-> FALSE]
             t == Append(g.typed, c)
             n == Len(g.typed)
  <2>2. c \in Chars /\ ~c.stale
    <3>1. k \in Keys /\ FALSE \in BOOLEAN
      BY <1>6, KeysTyped
    <3>2. ~c.stale
      BY Zenon
    <3> QED BY <3>1, <3>2, Zenon DEF Chars
  <2>3. g' = [g EXCEPT !.typed = t]
    BY <2>1
  <2> HIDE DEF c
  <2>4. /\ n \in Nat /\ Len(t) = n + 1 /\ t[n + 1] = c
        /\ \A i \in 1 .. n : t[i] = g.typed[i]
    BY <1>1, <2>2, AppendProperties
  <2>5. Fresh(g) => \A i \in 1 .. n : ~g.typed[i].stale
    BY DEF Fresh
  <2> HIDE DEF t, n
  <2>6. ASSUME Fresh(g), NEW i \in 1 .. Len(t) PROVE ~t[i].stale
    <3>1. i \in 1 .. n \/ i = n + 1
      BY <2>4
    <3> QED BY <2>2, <2>4, <2>5, <2>6, <3>1, Zenon
  <2>7. SameButInput(g, g') /\ g'.typed = t /\ g'.line = g.line
    BY <1>2, <2>3
  <2> QED BY <2>6, <2>7, Zenon DEF Fresh
<1> QED BY <1>4, <1>5, <1>6

-----------------------------------------------------------------------------
(* The boards.  BoardSound: a browse and a session have their states, what  *)
(* is held is held for a session, and nothing typed before a session began  *)
(* is left.  RoleSound, for the FreeRTOS program: from the passphrase on,   *)
(* gIsHost is the role picked, and who searches for a host is no host.      *)

BoardSound(p) ==
    /\ p.browsing => p.state = "MDNS_RESOLVE"
    /\ p.session # "none" => p.state = "SESSION_RUN"
    /\ p.held <=> p.session # "none"
    /\ Fresh(p)

RoleStates == {"AUTH_PASS", "MDNS_RESOLVE", "CLIENT_IP", "SESSION_RUN", "REPEAT_PROMPT"}

RoleSound(p) ==
    /\ p.state \in RoleStates => (p.isHost <=> p.chosen = "host")
    /\ p.state \in {"MDNS_RESOLVE", "CLIENT_IP"} => ~p.isHost

\* A good step leads from globals p to globals q.
Good(p, q) == q \in Globals /\ BoardSound(q) /\ (RoleSound(p) => RoleSound(q))

LEMMA GoodTransitive ==
    ASSUME NEW p, NEW q, NEW r, Good(p, q), Good(q, r) PROVE Good(p, r)
  BY Zenon DEF Good

LEMMA BootGood ==
    ASSUME NEW p, NEW f \in FlashRecords
    PROVE  Good(p, Boot(f)) /\ RoleSound(Boot(f))
<1>1. Boot(f) \in Globals
  BY BootTypes
<1>2. Fresh(Boot(f))
  BY <1>1, BootFacts, FreshFacts
<1>3. BoardSound(Boot(f))
  BY <1>2, BootFacts, Zenon DEF BoardSound
<1>4. RoleSound(Boot(f))
  BY BootFacts, SMTT(20) DEF RoleSound, RoleStates
<1> QED BY <1>1, <1>3, <1>4, Zenon DEF Good

\* What begins a session or the search for one.
LEMMA BeginGood ==
    ASSUME NEW p \in Globals, BoardSound(p)
    PROVE  /\ ~p.browsing /\ p.chosen = "host" => Good(p, LwipBeginHost(p))
           /\ ~p.browsing => /\ LwipBeginHost(p) \in Globals /\ BoardSound(LwipBeginHost(p))
                             /\ LwipBeginClient(p) \in Globals /\ BoardSound(LwipBeginClient(p))
           /\ ~p.browsing /\ p.chosen # "host" => Good(p, LwipBeginClient(p))
           /\ p.session = "none" =>
                LwipStartResolve(p) \in Globals /\ BoardSound(LwipStartResolve(p))
           /\ p.session = "none" /\ ~p.isHost /\ p.chosen # "host" =>
                Good(p, LwipStartResolve(p))
           /\ p.state = "REPEAT_PROMPT" => Good(p, LwipAgain(p))
<1> DEFINE bh == LwipBeginHost(p)
           bc == LwipBeginClient(p)
           sr == LwipStartResolve(p)
<1>1. bh \in Globals /\ bc \in Globals /\ sr \in Globals
  BY BeginTypes, HelperTypes
<1>2. /\ bh.isHost /\ bh.browsing = p.browsing /\ bh.session = "Idle" /\ bh.held
      /\ bh.state = "SESSION_RUN" /\ bh.chosen = p.chosen
      /\ bh.typed = <<>> /\ bh.line = Blank
      /\ ~bc.isHost /\ bc.browsing = p.browsing /\ bc.session = "Pending" /\ bc.held
      /\ bc.state = "SESSION_RUN" /\ bc.chosen = p.chosen
      /\ bc.typed = <<>> /\ bc.line = Blank
  BY BeginFacts, Zenon
<1>3. /\ sr.state = "MDNS_RESOLVE" /\ sr.session = p.session /\ sr.browsing
      /\ sr.isHost = p.isHost /\ sr.chosen = p.chosen /\ sr.held = p.held
      /\ SameInput(p, sr)
  BY ResolveFacts, Zenon
<1>4. LwipAgain(p) = IF p.isHost THEN bh ELSE IF p.lastHost THEN bc ELSE sr
  BY DEF LwipAgain
<1> HIDE DEF bh, bc, sr
<1>5. Fresh(bh) /\ Fresh(bc) /\ Fresh(sr)
  <2>1. Fresh(p)
    BY DEF BoardSound
  <2> QED BY <1>1, <1>2, <1>3, <2>1, FreshFacts
<1>6. ~p.browsing => BoardSound(bh) /\ BoardSound(bc)
  BY <1>2, <1>5, SMTT(20) DEF BoardSound
<1>7. p.session = "none" => BoardSound(sr)
  BY <1>3, <1>5, SMTT(20) DEF BoardSound
<1>8. p.chosen = "host" => RoleSound(bh)
  BY <1>2, SMTT(20) DEF RoleSound, RoleStates
<1>9. p.chosen # "host" => RoleSound(bc)
  BY <1>2, SMTT(20) DEF RoleSound, RoleStates
<1>10. ~p.isHost /\ p.chosen # "host" => RoleSound(sr)
  BY <1>3, SMTT(20) DEF RoleSound, RoleStates
<1>11. p.state = "REPEAT_PROMPT" => Good(p, LwipAgain(p))
  <2> SUFFICES ASSUME p.state = "REPEAT_PROMPT" PROVE Good(p, LwipAgain(p))
    OBVIOUS
  <2>1. ~p.browsing /\ p.session = "none"
    BY SMTT(20) DEF BoardSound
  <2>2. RoleSound(p) => (p.isHost <=> p.chosen = "host")
    BY SMTT(20) DEF RoleSound, RoleStates
  <2>3. CASE p.isHost
    BY <1>1, <1>4, <1>6, <1>8, <2>1, <2>2, <2>3, Zenon DEF Good
  <2>4. CASE ~p.isHost /\ p.lastHost
    BY <1>1, <1>4, <1>6, <1>9, <2>1, <2>2, <2>4, Zenon DEF Good
  <2>5. CASE ~p.isHost /\ ~p.lastHost
    BY <1>1, <1>4, <1>7, <1>10, <2>1, <2>2, <2>5, Zenon DEF Good
  <2> QED BY <2>3, <2>4, <2>5
<1> QED BY <1>1, <1>6, <1>7, <1>8, <1>9, <1>10, <1>11, Zenon DEF Good, bh, bc, sr

\* What gives up a search, a session or the program.
LEMMA GiveUpGood ==
    ASSUME NEW p \in Globals, BoardSound(p)
    PROVE  /\ Good(p, [p EXCEPT !.running = FALSE])
           /\ Good(p, [p EXCEPT !.dropping = TRUE])
           /\ p.state = "MDNS_RESOLVE" =>
                /\ Good(p, [p EXCEPT !.browsing = FALSE, !.running = FALSE,
                                     !.state = "SESSION_RUN"])
                /\ Good(p, [p EXCEPT !.browsing = FALSE, !.state = "CLIENT_IP"])
                /\ Good(p, [p EXCEPT !.browsing = FALSE])
<1>1. ASSUME NEW q \in Globals, SameInput(p, q) PROVE Fresh(q)
  BY <1>1, FreshFacts DEF BoardSound
<1>2. Good(p, [p EXCEPT !.running = FALSE])
  <2> DEFINE q == [p EXCEPT !.running = FALSE]
  <2>1. q \in Globals
    BY Values, Zenon DEF Globals
  <2>2. SameUse(p, q) /\ SameInput(p, q) /\ q.state = p.state
    BY SMTT(20) DEF SameUse, SameInput, Globals
  <2> HIDE DEF q
  <2>3. Fresh(q)
    BY <1>1, <2>1, <2>2
  <2>4. BoardSound(q) /\ (RoleSound(p) => RoleSound(q))
    BY <2>2, <2>3, SMTT(20) DEF SameUse, BoardSound, RoleSound
  <2> QED BY <2>1, <2>4 DEF Good, q
<1>3. Good(p, [p EXCEPT !.dropping = TRUE])
  <2> DEFINE q == [p EXCEPT !.dropping = TRUE]
  <2>1. q \in Globals
    BY Values, Zenon DEF Globals
  <2>2. SameUse(p, q) /\ SameInput(p, q) /\ q.state = p.state
    BY SMTT(20) DEF SameUse, SameInput, Globals
  <2> HIDE DEF q
  <2>3. Fresh(q)
    BY <1>1, <2>1, <2>2
  <2>4. BoardSound(q) /\ (RoleSound(p) => RoleSound(q))
    BY <2>2, <2>3, SMTT(20) DEF SameUse, BoardSound, RoleSound
  <2> QED BY <2>1, <2>4 DEF Good, q
<1>4. ASSUME p.state = "MDNS_RESOLVE"
      PROVE  /\ Good(p, [p EXCEPT !.browsing = FALSE, !.running = FALSE,
                                  !.state = "SESSION_RUN"])
             /\ Good(p, [p EXCEPT !.browsing = FALSE, !.state = "CLIENT_IP"])
             /\ Good(p, [p EXCEPT !.browsing = FALSE])
  <2> DEFINE q == [p EXCEPT !.browsing = FALSE, !.running = FALSE, !.state = "SESSION_RUN"]
             r == [p EXCEPT !.browsing = FALSE, !.state = "CLIENT_IP"]
             s == [p EXCEPT !.browsing = FALSE]
  <2>1. q \in Globals /\ r \in Globals /\ s \in Globals
    <3>1. q \in Globals
      BY Values, Zenon DEF Globals
    <3>2. r \in Globals
      BY Values, Zenon DEF Globals
    <3>3. s \in Globals
      BY Values, Zenon DEF Globals
    <3> QED BY <3>1, <3>2, <3>3
  <2>2. /\ SameInput(p, q) /\ ~q.browsing /\ q.state = "SESSION_RUN" /\ q.session = p.session
        /\ q.held = p.held /\ q.isHost = p.isHost /\ q.chosen = p.chosen
    BY SMTT(20) DEF SameInput, Globals
  <2>3. /\ SameInput(p, r) /\ ~r.browsing /\ r.state = "CLIENT_IP" /\ r.session = p.session
        /\ r.held = p.held /\ r.isHost = p.isHost /\ r.chosen = p.chosen
    BY SMTT(20) DEF SameInput, Globals
  <2>4. /\ SameInput(p, s) /\ ~s.browsing /\ s.state = p.state /\ s.session = p.session
        /\ s.held = p.held /\ s.isHost = p.isHost /\ s.chosen = p.chosen
    BY SMTT(20) DEF SameInput, Globals
  <2> HIDE DEF q, r, s
  <2>5. Fresh(q) /\ Fresh(r) /\ Fresh(s)
    BY <1>1, <2>1, <2>2, <2>3, <2>4
  <2>6. BoardSound(q) /\ BoardSound(r) /\ BoardSound(s)
    BY <1>4, <2>2, <2>3, <2>4, <2>5, SMTT(20) DEF BoardSound
  <2>7. RoleSound(p) => RoleSound(q) /\ RoleSound(r) /\ RoleSound(s)
    BY <1>4, <2>2, <2>3, <2>4, SMTT(20) DEF RoleSound, RoleStates
  <2> QED BY <2>1, <2>6, <2>7 DEF Good, q, r, s
<1> QED BY <1>2, <1>3, <1>4

\* What ends a session, or comes back from where there is none.
LEMMA EndGood ==
    ASSUME NEW p \in Globals, BoardSound(p)
    PROVE  /\ Good(p, [LwipDestroySession(p) EXCEPT !.running = FALSE])
           /\ p.state = "SESSION_RUN" =>
                Good(p, [LwipDestroySession(p) EXCEPT !.running = TRUE,
                                                      !.state = "REPEAT_PROMPT"])
           /\ p.state = "REPEAT_PROMPT" =>
                Good(p, [LwipDestroySession(p) EXCEPT !.state = "ROLE_SELECT"])
<1> DEFINE d == LwipDestroySession(p)
<1>1. d \in Globals
  BY HelperTypes
<1>2. /\ d.session = "none" /\ d.state = p.state /\ d.browsing = p.browsing
      /\ d.isHost = p.isHost /\ d.chosen = p.chosen /\ ~d.held /\ SameInput(p, d)
  BY DestroyFacts, Zenon DEF BoardSound
<1> HIDE DEF d
<1>3. Fresh(d)
  BY <1>1, <1>2, FreshFacts DEF BoardSound
<1>4. BoardSound(d) /\ (RoleSound(p) => RoleSound(d))
  BY <1>2, <1>3, SMTT(20) DEF BoardSound, RoleSound
<1>5. Good(p, [d EXCEPT !.running = FALSE])
  <2>1. Good(p, d)
    BY <1>1, <1>4 DEF Good
  <2>2. Good(d, [d EXCEPT !.running = FALSE])
    BY <1>1, <1>4, GiveUpGood
  <2> QED BY <2>1, <2>2, GoodTransitive
<1>6. ASSUME p.state = "SESSION_RUN"
      PROVE  Good(p, [d EXCEPT !.running = TRUE, !.state = "REPEAT_PROMPT"])
  <2> DEFINE q == [d EXCEPT !.running = TRUE, !.state = "REPEAT_PROMPT"]
  <2>1. q \in Globals
    BY <1>1, Values, Zenon DEF Globals
  <2>2. /\ SameInput(d, q) /\ q.browsing = d.browsing /\ q.state = "REPEAT_PROMPT"
        /\ q.session = d.session /\ q.held = d.held /\ q.isHost = d.isHost
        /\ q.chosen = d.chosen
    BY <1>1, SMTT(20) DEF SameInput, Globals
  <2> HIDE DEF q
  <2>3. Fresh(q)
    BY <1>1, <1>3, <2>1, <2>2, FreshFacts
  <2>4. BoardSound(q) /\ (RoleSound(p) => RoleSound(q))
    BY <1>2, <1>4, <1>6, <2>2, <2>3, SMTT(20) DEF BoardSound, RoleSound, RoleStates
  <2> QED BY <2>1, <2>4 DEF Good, q
<1>7. ASSUME p.state = "REPEAT_PROMPT" PROVE Good(p, [d EXCEPT !.state = "ROLE_SELECT"])
  <2> DEFINE q == [d EXCEPT !.state = "ROLE_SELECT"]
  <2>1. q \in Globals
    BY <1>1, Values, Zenon DEF Globals
  <2>2. /\ SameInput(d, q) /\ q.browsing = d.browsing /\ q.state = "ROLE_SELECT"
        /\ q.session = d.session /\ q.held = d.held /\ q.isHost = d.isHost
        /\ q.chosen = d.chosen
    BY <1>1, SMTT(20) DEF SameInput, Globals
  <2> HIDE DEF q
  <2>3. Fresh(q)
    BY <1>1, <1>3, <2>1, <2>2, FreshFacts
  <2>4. BoardSound(q) /\ (RoleSound(p) => RoleSound(q))
    BY <1>2, <1>4, <1>7, <2>2, <2>3, SMTT(20) DEF BoardSound, RoleSound, RoleStates
  <2> QED BY <2>1, <2>4 DEF Good, q
<1> QED BY <1>5, <1>6, <1>7 DEF d

-----------------------------------------------------------------------------
(* The steps of the boards' programs.                                       *)

LEMMA ConsoleGood ==
    ASSUME g \in Globals, BoardSound(g)
    PROVE  /\ g.typed # <<>> => Good(g, LineTaken) /\ SameButInput(g, LineTaken)
           /\ TakesChar => Good(g, g') /\ SameButInput(g, g')
           /\ program \in {"posix", "lwip", "rtos"} /\ Type =>
                Good(g, g') /\ SameButInput(g, g')
<1>1. ASSUME NEW q \in Globals, SameButInput(g, q), Fresh(g) => Fresh(q)
      PROVE  Good(g, q)
  <2>1. Fresh(q)
    BY <1>1 DEF BoardSound
  <2>2. BoardSound(q) /\ (RoleSound(g) => RoleSound(q))
    BY <1>1, <2>1, SMTT(20) DEF SameButInput, SameUse, BoardSound, RoleSound
  <2> QED BY <2>2 DEF Good
<1>2. ASSUME g.typed # <<>> PROVE Good(g, LineTaken) /\ SameButInput(g, LineTaken)
  BY <1>1, <1>2, ConsoleTypes, ConsoleFacts, Zenon
<1>3. ASSUME TakesChar PROVE Good(g, g') /\ SameButInput(g, g')
  <2>1. g' \in Globals /\ SameButInput(g, g') /\ (Fresh(g) => Fresh(g'))
    BY <1>3, ConsoleTypes, ConsoleFacts, Zenon
  <2> QED BY <1>1, <2>1, Zenon
<1>4. ASSUME program \in {"posix", "lwip", "rtos"}, Type
      PROVE  Good(g, g') /\ SameButInput(g, g')
  <2>1. g' \in Globals /\ SameButInput(g, g') /\ (Fresh(g) => Fresh(g'))
    BY <1>4, ConsoleTypes, ConsoleFacts, Zenon
  <2> QED BY <1>1, <2>1, Zenon
<1> QED BY <1>2, <1>3, <1>4

\* From one prompt of the set-up to the next.
SetupStates == {"WIFI_SSID", "WIFI_PASS", "WIFI_CONNECTING", "STATIC_IP", "MDNS_NAME"}

LEMMA PromptGood ==
    ASSUME NEW p \in Globals, NEW q \in Globals, BoardSound(p),
           SameUse(p, q), SameInput(p, q),
           p.state \in SetupStates, q.state \in SetupStates \cup {"ROLE_SELECT", "DONE"}
    PROVE  Good(p, q)
<1>1. Fresh(q)
  BY FreshFacts DEF BoardSound
<1>2. BoardSound(q) /\ RoleSound(q)
  BY <1>1, SMTT(20) DEF SameUse, BoardSound, RoleSound, RoleStates, SetupStates
<1> QED BY <1>2 DEF Good

LEMMA SetupGood ==
    ASSUME NEW h \in Globals, BoardSound(h), flash \in FlashRecords, NEW k,
           LwipSetupLine(k, h)
    PROVE  Good(h, g') /\ flash' \in FlashRecords
<1>0. Good(h, h)
  BY DEF Good
<1>1. ASSUME NEW s \in SetupStates
      PROVE  /\ [h EXCEPT !.state = s] \in Globals
             /\ SameUse(h, [h EXCEPT !.state = s])
             /\ SameInput(h, [h EXCEPT !.state = s])
             /\ [h EXCEPT !.state = s].state = s
  <2>1. s \in States
    BY <1>1, Zenon DEF SetupStates, States
  <2>2. [h EXCEPT !.state = s] \in Globals
    BY <2>1, Zenon DEF Globals
  <2> QED BY <2>1, <2>2, SMTT(20) DEF SameUse, SameInput, Globals
<1>2. CASE /\ h.state \in {"WIFI_SSID", "WIFI_PASS"}
           /\ \/ g' = h
              \/ g' = [h EXCEPT !.state = "WIFI_CONNECTING"]
              \/ g' = [h EXCEPT !.state = "WIFI_PASS"]
           /\ flash' = flash
  <2>1. h.state \in SetupStates /\ "WIFI_CONNECTING" \in SetupStates /\ "WIFI_PASS" \in SetupStates
    BY <1>2, Zenon DEF SetupStates
  <2>2. Good(h, [h EXCEPT !.state = "WIFI_CONNECTING"]) /\ Good(h, [h EXCEPT !.state = "WIFI_PASS"])
    BY <1>1, <2>1, PromptGood
  <2> QED BY <1>0, <1>2, <2>2, Zenon
<1>3. CASE /\ h.state = "STATIC_IP"
           /\ \/ /\ g' = [h EXCEPT !.ip = (k = "addr"), !.state = "MDNS_NAME"]
                 /\ flash' = saveConfig(g')
              \/ g' = h /\ flash' = flash
  <2> DEFINE b == k = "addr"
             q == [h EXCEPT !.ip = b, !.state = "MDNS_NAME"]
  <2>1. b \in BOOLEAN
    OBVIOUS
  <2> HIDE DEF b
  <2>2. q \in Globals
    BY <2>1, Values, Zenon DEF Globals
  <2>3. SameUse(h, q) /\ SameInput(h, q) /\ q.state = "MDNS_NAME"
    BY <2>1, SMTT(20) DEF SameUse, SameInput, Globals
  <2>4. saveConfig(q) \in FlashRecords
    BY <2>2, SaveTypes
  <2>5. \/ g' = q /\ flash' = saveConfig(g')
        \/ g' = h /\ flash' = flash
    BY <1>3 DEF b
  <2> HIDE DEF q
  <2>6. Good(h, q)
    BY <1>3, <2>2, <2>3, PromptGood DEF SetupStates
  <2> QED BY <1>0, <2>4, <2>5, <2>6, Zenon
<1>4. CASE /\ h.state = "MDNS_NAME"
           /\ g' = [h EXCEPT !.name = TRUE, !.hasSaved = TRUE, !.state = "ROLE_SELECT"]
           /\ flash' = saveConfig(g')
  <2> DEFINE q == [h EXCEPT !.name = TRUE, !.hasSaved = TRUE, !.state = "ROLE_SELECT"]
  <2>2. q \in Globals
    BY Values, Zenon DEF Globals
  <2>3. SameUse(h, q) /\ SameInput(h, q) /\ q.state = "ROLE_SELECT"
    BY SMTT(20) DEF SameUse, SameInput, Globals
  <2>4. saveConfig(q) \in FlashRecords
    BY <2>2, SaveTypes
  <2>5. g' = q
    BY <1>4
  <2> HIDE DEF q
  <2>6. Good(h, q)
    BY <1>4, <2>2, <2>3, PromptGood DEF SetupStates
  <2> QED BY <1>4, <2>4, <2>5, <2>6, Zenon
<1> QED BY <1>2, <1>3, <1>4, Zenon DEF LwipSetupLine

\* Around a session; in the lwIP program, where the role is no more than picked.
LEMMA LwipSessionGood ==
    ASSUME NEW h \in Globals, BoardSound(h), NEW k, LwipSessionLine(k, h)
    PROVE  g' \in Globals /\ BoardSound(g')
<1>0. h.state # "MDNS_RESOLVE" => ~h.browsing
  BY SMTT(20) DEF BoardSound
<1>1. h.state # "SESSION_RUN" => h.session = "none"
  BY SMTT(20) DEF BoardSound
<1>2. ASSUME NEW q \in Globals, BoardSound(q), NEW c \in {"none", "host", "client"}
      PROVE  [q EXCEPT !.chosen = c] \in Globals /\ BoardSound([q EXCEPT !.chosen = c])
  <2> DEFINE r == [q EXCEPT !.chosen = c]
  <2>1. r \in Globals
    BY <1>2, Zenon DEF Globals
  <2>2. /\ SameInput(q, r) /\ r.browsing = q.browsing /\ r.state = q.state
        /\ r.session = q.session /\ r.held = q.held
    BY <1>2, SMTT(20) DEF SameInput, Globals
  <2> HIDE DEF r
  <2>3. Fresh(r)
    BY <1>2, <2>1, <2>2, FreshFacts DEF BoardSound
  <2>4. BoardSound(r)
    BY <1>2, <2>2, <2>3, SMTT(20) DEF BoardSound
  <2> QED BY <2>1, <2>4 DEF r
<1>3. CASE /\ h.state = "ROLE_SELECT"
           /\ \/ g' = [LwipBeginHost(h) EXCEPT !.chosen = "host"]
              \/ g' = [LwipStartResolve(h) EXCEPT !.chosen = "client"]
              \/ g' = h
  <2>1. ~h.browsing /\ h.session = "none"
    BY <1>0, <1>1, <1>3
  <2>2. /\ LwipBeginHost(h) \in Globals /\ BoardSound(LwipBeginHost(h))
        /\ LwipStartResolve(h) \in Globals /\ BoardSound(LwipStartResolve(h))
    BY <2>1, BeginGood
  <2>3. /\ [LwipBeginHost(h) EXCEPT !.chosen = "host"] \in Globals
        /\ BoardSound([LwipBeginHost(h) EXCEPT !.chosen = "host"])
        /\ [LwipStartResolve(h) EXCEPT !.chosen = "client"] \in Globals
        /\ BoardSound([LwipStartResolve(h) EXCEPT !.chosen = "client"])
    BY <1>2, <2>2, Values
  <2> QED BY <1>3, <2>3, Zenon
<1>4. CASE /\ h.state = "MDNS_RESOLVE"
           /\ \/ g' = [h EXCEPT !.browsing = FALSE, !.running = FALSE, !.state = "SESSION_RUN"]
              \/ g' = [h EXCEPT !.browsing = FALSE, !.state = "CLIENT_IP"]
  BY <1>4, GiveUpGood, Zenon DEF Good
<1>5. CASE h.state = "CLIENT_IP" /\ (g' = LwipBeginClient(h) \/ g' = h)
  <2>1. ~h.browsing
    BY <1>0, <1>5
  <2>2. LwipBeginClient(h) \in Globals /\ BoardSound(LwipBeginClient(h))
    BY <2>1, BeginGood
  <2> QED BY <1>5, <2>2, Zenon
<1>6. CASE g' = [h EXCEPT !.running = FALSE] \/ g' = h
  BY <1>6, GiveUpGood, Zenon DEF Good
<1>7. CASE /\ h.state = "REPEAT_PROMPT"
           /\ \/ g' = LwipAgain(h)
              \/ g' = [LwipDestroySession(h) EXCEPT !.state = "ROLE_SELECT"]
  BY <1>7, BeginGood, EndGood, Zenon DEF Good
<1> QED BY <1>3, <1>4, <1>5, <1>6, <1>7, Zenon DEF LwipSessionLine

\* The role and the passphrase in the FreeRTOS program.
LEMMA RtosRoleGood ==
    ASSUME NEW h \in Globals, BoardSound(h), NEW k, RtosRoleLine(k, h)
    PROVE  Good(h, g')
<1>0. h.state # "MDNS_RESOLVE" => ~h.browsing
  BY SMTT(20) DEF BoardSound
<1>1. h.state # "SESSION_RUN" => h.session = "none"
  BY SMTT(20) DEF BoardSound
<1>2. CASE h.state = "ROLE_SELECT"
  <2> DEFINE a == [h EXCEPT !.isHost = TRUE, !.chosen = "host", !.state = "AUTH_PASS"]
             b == [h EXCEPT !.isHost = FALSE, !.chosen = "client", !.state = "AUTH_PASS"]
  <2>1. a \in Globals
    BY Values, Zenon DEF Globals
  <2>2. b \in Globals
    BY Values, Zenon DEF Globals
  <2>3. /\ SameInput(h, a) /\ a.session = h.session /\ a.held = h.held
        /\ a.browsing = h.browsing /\ a.isHost /\ a.chosen = "host" /\ a.state = "AUTH_PASS"
    BY SMTT(20) DEF SameInput, Globals
  <2>4. /\ SameInput(h, b) /\ b.session = h.session /\ b.held = h.held
        /\ b.browsing = h.browsing /\ ~b.isHost /\ b.chosen = "client" /\ b.state = "AUTH_PASS"
    BY SMTT(20) DEF SameInput, Globals
  <2>5. g' = a \/ g' = b \/ g' = h
    BY <1>2, Zenon DEF RtosRoleLine
  <2> HIDE DEF a, b
  <2>6. Fresh(a) /\ Fresh(b)
    BY <2>1, <2>2, <2>3, <2>4, FreshFacts DEF BoardSound
  <2>7. BoardSound(a) /\ RoleSound(a)
    BY <1>0, <1>1, <1>2, <2>3, <2>6, SMTT(20) DEF BoardSound, RoleSound
  <2>8. BoardSound(b) /\ RoleSound(b)
    BY <1>0, <1>1, <1>2, <2>4, <2>6, SMTT(20) DEF BoardSound, RoleSound
  <2> QED BY <2>1, <2>2, <2>5, <2>7, <2>8, Zenon DEF Good
<1>3. CASE h.state = "AUTH_PASS"
  <2> DEFINE b == k # "blank"
             p == [h EXCEPT !.auth = b]
  <2>1. b \in BOOLEAN
    OBVIOUS
  <2>2. g' = IF h.isHost THEN LwipBeginHost(p) ELSE LwipStartResolve(p)
    <3>1. g' = IF h.isHost THEN RtosBeginHost(p) ELSE RtosStartResolve(p)
      BY <1>3, Zenon DEF RtosRoleLine
    <3> HIDE DEF p
    <3>2. RtosBeginHost(p) = LwipBeginHost(p) /\ RtosStartResolve(p) = LwipStartResolve(p)
      BY SharedHelpers
    <3> QED BY <3>1, <3>2, Zenon
  <2> HIDE DEF b
  <2>3. p \in Globals
    BY <2>1, Zenon DEF Globals
  <2>4. SameInput(h, p) /\ SameUse(h, p) /\ p.state = h.state
    BY SMTT(20) DEF SameInput, SameUse, Globals
  <2> HIDE DEF p
  <2>5. Fresh(p)
    BY <2>3, <2>4, FreshFacts DEF BoardSound
  <2>6. BoardSound(p) /\ (RoleSound(h) => RoleSound(p))
    BY <2>4, <2>5, SMTT(20) DEF SameUse, BoardSound, RoleSound
  <2>7. ~p.browsing /\ p.session = "none" /\ p.isHost = h.isHost /\ p.chosen = h.chosen
    BY <1>0, <1>1, <1>3, <2>4 DEF SameUse
  <2>8. RoleSound(h) => (h.isHost <=> h.chosen = "host")
    BY <1>3, SMTT(20) DEF RoleSound, RoleStates
  <2>9. /\ h.chosen = "host" => Good(p, LwipBeginHost(p))
        /\ LwipBeginHost(p) \in Globals /\ BoardSound(LwipBeginHost(p))
        /\ LwipStartResolve(p) \in Globals /\ BoardSound(LwipStartResolve(p))
        /\ ~h.isHost /\ h.chosen # "host" => Good(p, LwipStartResolve(p))
    BY <2>3, <2>6, <2>7, BeginGood
  <2>10. CASE h.isHost
    BY <2>2, <2>6, <2>8, <2>9, <2>10, Zenon DEF Good
  <2>11. CASE ~h.isHost
    BY <2>2, <2>6, <2>8, <2>9, <2>11, Zenon DEF Good
  <2> QED BY <2>10, <2>11
<1> QED BY <1>2, <1>3, Zenon DEF RtosRoleLine

LEMMA RtosSessionGood ==
    ASSUME NEW h \in Globals, BoardSound(h), NEW k, RtosSessionLine(k, h)
    PROVE  Good(h, g')
<1>0. h.state # "MDNS_RESOLVE" => ~h.browsing
  BY SMTT(20) DEF BoardSound
<1>1. Good(h, h)
  BY DEF Good
<1>2. CASE /\ h.state = "MDNS_RESOLVE"
           /\ \/ g' = [h EXCEPT !.browsing = FALSE, !.running = FALSE, !.state = "SESSION_RUN"]
              \/ g' = [h EXCEPT !.browsing = FALSE, !.state = "CLIENT_IP"]
  BY <1>2, GiveUpGood, Zenon
<1>3. CASE h.state = "CLIENT_IP" /\ (g' = RtosBeginClient(h) \/ g' = h)
  <2>1. ~h.browsing
    BY <1>0, <1>3
  <2>2. RtosBeginClient(h) = LwipBeginClient(h)
    BY SharedHelpers
  <2>3. RoleSound(h) => h.chosen # "host"
    BY <1>3, SMTT(20) DEF RoleSound, RoleStates
  <2>4. /\ LwipBeginClient(h) \in Globals /\ BoardSound(LwipBeginClient(h))
        /\ h.chosen # "host" => Good(h, LwipBeginClient(h))
    BY <2>1, BeginGood
  <2> QED BY <1>1, <1>3, <2>2, <2>3, <2>4, Zenon DEF Good
<1>4. CASE \/ g' = [h EXCEPT !.running = FALSE] \/ g' = [h EXCEPT !.dropping = TRUE]
           \/ g' = h
  BY <1>1, <1>4, GiveUpGood, Zenon
<1>5. CASE /\ h.state = "REPEAT_PROMPT"
           /\ \/ g' = RtosAgain(h)
              \/ g' = [RtosDestroySession(h) EXCEPT !.state = "ROLE_SELECT"]
  <2>1. RtosAgain(h) = LwipAgain(h) /\ RtosDestroySession(h) = LwipDestroySession(h)
    BY SharedHelpers
  <2>2. \/ g' = LwipAgain(h)
        \/ g' = [LwipDestroySession(h) EXCEPT !.state = "ROLE_SELECT"]
    BY <1>5, <2>1, Zenon
  <2> QED BY <1>5, <2>2, BeginGood, EndGood, Zenon
<1> QED BY <1>2, <1>3, <1>4, <1>5, Zenon DEF RtosSessionLine

Phases == {"top", "browse", "tick", "peer", "trans", "cli", "end"}

\* The loop is not left from a running session.
Offers(ph, p) == ph = "top" /\ ~p.running => p.state # "SESSION_RUN"

Ready ==
    g \in Globals /\ BoardSound(g) /\ flash \in FlashRecords /\ phase \in Phases
    /\ Offers(phase, g)

LEMMA RestartGood ==
    ASSUME Ready
    PROVE  /\ LwipReboot =>
                Good(g, g') /\ flash' \in FlashRecords /\ phase' \in Phases /\ Offers(phase', g')
           /\ LwipPowerLoss =>
                Good(g, g') /\ flash' \in FlashRecords /\ phase' \in Phases /\ Offers(phase', g')
<1>1. ASSUME NEW f \in FlashRecords
      PROVE  Good(g, Boot(f)) /\ Offers("top", Boot(f))
  BY <1>1, BootGood, BootFacts, Zenon DEF Offers
<1>2. ASSUME LwipReboot
      PROVE  Good(g, g') /\ flash' \in FlashRecords /\ phase' \in Phases /\ Offers(phase', g')
  <2>1. g' = Boot(flash) /\ flash' = flash /\ phase' = "top"
    BY <1>2, Zenon DEF LwipReboot
  <2>2. flash \in FlashRecords /\ "top" \in Phases
    BY Zenon DEF Ready, Phases
  <2> QED BY <1>1, <2>1, <2>2, Zenon
<1>3. ASSUME LwipPowerLoss
      PROVE  Good(g, g') /\ flash' \in FlashRecords /\ phase' \in Phases /\ Offers(phase', g')
  <2>1. g' = Boot(flash') /\ (flash' = flash \/ flash' = Erased) /\ phase' = "top"
    <3>1. flash' \in {flash} \cup (IF g.state \in {"WIFI_CONNECTING", "STATIC_IP", "MDNS_NAME"}
                                     THEN {Erased} ELSE {})
      BY <1>3, Zenon DEF LwipPowerLoss
    <3>2. flash' = flash \/ flash' = Erased
      BY <3>1
    <3> QED BY <1>3, <3>2, Zenon DEF LwipPowerLoss
  <2>2. flash' \in FlashRecords /\ "top" \in Phases
    BY <2>1, Values, Zenon DEF Ready, Phases
  <2> QED BY <1>1, <2>1, <2>2, Zenon
<1> QED BY <1>2, <1>3

LEMMA ConnectGood ==
    ASSUME Ready, LwipConnect
    PROVE  Good(g, g') /\ flash' \in FlashRecords /\ phase' \in Phases /\ Offers(phase', g')
<1> DEFINE s == IF g.hasSaved THEN "MDNS_NAME" ELSE "STATIC_IP"
           a == [g EXCEPT !.state = "DONE", !.running = FALSE]
           b == [g EXCEPT !.state = "WIFI_SSID"]
           c == [g EXCEPT !.hasSaved = TRUE, !.state = s]
<1>1. g \in Globals /\ BoardSound(g) /\ flash \in FlashRecords /\ phase \in Phases
  BY DEF Ready
<1>2. /\ g.state = "WIFI_CONNECTING" /\ phase' = phase
      /\ \/ g' = a /\ flash' = flash
         \/ g' = b /\ flash' = flash
         \/ g' = c /\ flash' = saveConfig(g)
  BY Zenon DEF LwipConnect
<1>3. s \in States /\ s \in SetupStates /\ s # "SESSION_RUN"
  BY DEF States, SetupStates
<1> HIDE DEF s
<1>4. a \in Globals
  BY <1>1, Values, Zenon DEF Globals
<1>5. b \in Globals
  BY <1>1, Values, Zenon DEF Globals
<1>6. c \in Globals
  BY <1>1, <1>3, Values, Zenon DEF Globals
<1>7. /\ SameUse(g, a) /\ SameInput(g, a) /\ a.state = "DONE"
      /\ SameUse(g, b) /\ SameInput(g, b) /\ b.state = "WIFI_SSID"
      /\ SameUse(g, c) /\ SameInput(g, c) /\ c.state = s
  BY <1>1, SMTT(20) DEF SameUse, SameInput, Globals
<1>8. saveConfig(g) \in FlashRecords
  BY <1>1, SaveTypes
<1> HIDE DEF a, b, c
<1>9. /\ g'.state \in SetupStates \cup {"DONE"} /\ g'.state # "SESSION_RUN"
      /\ g' \in Globals /\ SameUse(g, g') /\ SameInput(g, g') /\ flash' \in FlashRecords
  <2>1. "DONE" # "SESSION_RUN" /\ "WIFI_SSID" # "SESSION_RUN" /\ "WIFI_SSID" \in SetupStates
    BY DEF SetupStates
  <2>2. CASE g' = a /\ flash' = flash
    BY <1>1, <1>4, <1>7, <2>1, <2>2, Zenon
  <2>3. CASE g' = b /\ flash' = flash
    BY <1>1, <1>5, <1>7, <2>1, <2>3, Zenon
  <2>4. CASE g' = c /\ flash' = saveConfig(g)
    BY <1>3, <1>6, <1>7, <1>8, <2>1, <2>4, Zenon
  <2> QED BY <1>2, <2>2, <2>3, <2>4, Zenon
<1>10. Good(g, g')
  <2>1. g.state \in SetupStates
    BY <1>2 DEF SetupStates
  <2> QED BY <1>1, <1>9, <2>1, PromptGood
<1> QED BY <1>1, <1>2, <1>9, <1>10, Zenon DEF Offers

LEMMA RoundGood ==
    ASSUME Ready, LwipTop \/ LwipBrowse \/ LwipPeerGone \/ LwipTransition
    PROVE  Good(g, g') /\ flash' \in FlashRecords /\ phase' \in Phases /\ Offers(phase', g')
<1>1. g \in Globals /\ BoardSound(g) /\ flash \in FlashRecords /\ Good(g, g)
  BY DEF Ready, Good
<1>2. \A ph \in {"browse", "tick", "peer", "cli", "trans"} : ph \in Phases /\ Offers(ph, g')
  BY DEF Phases, Offers
<1>3. CASE LwipTop
  <2>1. g' = g /\ flash' = flash /\ phase' = "browse"
    BY <1>3, Zenon DEF LwipTop
  <2> QED BY <1>1, <1>2, <2>1, Zenon
<1>4. CASE LwipBrowse
  <2> DEFINE p == [g EXCEPT !.browsing = FALSE]
  <2>1. /\ flash' = flash /\ phase' = "tick"
        /\ \/ g' = g
           \/ g.state = "MDNS_RESOLVE" /\ g' = LwipBeginClient(p)
    BY <1>4, Zenon DEF LwipBrowse
  <2>2. ASSUME g.state = "MDNS_RESOLVE" PROVE Good(g, LwipBeginClient(p))
    <3>1. Good(g, p)
      BY <1>1, <2>2, GiveUpGood
    <3>2. p \in Globals /\ BoardSound(p)
      BY <3>1 DEF Good
    <3>3. ~p.browsing /\ p.chosen = g.chosen
      BY <1>1, SMTT(20) DEF Globals
    <3> HIDE DEF p
    <3>4. RoleSound(g) => p.chosen # "host"
      BY <2>2, <3>3, SMTT(20) DEF RoleSound, RoleStates
    <3>5. /\ LwipBeginClient(p) \in Globals /\ BoardSound(LwipBeginClient(p))
          /\ p.chosen # "host" => Good(p, LwipBeginClient(p))
      BY <3>2, <3>3, BeginGood
    <3> QED BY <3>1, <3>4, <3>5, Zenon DEF Good
  <2> HIDE DEF p
  <2> QED BY <1>1, <1>2, <2>1, <2>2, Zenon
<1>5. CASE LwipPeerGone
  <2>1. /\ flash' = flash /\ phase' = "cli"
        /\ \/ g' = g
           \/ g' = [LwipDestroySession(g) EXCEPT !.running = FALSE]
    BY <1>5, Zenon DEF LwipPeerGone
  <2>2. Good(g, [LwipDestroySession(g) EXCEPT !.running = FALSE])
    BY <1>1, EndGood
  <2> QED BY <1>1, <1>2, <2>1, <2>2, Zenon
<1>6. CASE LwipTransition
  <2> DEFINE d == LwipDestroySession(g)
             q == [d EXCEPT !.running = TRUE, !.state = "REPEAT_PROMPT"]
  <2>1. flash' = flash /\ phase' = "top"
    BY <1>6, Zenon DEF LwipTransition
  <2>2. "top" \in Phases
    BY DEF Phases
  <2>3. CASE ~g.running /\ g.state = "SESSION_RUN"
    <3>1. g' = q
      BY <1>6, <2>3, Zenon DEF LwipTransition
    <3>2. Good(g, q)
      BY <1>1, <2>3, EndGood
    <3>3. d \in Globals
      BY <1>1, HelperTypes
    <3> HIDE DEF d
    <3>4. q.running
      BY <3>3, SMTT(20) DEF Globals
    <3> QED BY <1>1, <2>1, <2>2, <3>1, <3>2, <3>4, Zenon DEF Offers
  <2>4. CASE g.running \/ g.state # "SESSION_RUN"
    <3>1. g' = g
      BY <1>6, <2>4, Zenon DEF LwipTransition
    <3> QED BY <1>1, <2>1, <2>2, <2>4, <3>1, Zenon DEF Offers
  <2> QED BY <2>3, <2>4
<1> QED BY <1>3, <1>4, <1>5, <1>6

LEMMA TickGood ==
    ASSUME Ready, LwipTick \/ RtosTick
    PROVE  Good(g, g') /\ flash' \in FlashRecords /\ phase' \in Phases /\ Offers(phase', g')
<1>1. g \in Globals /\ BoardSound(g) /\ flash \in FlashRecords /\ Good(g, g)
  BY DEF Ready, Good
<1>2. "peer" \in Phases /\ Offers("peer", g')
  BY DEF Phases, Offers
<1>3. flash' = flash /\ phase' = "peer"
  BY Zenon DEF LwipTick, RtosTick
<1>4. \/ g' = g
      \/ /\ g.session # "none"
         /\ \E r \in SessionTick(g), p \in RtosDrops(g) \cup {g} : g' = onStateChange(p, r)
  <2>1. CASE LwipTick
    BY <2>1, Zenon DEF LwipTick
  <2>2. CASE RtosTick
    BY <2>2, Zenon DEF RtosTick
  <2> QED BY <2>1, <2>2
<1>5. ASSUME NEW p \in RtosDrops(g) \cup {g}
      PROVE  p \in Globals /\ SameUse(g, p) /\ SameInput(g, p) /\ p.state = g.state
  <2>1. p = g \/ \E d \in BOOLEAN : p = [g EXCEPT !.dropping = d]
    <3>1. g.dropping \in BOOLEAN
      BY <1>1, Zenon DEF Globals
    <3>2. p = g \/ \E d \in {g.dropping, FALSE} : p = [g EXCEPT !.dropping = d]
      BY <1>5, Zenon DEF RtosDrops
    <3> QED BY <3>1, <3>2, Values, Zenon
  <2>2. CASE p = g
    BY <1>1, <2>2, Zenon DEF SameUse, SameInput
  <2>3. ASSUME NEW d \in BOOLEAN, p = [g EXCEPT !.dropping = d]
        PROVE  p \in Globals /\ SameUse(g, p) /\ SameInput(g, p) /\ p.state = g.state
    <3>1. [g EXCEPT !.dropping = d] \in Globals
      BY <1>1, <2>3, Zenon DEF Globals
    <3>2. LET q == [g EXCEPT !.dropping = d]
          IN  SameUse(g, q) /\ SameInput(g, q) /\ q.state = g.state
      BY <1>1, SMTT(20) DEF SameUse, SameInput, Globals
    <3> QED BY <2>3, <3>1, <3>2
  <2> QED BY <2>1, <2>2, <2>3
<1>6. ASSUME NEW r \in SessionTick(g), NEW p \in RtosDrops(g) \cup {g},
             g.session # "none"
      PROVE  Good(g, onStateChange(p, r))
  <2> DEFINE u == p.up \/ r.wasUp
             e == p.everUp \/ r.wasUp
             s == r.state
             q == onStateChange(p, r)
  <2>1. p \in Globals /\ SameUse(g, p) /\ SameInput(g, p) /\ p.state = g.state
    BY <1>5
  <2>2. s # "none" /\ q \in Globals
    BY <1>1, <2>1, TickTypes
  <2>3. q = [p EXCEPT !.session = s, !.up = u, !.everUp = e]
    BY DEF onStateChange
  <2> HIDE DEF q, u, e, s
  <2>4. /\ q.session = s /\ q.state = p.state /\ q.browsing = p.browsing /\ q.held = p.held
        /\ q.isHost = p.isHost /\ q.chosen = p.chosen /\ SameInput(p, q)
    BY <2>1, <2>3, SMTT(20) DEF SameInput, Globals
  <2>5. SameInput(g, q) /\ Fresh(g)
    BY <1>1, <2>1, <2>4 DEF SameInput, BoardSound
  <2>6. Fresh(q)
    BY <1>1, <2>2, <2>5, FreshFacts
  <2>7. BoardSound(q) /\ (RoleSound(g) => RoleSound(q))
    BY <1>1, <1>6, <2>1, <2>2, <2>4, <2>6, SMTT(20) DEF SameUse, BoardSound, RoleSound
  <2> QED BY <2>2, <2>7 DEF Good, q
<1>7. Good(g, g')
  BY <1>1, <1>4, <1>6, Zenon
<1> QED BY <1>1, <1>2, <1>3, <1>7, Zenon

LEMMA CliGood ==
    ASSUME Ready
    PROVE  /\ LwipProcessCli =>
                /\ g' \in Globals /\ BoardSound(g') /\ flash' \in FlashRecords
                /\ phase' \in Phases /\ Offers(phase', g')
           /\ RtosProcessCli =>
                /\ Good(g, g') /\ flash' \in FlashRecords
                /\ phase' \in Phases /\ Offers(phase', g')
<1>1. g \in Globals /\ BoardSound(g) /\ flash \in FlashRecords /\ Good(g, g)
  BY DEF Ready, Good
<1>2. "trans" \in Phases /\ Offers("trans", g')
  BY DEF Phases, Offers
<1>3. ASSUME EntersLine
      PROVE  LineTaken \in Globals /\ BoardSound(LineTaken) /\ Good(g, LineTaken)
  <2>1. g.typed # <<>>
    BY <1>3 DEF EntersLine
  <2> QED BY <1>1, <2>1, ConsoleGood DEF Good
<1>4. ASSUME \/ NothingTyped \/ TakesChar
             \/ EntersLine /\ \E k : LwipSetupLine(k, LineTaken)
      PROVE  Good(g, g') /\ flash' \in FlashRecords
  <2>1. CASE NothingTyped
    BY <1>1, <2>1, Zenon DEF NothingTyped
  <2>2. CASE TakesChar
    <3>1. flash' = flash
      BY <2>2, Zenon DEF TakesChar
    <3> QED BY <1>1, <2>2, <3>1, ConsoleGood
  <2>3. ASSUME EntersLine, NEW k, LwipSetupLine(k, LineTaken)
        PROVE  Good(g, g') /\ flash' \in FlashRecords
    <3>1. Good(LineTaken, g') /\ flash' \in FlashRecords
      BY <1>1, <1>3, <2>3, SetupGood
    <3> QED BY <1>3, <2>3, <3>1, GoodTransitive
  <2> QED BY <1>4, <2>1, <2>2, <2>3
<1>5. ASSUME LwipProcessCli
      PROVE  /\ g' \in Globals /\ BoardSound(g') /\ flash' \in FlashRecords
             /\ phase' \in Phases /\ Offers(phase', g')
  <2>1. CASE /\ \/ NothingTyped \/ TakesChar
                \/ EntersLine /\ \E k : LwipSetupLine(k, LineTaken)
             /\ phase' = "trans"
    <3>1. Good(g, g') /\ flash' \in FlashRecords
      BY <1>4, <2>1
    <3> QED BY <1>2, <2>1, <3>1, Zenon DEF Good
  <2>2. CASE /\ EntersLine /\ LwipSessionLine(g.line.key, LineTaken)
             /\ phase' = "trans" /\ flash' = flash
    <3>1. g' \in Globals /\ BoardSound(g')
      BY <1>3, <2>2, LwipSessionGood
    <3> QED BY <1>1, <1>2, <2>2, <3>1, Zenon
  <2>3. CASE LwipReboot
    BY <2>3, RestartGood DEF Good
  <2> QED BY <1>5, <2>1, <2>2, <2>3, Zenon DEF LwipProcessCli
<1>6. ASSUME RtosProcessCli
      PROVE  /\ Good(g, g') /\ flash' \in FlashRecords
             /\ phase' \in Phases /\ Offers(phase', g')
  <2>1. CASE /\ \/ NothingTyped \/ TakesChar
                \/ EntersLine /\ \E k : RtosSetupLine(k, LineTaken)
             /\ phase' = "trans"
    <3>1. \/ NothingTyped \/ TakesChar
          \/ EntersLine /\ \E k : LwipSetupLine(k, LineTaken)
      BY <2>1, SharedCode, Zenon
    <3>2. Good(g, g') /\ flash' \in FlashRecords
      BY <1>4, <3>1
    <3> QED BY <1>2, <2>1, <3>2, Zenon
  <2>2. CASE /\ EntersLine /\ phase' = "trans" /\ flash' = flash
             /\ RtosRoleLine(g.line.key, LineTaken) \/ RtosSessionLine(g.line.key, LineTaken)
    <3>1. Good(LineTaken, g')
      BY <1>3, <2>2, RtosRoleGood, RtosSessionGood
    <3>2. Good(g, g')
      BY <1>3, <2>2, <3>1, GoodTransitive
    <3> QED BY <1>1, <1>2, <2>2, <3>2, Zenon
  <2>3. CASE RtosReboot
    BY <2>3, RestartGood, SharedCode
  <2> QED BY <1>6, <2>1, <2>2, <2>3, Zenon DEF RtosProcessCli
<1> QED BY <1>5, <1>6

\* Every step of a board.
LEMMA BoardSteps ==
    ASSUME Ready
    PROVE  /\ LwipStep \/ LwipPowerLoss =>
                /\ g' \in Globals /\ BoardSound(g') /\ flash' \in FlashRecords
                /\ phase' \in Phases /\ Offers(phase', g')
           /\ RtosStep \/ RtosPowerLoss =>
                /\ Good(g, g') /\ flash' \in FlashRecords
                /\ phase' \in Phases /\ Offers(phase', g')
<1>1. ASSUME \/ LwipConnect \/ LwipTop \/ LwipBrowse \/ LwipPeerGone \/ LwipTransition
             \/ LwipEnd \/ LwipPowerLoss \/ LwipTick \/ RtosTick
      PROVE  Good(g, g') /\ flash' \in FlashRecords /\ phase' \in Phases /\ Offers(phase', g')
  <2>1. LwipEnd => LwipReboot
    BY DEF LwipEnd
  <2> QED BY <1>1, <2>1, ConnectGood, RoundGood, TickGood, RestartGood
<1>2. ASSUME LwipStep \/ LwipPowerLoss
      PROVE  /\ g' \in Globals /\ BoardSound(g') /\ flash' \in FlashRecords
             /\ phase' \in Phases /\ Offers(phase', g')
  BY <1>1, <1>2, CliGood DEF LwipStep, Good
<1>3. ASSUME RtosStep \/ RtosPowerLoss
      PROVE  /\ Good(g, g') /\ flash' \in FlashRecords
             /\ phase' \in Phases /\ Offers(phase', g')
  <2>1. CASE RtosProcessCli
    BY <2>1, CliGood
  <2>2. CASE ~RtosProcessCli
    <3>1. \/ LwipConnect \/ LwipTop \/ LwipBrowse \/ LwipPeerGone \/ LwipTransition
          \/ LwipEnd \/ LwipPowerLoss \/ RtosTick
      BY <1>3, <2>2, SharedCode, Zenon DEF RtosStep
    <3> QED BY <1>1, <3>1
  <2> QED BY <2>1, <2>2
<1> QED BY <1>2, <1>3

-----------------------------------------------------------------------------
(* The desktop program.  It may leave a session it has not begun: `q' at    *)
(* MDNS_RESOLVE stops the loop in SESSION_RUN, whoever was host before; the *)
(* loop condition is the next thing it looks at.                            *)

PosixSound(ph, p) ==
    /\ p.browsing => p.state = "MDNS_RESOLVE"
    /\ p.session # "none" => p.state = "SESSION_RUN"
    /\ p.state \in {"MDNS_RESOLVE", "CLIENT_IP"} => p.chosen # "host"
    /\ p.state = "REPEAT_PROMPT" => (p.isHost <=> p.chosen = "host")
    /\ p.state = "SESSION_RUN" => \/ p.isHost <=> p.chosen = "host"
                                  \/ ~p.running /\ ph \in {"top", "end"}

PosixReady == g \in Globals /\ PosixSound(phase, g) /\ flash \in FlashRecords /\ phase \in Phases

LEMMA PosixStart ==
    ASSUME PosixInit
    PROVE  g \in Globals /\ PosixSound(phase, g) /\ flash \in FlashRecords /\ phase \in Phases
<1> DEFINE b == Boot(Erased)
<1>1. Erased \in FlashRecords
  BY Values
<1>2. b \in Globals /\ b.session = "none" /\ ~b.browsing
  BY <1>1, BootTypes, BootFacts
<1>3. PICK s \in {"MDNS_NAME", "ROLE_SELECT"} : g = [b EXCEPT !.state = s]
  BY Zenon DEF PosixInit
<1> HIDE DEF b
<1>4. s \in States
  BY DEF States
<1>5. [b EXCEPT !.state = s] \in Globals
  BY <1>2, <1>4, Zenon DEF Globals
<1>6. g \in Globals /\ g.state = s /\ g.session = "none" /\ ~g.browsing
  <2>1. LET q == [b EXCEPT !.state = s] IN q.state = s /\ q.session = "none" /\ ~q.browsing
    BY <1>2, SMTT(20) DEF Globals
  <2> QED BY <1>3, <1>5, <2>1
<1>7. PosixSound(phase, g)
  BY <1>3, <1>6, SMTT(20) DEF PosixSound
<1> QED BY <1>1, <1>6, <1>7 DEF PosixInit, Phases

LEMMA PosixBeginGood ==
    ASSUME NEW p \in Globals, NEW ph
    PROVE  /\ p.chosen = "host" =>
                PosixBeginHost(p) \in Globals /\ PosixSound(ph, PosixBeginHost(p))
           /\ PosixBeginHost(p) \in Globals
           /\ LET q == [PosixBeginHost(p) EXCEPT !.chosen = "host"]
              IN  q \in Globals /\ PosixSound(ph, q)
           /\ p.chosen # "host" =>
                PosixBeginClient(p) \in Globals /\ PosixSound(ph, PosixBeginClient(p))
           /\ p.session = "none" =>
                LET q == [PosixStartResolve(p) EXCEPT !.chosen = "client"]
                IN  q \in Globals /\ PosixSound(ph, q)
           /\ p.session = "none" /\ p.chosen # "host" =>
                PosixStartResolve(p) \in Globals /\ PosixSound(ph, PosixStartResolve(p))
<1> DEFINE bh == PosixBeginHost(p)
           bc == PosixBeginClient(p)
           sr == PosixStartResolve(p)
<1>1. bh \in Globals /\ bc \in Globals /\ sr \in Globals
  BY BeginTypes, HelperTypes
<1>2. /\ bh.isHost /\ ~bh.browsing /\ bh.state = "SESSION_RUN" /\ bh.chosen = p.chosen
      /\ ~bc.isHost /\ ~bc.browsing /\ bc.state = "SESSION_RUN" /\ bc.chosen = p.chosen
  BY BeginFacts, Zenon
<1>3. sr.state = "MDNS_RESOLVE" /\ sr.session = p.session /\ sr.chosen = p.chosen
  BY ResolveFacts, Zenon
<1> HIDE DEF bh, bc, sr
<1>4. /\ p.chosen = "host" => PosixSound(ph, bh)
      /\ p.chosen # "host" => PosixSound(ph, bc)
      /\ p.session = "none" /\ p.chosen # "host" => PosixSound(ph, sr)
  BY <1>2, <1>3, SMTT(20) DEF PosixSound
<1>5. LET q == [bh EXCEPT !.chosen = "host"] IN q \in Globals /\ PosixSound(ph, q)
  <2> DEFINE q == [bh EXCEPT !.chosen = "host"]
  <2>1. q \in Globals
    BY <1>1, Values, Zenon DEF Globals
  <2>2. q.isHost /\ ~q.browsing /\ q.state = "SESSION_RUN" /\ q.chosen = "host"
    BY <1>1, <1>2, SMTT(20) DEF Globals
  <2> HIDE DEF q
  <2>3. PosixSound(ph, q)
    BY <2>2, SMTT(20) DEF PosixSound
  <2> QED BY <2>1, <2>3 DEF q
<1>6. ASSUME p.session = "none"
      PROVE  LET q == [sr EXCEPT !.chosen = "client"] IN q \in Globals /\ PosixSound(ph, q)
  <2> DEFINE q == [sr EXCEPT !.chosen = "client"]
  <2>1. q \in Globals
    BY <1>1, Values, Zenon DEF Globals
  <2>2. q.state = "MDNS_RESOLVE" /\ q.chosen = "client" /\ q.session = "none"
    BY <1>1, <1>3, <1>6, SMTT(20) DEF Globals
  <2> HIDE DEF q
  <2>3. PosixSound(ph, q)
    BY <2>2, SMTT(20) DEF PosixSound
  <2> QED BY <2>1, <2>3 DEF q
<1> QED BY <1>1, <1>4, <1>5, <1>6 DEF bh, bc, sr

LEMMA PosixLineGood ==
    ASSUME NEW h \in Globals, PosixSound("cli", h), NEW k, PosixHandleLine(k, h)
    PROVE  g' \in Globals /\ PosixSound("top", g')
<1>0. PosixSound("top", h)
  BY SMTT(20) DEF PosixSound
<1>1. h.state # "SESSION_RUN" => h.session = "none"
  BY SMTT(20) DEF PosixSound
<1>2. CASE h.state = "MDNS_NAME" /\ g' = [h EXCEPT !.state = "ROLE_SELECT"]
  <2> DEFINE q == [h EXCEPT !.state = "ROLE_SELECT"]
  <2>1. q \in Globals
    BY Values, Zenon DEF Globals
  <2>2. /\ q.state = "ROLE_SELECT" /\ q.session = h.session /\ q.browsing = h.browsing
    BY SMTT(20) DEF Globals
  <2>3. g' = q
    BY <1>2
  <2> HIDE DEF q
  <2>4. PosixSound("top", q)
    BY <1>0, <1>1, <1>2, <2>2, SMTT(20) DEF PosixSound
  <2> QED BY <2>1, <2>3, <2>4
<1>3. CASE /\ h.state = "ROLE_SELECT"
           /\ \/ g' = [PosixBeginHost(h) EXCEPT !.chosen = "host"]
              \/ g' = [PosixStartResolve(h) EXCEPT !.chosen = "client"]
              \/ g' = h
  <2>1. h.session = "none"
    BY <1>1, <1>3
  <2> DEFINE a == [PosixBeginHost(h) EXCEPT !.chosen = "host"]
             b == [PosixStartResolve(h) EXCEPT !.chosen = "client"]
  <2>2. a \in Globals /\ PosixSound("top", a) /\ b \in Globals /\ PosixSound("top", b)
    BY <2>1, PosixBeginGood
  <2>3. g' = a \/ g' = b \/ g' = h
    BY <1>3
  <2> HIDE DEF a, b
  <2> QED BY <1>0, <2>2, <2>3, Zenon
<1>4. CASE /\ h.state = "MDNS_RESOLVE"
           /\ \/ g' = [h EXCEPT !.browsing = FALSE, !.running = FALSE, !.state = "SESSION_RUN"]
              \/ g' = [h EXCEPT !.browsing = FALSE, !.state = "CLIENT_IP"]
  <2> DEFINE a == [h EXCEPT !.browsing = FALSE, !.running = FALSE, !.state = "SESSION_RUN"]
             b == [h EXCEPT !.browsing = FALSE, !.state = "CLIENT_IP"]
  <2>1. a \in Globals
    BY Values, Zenon DEF Globals
  <2>2. b \in Globals
    BY Values, Zenon DEF Globals
  <2>3. /\ ~a.browsing /\ ~a.running /\ a.state = "SESSION_RUN"
        /\ ~b.browsing /\ b.state = "CLIENT_IP" /\ b.session = h.session
        /\ b.chosen = h.chosen
    BY SMTT(20) DEF Globals
  <2>4. g' = a \/ g' = b
    BY <1>4
  <2> HIDE DEF a, b
  <2>5. PosixSound("top", a) /\ PosixSound("top", b)
    BY <1>0, <1>1, <1>4, <2>3, SMTT(20) DEF PosixSound
  <2> QED BY <2>1, <2>2, <2>4, <2>5, Zenon
<1>5. CASE h.state = "CLIENT_IP" /\ (g' = PosixBeginClient(h) \/ g' = h)
  <2>1. h.chosen # "host"
    BY <1>5, SMTT(20) DEF PosixSound
  <2>2. PosixBeginClient(h) \in Globals /\ PosixSound("top", PosixBeginClient(h))
    BY <2>1, PosixBeginGood
  <2> QED BY <1>0, <1>5, <2>2, Zenon
<1>6. CASE h.state = "SESSION_RUN" /\ (g' = [h EXCEPT !.running = FALSE] \/ g' = h)
  <2> DEFINE q == [h EXCEPT !.running = FALSE]
  <2>1. q \in Globals
    BY Values, Zenon DEF Globals
  <2>2. /\ ~q.running /\ q.state = h.state /\ q.browsing = h.browsing
    BY SMTT(20) DEF Globals
  <2>3. g' = q \/ g' = h
    BY <1>6
  <2> HIDE DEF q
  <2>4. PosixSound("top", q)
    BY <1>0, <1>6, <2>2, SMTT(20) DEF PosixSound
  <2> QED BY <1>0, <2>1, <2>3, <2>4, Zenon
<1>7. CASE h.state = "REPEAT_PROMPT" /\ g' = PosixAgain(h)
  <2>1. h.session = "none" /\ (h.isHost <=> h.chosen = "host")
    BY <1>1, <1>7, SMTT(20) DEF PosixSound
  <2>2. CASE h.isHost
    <3>1. g' = PosixBeginHost(h)
      BY <1>7, <2>2, Zenon DEF PosixAgain
    <3> QED BY <2>1, <2>2, <3>1, PosixBeginGood
  <2>3. CASE ~h.isHost /\ h.lastHost
    <3>1. g' = PosixBeginClient(h)
      BY <1>7, <2>3, Zenon DEF PosixAgain
    <3> QED BY <2>1, <2>3, <3>1, PosixBeginGood
  <2>4. CASE ~h.isHost /\ ~h.lastHost
    <3>1. g' = PosixStartResolve(h)
      BY <1>7, <2>4, Zenon DEF PosixAgain
    <3> QED BY <2>1, <2>4, <3>1, PosixBeginGood
  <2> QED BY <2>2, <2>3, <2>4
<1>8. CASE /\ h.state = "REPEAT_PROMPT"
           /\ \/ g' = [h EXCEPT !.state = "ROLE_SELECT"]
              \/ g' = [h EXCEPT !.running = FALSE, !.state = "DONE"]
  <2> DEFINE a == [h EXCEPT !.state = "ROLE_SELECT"]
             b == [h EXCEPT !.running = FALSE, !.state = "DONE"]
  <2>1. a \in Globals
    BY Values, Zenon DEF Globals
  <2>2. b \in Globals
    BY Values, Zenon DEF Globals
  <2>3. /\ a.state = "ROLE_SELECT" /\ a.session = h.session /\ a.browsing = h.browsing
        /\ b.state = "DONE" /\ b.session = h.session /\ b.browsing = h.browsing
    BY SMTT(20) DEF Globals
  <2>4. g' = a \/ g' = b
    BY <1>8
  <2> HIDE DEF a, b
  <2>5. PosixSound("top", a) /\ PosixSound("top", b)
    BY <1>0, <1>1, <1>8, <2>3, SMTT(20) DEF PosixSound
  <2> QED BY <2>1, <2>2, <2>4, <2>5, Zenon
<1> QED BY <1>2, <1>3, <1>4, <1>5, <1>6, <1>7, <1>8, Zenon DEF PosixHandleLine

LEMMA PosixConsoleGood ==
    ASSUME PosixReady
    PROVE  /\ PosixProcessCli =>
                g' \in Globals /\ PosixSound(phase', g') /\ flash' = flash /\ phase' = "top"
           /\ program \in {"posix", "lwip", "rtos"} /\ Type =>
                g' \in Globals /\ PosixSound(phase, g')
<1>1. g \in Globals /\ PosixSound(phase, g)
  BY DEF PosixReady
<1>2. ASSUME NEW q, SameButInput(g, q) PROVE PosixSound(phase, q)
  BY <1>1, <1>2, SMTT(20) DEF SameButInput, SameUse, PosixSound
<1>3. ASSUME program \in {"posix", "lwip", "rtos"}, Type
      PROVE  g' \in Globals /\ PosixSound(phase, g')
  <2>1. g' \in Globals /\ SameButInput(g, g')
    BY <1>1, <1>3, ConsoleTypes, ConsoleFacts, Zenon
  <2> QED BY <1>2, <2>1
<1>4. ASSUME PosixProcessCli
      PROVE  g' \in Globals /\ PosixSound(phase', g') /\ flash' = flash /\ phase' = "top"
  <2>1. phase = "cli" /\ phase' = "top"
    BY <1>4, Zenon DEF PosixProcessCli
  <2>2. \A q : PosixSound("cli", q) => PosixSound("top", q)
    BY SMTT(20) DEF PosixSound
  <2>3. ASSUME g.typed # <<>>
        PROVE  LineTaken \in Globals /\ PosixSound("cli", LineTaken)
    BY <1>1, <1>2, <2>1, <2>3, ConsoleTypes, ConsoleFacts, Zenon
  <2>4. CASE NothingTyped
    <3>1. g' = g /\ flash' = flash
      BY <2>4, Zenon DEF NothingTyped
    <3> QED BY <1>1, <2>1, <2>2, <3>1, Zenon
  <2>5. CASE TakesChar
    <3>1. flash' = flash
      BY <2>5, Zenon DEF TakesChar
    <3>2. g' \in Globals /\ SameButInput(g, g')
      BY <1>1, <2>5, ConsoleTypes, ConsoleFacts, Zenon
    <3> QED BY <1>2, <2>1, <2>2, <3>1, <3>2
  <2>6. CASE g.typed # <<>> /\ g' = [g EXCEPT !.typed = Tail(g.typed), !.running = FALSE]
             /\ flash' = flash
    <3> DEFINE t == Tail(g.typed)
               q == [g EXCEPT !.typed = t, !.running = FALSE]
    <3>1. t \in Seq(Chars)
      <4>1. g.typed \in Seq(Chars)
        BY <1>1, Zenon DEF Globals
      <4> QED BY <2>6, <4>1, HeadTailProperties
    <3>2. g' = q
      BY <2>6
    <3> HIDE DEF t
    <3>3. q \in Globals
      BY <1>1, <3>1, Values, Zenon DEF Globals
    <3>4. SameUse(g, q) /\ q.state = g.state /\ ~q.running
      BY <1>1, SMTT(20) DEF SameUse, Globals
    <3> HIDE DEF q
    <3>5. PosixSound("top", q)
      BY <1>1, <2>1, <3>4, SMTT(20) DEF SameUse, PosixSound
    <3> QED BY <2>1, <2>6, <3>2, <3>3, <3>5
  <2>7. CASE EntersLine /\ PosixHandleLine(g.line.key, LineTaken) /\ flash' = flash
    <3>1. g.typed # <<>>
      BY <2>7 DEF EntersLine
    <3>2. g' \in Globals /\ PosixSound("top", g')
      BY <2>3, <2>7, <3>1, PosixLineGood
    <3> QED BY <2>1, <2>7, <3>2
  <2> QED BY <1>4, <2>4, <2>5, <2>6, <2>7, Zenon DEF PosixProcessCli
<1> QED BY <1>3, <1>4

LEMMA PosixRoundGood ==
    ASSUME PosixReady, PosixTop \/ PosixBrowse \/ PosixTick
    PROVE  g' \in Globals /\ PosixSound(phase', g') /\ flash' = flash /\ phase' \in Phases
<1>1. g \in Globals /\ PosixSound(phase, g) /\ \A ph \in {"browse", "tick", "peer"} : ph \in Phases
  BY DEF PosixReady, Phases
<1>2. CASE PosixTop
  <2>1. g.running /\ g' = g /\ flash' = flash /\ phase' = "browse"
    BY <1>2, Zenon DEF PosixTop
  <2>2. PosixSound("browse", g)
    BY <1>1, <2>1, SMTT(20) DEF PosixSound
  <2> QED BY <1>1, <2>1, <2>2
<1>3. CASE PosixBrowse
  <2> DEFINE p == [g EXCEPT !.browsing = FALSE]
  <2>1. /\ phase = "browse" /\ flash' = flash /\ phase' = "tick"
        /\ \/ g' = g
           \/ g.state = "MDNS_RESOLVE" /\ g' = PosixBeginClient(p)
    BY <1>3, Zenon DEF PosixBrowse
  <2>2. PosixSound("tick", g)
    BY <1>1, <2>1, SMTT(20) DEF PosixSound
  <2>3. p \in Globals
    BY <1>1, Values, Zenon DEF Globals
  <2>4. p.chosen = g.chosen
    BY <1>1, SMTT(20) DEF Globals
  <2> HIDE DEF p
  <2>5. ASSUME g.state = "MDNS_RESOLVE"
        PROVE  PosixBeginClient(p) \in Globals /\ PosixSound("tick", PosixBeginClient(p))
    <3>1. p.chosen # "host"
      BY <1>1, <2>4, <2>5, SMTT(20) DEF PosixSound
    <3> QED BY <2>3, <3>1, PosixBeginGood
  <2> QED BY <1>1, <2>1, <2>2, <2>5, Zenon
<1>4. CASE PosixTick
  <2>1. /\ phase = "tick" /\ flash' = flash /\ phase' = "peer"
        /\ \/ g' = g
           \/ g.session # "none" /\ \E r \in SessionTick(g) : g' = onStateChange(g, r)
    BY <1>4, Zenon DEF PosixTick
  <2>2. PosixSound("peer", g)
    BY <1>1, <2>1, SMTT(20) DEF PosixSound
  <2>3. ASSUME NEW r \in SessionTick(g), g.session # "none"
        PROVE  onStateChange(g, r) \in Globals /\ PosixSound("peer", onStateChange(g, r))
    <3> DEFINE u == g.up \/ r.wasUp
               e == g.everUp \/ r.wasUp
               s == r.state
               q == onStateChange(g, r)
    <3>1. q \in Globals
      BY <1>1, TickTypes
    <3>2. q = [g EXCEPT !.session = s, !.up = u, !.everUp = e]
      BY DEF onStateChange
    <3> HIDE DEF q, u, e, s
    <3>3. /\ q.state = g.state /\ q.browsing = g.browsing /\ q.isHost = g.isHost
          /\ q.chosen = g.chosen /\ q.running = g.running
      BY <1>1, <3>2, SMTT(20) DEF Globals
    <3>4. PosixSound("peer", q)
      BY <2>2, <2>3, <3>3, SMTT(20) DEF PosixSound
    <3> QED BY <3>1, <3>4 DEF q
  <2> QED BY <1>1, <2>1, <2>2, <2>3, Zenon
<1> QED BY <1>2, <1>3, <1>4

LEMMA PosixLeaveGood ==
    ASSUME PosixReady, PosixPeerGone \/ PosixTransition \/ PosixEnd \/ PosixSignal
    PROVE  g' \in Globals /\ PosixSound(phase', g') /\ flash' = flash /\ phase' \in Phases
<1> DEFINE d == PosixDestroySession(g)
<1>1. /\ g \in Globals /\ PosixSound(phase, g) /\ phase \in Phases
      /\ "trans" \in Phases /\ "cli" \in Phases /\ "end" \in Phases
  BY DEF PosixReady, Phases
<1>2. d \in Globals
  BY <1>1, HelperTypes
<1>3. /\ d.session = "none" /\ d.state = g.state /\ d.running = g.running
      /\ d.browsing = g.browsing /\ d.isHost = g.isHost /\ d.chosen = g.chosen
  BY <1>1, DestroyFacts, Zenon
<1>4. /\ PosixPeerGone =>
           /\ phase = "peer" /\ phase' = "trans" /\ flash' = flash
           /\ g' = [d EXCEPT !.running = FALSE] \/ g' = g
      /\ PosixTransition =>
           /\ phase = "trans" /\ phase' = "cli" /\ flash' = flash
           /\ \/ /\ g.state = "SESSION_RUN"
                 /\ g' = [d EXCEPT !.running = TRUE, !.state = "REPEAT_PROMPT"]
              \/ g' = g
      /\ PosixEnd =>
           /\ phase = "top" /\ phase' = "end" /\ flash' = flash
           /\ ~g.running /\ g' = [d EXCEPT !.browsing = FALSE]
      /\ PosixSignal =>
           phase' = phase /\ flash' = flash /\ g' = [g EXCEPT !.running = FALSE]
  BY Zenon DEF PosixPeerGone, PosixTransition, PosixEnd, PosixSignal
<1> HIDE DEF d
<1>5. CASE PosixPeerGone
  <2> DEFINE q == [d EXCEPT !.running = FALSE]
  <2>1. q \in Globals
    BY <1>2, Values, Zenon DEF Globals
  <2>2. /\ q.session = "none" /\ q.state = g.state /\ q.browsing = g.browsing
        /\ q.isHost = g.isHost /\ q.chosen = g.chosen
    BY <1>2, <1>3, SMTT(20) DEF Globals
  <2>3. g' = q \/ g' = g
    BY <1>4, <1>5
  <2> HIDE DEF q
  <2>4. PosixSound("trans", q) /\ PosixSound("trans", g)
    BY <1>1, <1>4, <1>5, <2>2, SMTT(20) DEF PosixSound
  <2> QED BY <1>1, <1>4, <1>5, <2>1, <2>3, <2>4, Zenon
<1>6. CASE PosixTransition
  <2> DEFINE q == [d EXCEPT !.running = TRUE, !.state = "REPEAT_PROMPT"]
  <2>1. q \in Globals
    BY <1>2, Values, Zenon DEF Globals
  <2>2. /\ q.session = "none" /\ q.state = "REPEAT_PROMPT" /\ q.browsing = g.browsing
        /\ q.isHost = g.isHost /\ q.chosen = g.chosen
    BY <1>2, <1>3, SMTT(20) DEF Globals
  <2>3. (g.state = "SESSION_RUN" /\ g' = q) \/ g' = g
    BY <1>4, <1>6
  <2> HIDE DEF q
  <2>4. PosixSound("cli", g) /\ (g.state = "SESSION_RUN" => PosixSound("cli", q))
    BY <1>1, <1>4, <1>6, <2>2, SMTT(20) DEF PosixSound
  <2> QED BY <1>1, <1>4, <1>6, <2>1, <2>3, <2>4, Zenon
<1>7. CASE PosixEnd
  <2> DEFINE q == [d EXCEPT !.browsing = FALSE]
  <2>1. q \in Globals
    BY <1>2, Values, Zenon DEF Globals
  <2>2. /\ q.session = "none" /\ q.state = g.state /\ ~q.browsing /\ q.running = g.running
        /\ q.isHost = g.isHost /\ q.chosen = g.chosen
    BY <1>2, <1>3, SMTT(20) DEF Globals
  <2>3. g' = q
    BY <1>4, <1>7
  <2> HIDE DEF q
  <2>4. PosixSound("end", q)
    BY <1>1, <1>4, <1>7, <2>2, SMTT(20) DEF PosixSound
  <2> QED BY <1>1, <1>4, <1>7, <2>1, <2>3, <2>4
<1>8. CASE PosixSignal
  <2> DEFINE q == [g EXCEPT !.running = FALSE]
  <2>1. q \in Globals
    BY <1>1, Values, Zenon DEF Globals
  <2>2. /\ q.session = g.session /\ q.state = g.state /\ q.browsing = g.browsing
        /\ q.isHost = g.isHost /\ q.chosen = g.chosen /\ ~q.running
    BY <1>1, SMTT(20) DEF Globals
  <2>3. g' = q
    BY <1>4, <1>8
  <2> HIDE DEF q
  <2>4. PosixSound(phase, q)
    BY <1>1, <2>2, SMTT(20) DEF PosixSound
  <2> QED BY <1>1, <1>4, <1>8, <2>1, <2>3, <2>4
<1> QED BY <1>5, <1>6, <1>7, <1>8

-----------------------------------------------------------------------------
(* nm2_host and nm2_client.                                                 *)

AppSound(a) ==
    /\ a.pc \in {"sigint", "exit", "leave"} /\ a.st = "Idle" => a.session = "Idle"
    /\ a.pc = "leave" /\ a.had => a.st = "Idle"
    /\ a.browsing => a.pc \in {"browse", "killed"}
    /\ a.pc = "ended" => /\ a.had => a.session = "Idle"
                         /\ ~a.browsing /\ ~a.advertised

Places    == {"main", "browse", "begin", "install", "clear",
              "tick", "sigint", "exit", "leave", "ended", "killed"}
AppStates == {"none", "Idle", "Pending", "Established", "PendingBye"}

LEMMA AppValues ==
    /\ \A pc \in {"main", "browse", "begin", "install", "clear",
                  "tick", "sigint", "exit", "leave", "ended", "killed"} : pc \in Places
    /\ \A s \in {"none", "Idle", "Pending", "Established", "PendingBye"} : s \in AppStates
    /\ TRUE \in BOOLEAN /\ FALSE \in BOOLEAN
    /\ 0 \in 0 .. 2 /\ 1 \in 0 .. 2 /\ 2 \in 0 .. 2
    /\ "host" \in {"host", "client"} /\ "client" \in {"host", "client"}
    /\ 0 \in 0 .. MaxSigints /\ 0 \in 0 .. MaxPolls /\ MaxByeTicks \in 0 .. MaxByeTicks
  BY AppAssumption DEF Places, AppStates

LEMMA AppRunsAre ==
    AppRuns =
      [pc : Places, role : {"host", "client"}, discover : BOOLEAN, session : AppStates,
       byeTicks : 0 .. MaxByeTicks, installed : BOOLEAN, gShutdown : 0 .. 2,
       sigints : 0 .. MaxSigints, had : BOOLEAN, st : AppStates, polls : 0 .. MaxPolls,
       browsing : BOOLEAN, advertised : BOOLEAN, noteOn : BOOLEAN]
  BY Zenon DEF AppRuns, Places, AppStates

LEMMA AppStart ==
    /\ app = AppOff => app \in AppRuns /\ AppSound(app)
    /\ AppInit => app \in AppRuns /\ AppSound(app)
<1>1. AppOff \in AppRuns
  <2>1. "ended" \in Places /\ "none" \in AppStates
    BY AppValues
  <2> QED BY <2>1, AppValues, AppRunsAre, Zenon DEF AppOff
<1>2. /\ ~AppOff.had /\ ~AppOff.browsing /\ ~AppOff.advertised
      /\ AppOff.pc = "ended" /\ AppOff.st = "none"
  BY Zenon DEF AppOff
<1>3. AppSound(AppOff)
  BY <1>2, SMTT(20) DEF AppSound
<1>4. ASSUME NEW r \in {"host", "client"}, NEW d \in BOOLEAN
      PROVE  LET a == [AppOff EXCEPT !.pc = "main", !.role = r, !.discover = d]
             IN  a \in AppRuns /\ AppSound(a)
  <2> DEFINE a == [AppOff EXCEPT !.pc = "main", !.role = r, !.discover = d]
  <2>1. a \in AppRuns
    <3>1. "main" \in Places
      BY AppValues
    <3> QED BY <1>1, <1>4, <3>1, AppRunsAre, Zenon
  <2>2. a.pc = "main" /\ ~a.browsing
    BY <1>1, <1>2, <1>4, SMTT(20) DEF AppRuns
  <2> HIDE DEF a
  <2>3. AppSound(a)
    BY <2>2, SMTT(20) DEF AppSound
  <2> QED BY <2>1, <2>3 DEF a
<1> QED BY <1>1, <1>3, <1>4, Zenon DEF AppInit

LEMMA AppBegins ==
    ASSUME app \in AppRuns, AppSound(app),
           RunHost \/ RunClient \/ BrowsePoll \/ BeginClient
    PROVE  app' \in AppRuns /\ AppSound(app')
<1>1. CASE RunHost
  <2>1. PICK a \in BOOLEAN :
          app' = [app EXCEPT !.session = "Idle", !.advertised = a, !.pc = "install"]
    <3>1. app.discover \in BOOLEAN
      BY AppRunsAre, Zenon
    <3>2. \E a \in {app.discover, FALSE} :
            app' = [app EXCEPT !.session = "Idle", !.advertised = a, !.pc = "install"]
      BY <1>1, Zenon DEF RunHost
    <3> QED BY <3>1, <3>2, AppValues, Zenon
  <2>2. app.pc = "main"
    BY <1>1 DEF RunHost, At
  <2> DEFINE q == [app EXCEPT !.session = "Idle", !.advertised = a, !.pc = "install"]
  <2>3. q \in AppRuns
    <3>1. "install" \in Places /\ "Idle" \in AppStates
      BY AppValues
    <3> QED BY <2>1, <3>1, AppRunsAre, Zenon
  <2>4. q.pc = "install" /\ q.browsing = app.browsing
    BY SMTT(20) DEF AppRuns
  <2>5. app' = q
    BY <2>1
  <2> HIDE DEF q
  <2>6. AppSound(q)
    BY <2>2, <2>4, SMTT(20) DEF AppSound
  <2> QED BY <2>3, <2>5, <2>6
<1>2. CASE RunClient
  <2>1. PICK b \in BOOLEAN :
          app' = [app EXCEPT !.browsing = b, !.pc = IF b THEN "browse" ELSE "begin"]
    <3>1. app.discover \in BOOLEAN
      BY AppRunsAre, Zenon
    <3>2. \E b \in {app.discover, FALSE} :
            app' = [app EXCEPT !.browsing = b, !.pc = IF b THEN "browse" ELSE "begin"]
      BY <1>2, Zenon DEF RunClient
    <3> QED BY <3>1, <3>2, AppValues, Zenon
  <2> DEFINE s == IF b THEN "browse" ELSE "begin"
             q == [app EXCEPT !.browsing = b, !.pc = s]
  <2>2. s \in Places /\ s \notin {"sigint", "exit", "leave", "ended"} /\ (b => s = "browse")
    BY DEF Places
  <2>3. app' = q
    BY <2>1
  <2> HIDE DEF s
  <2>4. q \in AppRuns
    BY <2>1, <2>2, AppRunsAre, Zenon
  <2>5. q.pc = s /\ q.browsing = b
    BY <2>1, SMTT(20) DEF AppRuns
  <2> HIDE DEF q
  <2>6. AppSound(q)
    BY <2>2, <2>5, SMTT(20) DEF AppSound
  <2> QED BY <2>3, <2>4, <2>6
<1>3. CASE BrowsePoll
  <2> DEFINE a == [app EXCEPT !.browsing = FALSE, !.pc = "begin"]
             n == app.polls + 1
             b == [app EXCEPT !.polls = n]
  <2>1. a \in AppRuns /\ a.pc = "begin" /\ ~a.browsing
    <3>1. "begin" \in Places
      BY AppValues
    <3>2. a \in AppRuns
      BY <3>1, AppValues, AppRunsAre, Zenon
    <3> QED BY <3>2, SMTT(20) DEF AppRuns
  <2>2. app.pc = "browse" /\ (app' = a \/ (app.polls + 1 < MaxPolls /\ app' = b))
    BY <1>3 DEF BrowsePoll, At
  <2>3. app.polls \in 0 .. MaxPolls
    BY AppRunsAre, Zenon
  <2>4. n < MaxPolls => n \in 0 .. MaxPolls
    BY <2>3, AppAssumption
  <2>5. app' = a \/ (n < MaxPolls /\ app' = b)
    BY <2>2
  <2> HIDE DEF n
  <2>6. n < MaxPolls => b \in AppRuns
    BY <2>4, AppRunsAre, Zenon
  <2>7. b.pc = "browse"
    BY <2>2, SMTT(20) DEF AppRuns
  <2> HIDE DEF a, b
  <2>8. AppSound(a) /\ AppSound(b)
    BY <2>1, <2>7, SMTT(20) DEF AppSound
  <2> QED BY <2>1, <2>5, <2>6, <2>8, Zenon
<1>4. CASE BeginClient
  <2> DEFINE q == [app EXCEPT !.session = "Pending", !.pc = "install"]
  <2>1. q \in AppRuns
    <3>1. "install" \in Places /\ "Pending" \in AppStates
      BY AppValues
    <3> QED BY <3>1, AppRunsAre, Zenon
  <2>2. q.pc = "install" /\ q.browsing = app.browsing
    BY SMTT(20) DEF AppRuns
  <2>3. app' = q /\ app.pc = "begin"
    BY <1>4 DEF BeginClient, At
  <2> HIDE DEF q
  <2>4. AppSound(q)
    BY <2>2, <2>3, SMTT(20) DEF AppSound
  <2> QED BY <2>1, <2>3, <2>4
<1> QED BY <1>1, <1>2, <1>3, <1>4

LEMMA AfterTickTyped ==
    ASSUME app \in AppRuns, NEW a \in AfterTick(app)
    PROVE  a \in AppRuns /\ a.browsing = app.browsing
<1>1. \/ a = [app EXCEPT !.session = "Idle"]
      \/ app.byeTicks # 0 /\ a = [app EXCEPT !.byeTicks = app.byeTicks - 1]
      \/ a = app
      \/ \E s \in {"Idle", "Pending", "Established"} : a = [app EXCEPT !.session = s]
  <2>1. CASE app.session = "PendingBye"
    <3>1. a \in {[app EXCEPT !.session = "Idle"]} \cup
                  (IF app.byeTicks = 0 THEN {}
                                       ELSE {[app EXCEPT !.byeTicks = app.byeTicks - 1]})
      BY <2>1, Zenon DEF AfterTick
    <3> QED BY <3>1, Zenon
  <2>2. CASE app.session # "PendingBye" /\ app.role = "client" /\ app.session = "Idle"
    BY <2>2, Zenon DEF AfterTick
  <2>3. CASE app.session # "PendingBye" /\ ~(app.role = "client" /\ app.session = "Idle")
    BY <2>3, Zenon DEF AfterTick
  <2> QED BY <2>1, <2>2, <2>3
<1>2. ASSUME NEW s \in {"Idle", "Pending", "Established"}, a = [app EXCEPT !.session = s]
      PROVE  a \in AppRuns /\ a.browsing = app.browsing
  <2>1. s \in AppStates
    BY <1>2, AppValues
  <2>2. [app EXCEPT !.session = s] \in AppRuns
    BY <2>1, AppRunsAre, Zenon
  <2>3. [app EXCEPT !.session = s].browsing = app.browsing
    BY SMTT(20) DEF AppRuns
  <2> QED BY <1>2, <2>2, <2>3
<1>3. CASE app.byeTicks # 0 /\ a = [app EXCEPT !.byeTicks = app.byeTicks - 1]
  <2> DEFINE n == app.byeTicks - 1
             q == [app EXCEPT !.byeTicks = n]
  <2>1. app.byeTicks \in 0 .. MaxByeTicks
    BY AppRunsAre, Zenon
  <2>2. n \in 0 .. MaxByeTicks
    BY <1>3, <2>1, AppAssumption
  <2>3. a = q
    BY <1>3
  <2> HIDE DEF n
  <2>4. q \in AppRuns
    BY <2>2, AppRunsAre, Zenon
  <2>5. q.browsing = app.browsing
    BY SMTT(20) DEF AppRuns
  <2> QED BY <2>3, <2>4, <2>5
<1>4. "Idle" \in {"Idle", "Pending", "Established"}
  OBVIOUS
<1>5. CASE a = app
  BY <1>5
<1> QED BY <1>1, <1>2, <1>3, <1>4, <1>5, Zenon

LEMMA AppTicks ==
    ASSUME app \in AppRuns, AppSound(app), Tick
    PROVE  app' \in AppRuns /\ AppSound(app')
<1>1. app.pc = "tick" /\ ~app.browsing
  <2>1. app.pc = "tick"
    BY Zenon DEF Tick, At
  <2> QED BY <2>1, SMTT(20) DEF AppSound
<1>2. PICK a \in AfterTick(app) :
        LET b == [a EXCEPT !.st = a.session, !.pc = "sigint"]
        IN  IF a.session = "Established"
              THEN \E c \in NextNote(b) : app' = [c EXCEPT !.had = TRUE]
              ELSE app' = b
  BY Zenon DEF Tick
<1>3. a \in AppRuns /\ ~a.browsing
  BY <1>1, AfterTickTyped
<1> DEFINE s == a.session
           b == [a EXCEPT !.st = s, !.pc = "sigint"]
<1>4. s \in AppStates
  BY <1>3, AppRunsAre, Zenon
<1>5. b \in AppRuns /\ b.st = b.session /\ b.pc = "sigint" /\ ~b.browsing
  <2>1. "sigint" \in Places
    BY AppValues
  <2> HIDE DEF s
  <2>2. b \in AppRuns
    BY <1>3, <1>4, <2>1, AppRunsAre, Zenon
  <2>3. b.session = a.session /\ b.st = s /\ b.pc = "sigint" /\ b.browsing = a.browsing
    BY <1>3, SMTT(20) DEF AppRuns
  <2> QED BY <1>3, <2>2, <2>3 DEF s
<1>6. app' = b \/ \E c \in NextNote(b) : app' = [c EXCEPT !.had = TRUE]
  BY <1>2
<1> HIDE DEF b, s
<1>7. ASSUME NEW q, q.st = q.session, q.pc = "sigint", ~q.browsing PROVE AppSound(q)
  BY <1>7, SMTT(20) DEF AppSound
<1>8. CASE app' = b
  BY <1>5, <1>7, <1>8
<1>9. ASSUME NEW c \in NextNote(b), app' = [c EXCEPT !.had = TRUE]
      PROVE  app' \in AppRuns /\ AppSound(app')
  <2>1. c \in AppRuns /\ c.st = c.session /\ c.pc = "sigint" /\ ~c.browsing
    <3> DEFINE n == ~b.noteOn
               d == [b EXCEPT !.noteOn = n]
    <3>1. n \in BOOLEAN
      OBVIOUS
    <3>2. c = b \/ c = d
      BY <1>9, Zenon DEF NextNote
    <3> HIDE DEF n
    <3>3. d \in AppRuns
      BY <1>5, <3>1, AppRunsAre, Zenon
    <3>4. d.st = b.st /\ d.session = b.session /\ d.pc = b.pc /\ d.browsing = b.browsing
      BY <1>5, SMTT(20) DEF AppRuns
    <3> HIDE DEF d
    <3> QED BY <1>5, <3>2, <3>3, <3>4, Zenon
  <2> DEFINE e == [c EXCEPT !.had = TRUE]
  <2>2. e \in AppRuns
    BY <2>1, AppValues, AppRunsAre, Zenon
  <2>3. e.st = e.session /\ e.pc = "sigint" /\ ~e.browsing
    BY <2>1, SMTT(20) DEF AppRuns
  <2>4. app' = e
    BY <1>9
  <2> HIDE DEF e
  <2> QED BY <1>7, <2>2, <2>3, <2>4
<1> QED BY <1>6, <1>8, <1>9

LEMMA AppLoops ==
    ASSUME app \in AppRuns, AppSound(app),
           InstallHandler \/ ClearShutdown \/ CheckShutdown \/ LeaveLoop
    PROVE  app' \in AppRuns /\ AppSound(app')
<1>1. CASE InstallHandler \/ ClearShutdown
  <2> DEFINE a == [app EXCEPT !.installed = TRUE, !.pc = "clear"]
             b == [app EXCEPT !.gShutdown = 0, !.pc = "tick"]
  <2>1. app.pc \in {"install", "clear"} /\ (app' = a \/ app' = b)
    BY <1>1 DEF InstallHandler, ClearShutdown, At
  <2>2. "clear" \in Places /\ "tick" \in Places
    BY AppValues
  <2>3. a \in AppRuns
    BY <2>2, AppValues, AppRunsAre, Zenon
  <2>4. b \in AppRuns
    BY <2>2, AppValues, AppRunsAre, Zenon
  <2>5. /\ a.pc = "clear" /\ a.browsing = app.browsing
        /\ b.pc = "tick" /\ b.browsing = app.browsing
    BY SMTT(20) DEF AppRuns
  <2> HIDE DEF a, b
  <2>6. AppSound(a) /\ AppSound(b)
    BY <2>1, <2>5, SMTT(20) DEF AppSound
  <2> QED BY <2>1, <2>3, <2>4, <2>6
<1>2. CASE CheckShutdown
  <2> DEFINE s == IF app.st # "Idle" THEN "PendingBye" ELSE app.session
             a == [app EXCEPT !.gShutdown = 2, !.pc = "exit", !.session = s]
             b == [app EXCEPT !.pc = "exit"]
  <2>1. app.pc = "sigint" /\ (app' = a \/ app' = b)
    BY <1>2, Zenon DEF CheckShutdown, At
  <2>2. "exit" \in Places /\ s \in AppStates /\ (app.st = "Idle" => s = app.session)
    <3>1. app.session \in AppStates
      BY AppRunsAre, Zenon
    <3> QED BY <3>1, AppValues
  <2> HIDE DEF s
  <2>3. a \in AppRuns
    BY <2>2, AppValues, AppRunsAre, Zenon
  <2>4. b \in AppRuns
    BY <2>2, AppRunsAre, Zenon
  <2>5. /\ a.pc = "exit" /\ a.browsing = app.browsing /\ a.st = app.st /\ a.session = s
        /\ b.pc = "exit" /\ b.browsing = app.browsing /\ b.st = app.st
        /\ b.session = app.session
    BY SMTT(20) DEF AppRuns
  <2> HIDE DEF a, b
  <2>6. AppSound(a) /\ AppSound(b)
    BY <2>1, <2>2, <2>5, SMTT(20) DEF AppSound
  <2> QED BY <2>1, <2>3, <2>4, <2>6
<1>3. CASE LeaveLoop
  <2> DEFINE s == IF ShouldExit(app) THEN "leave" ELSE "tick"
             q == [app EXCEPT !.pc = s]
  <2>1. app.pc = "exit" /\ app' = q
    BY <1>3 DEF LeaveLoop, At
  <2>2. /\ s \in Places /\ s \in {"leave", "tick"}
        /\ s = "leave" /\ app.had => app.st = "Idle"
    BY AppValues, SMTT(20) DEF ShouldExit
  <2> HIDE DEF s
  <2>3. q \in AppRuns
    BY <2>2, AppRunsAre, Zenon
  <2>4. /\ q.pc = s /\ q.browsing = app.browsing /\ q.st = app.st
        /\ q.session = app.session /\ q.had = app.had
    BY SMTT(20) DEF AppRuns
  <2> HIDE DEF q
  <2>5. AppSound(q)
    BY <2>1, <2>2, <2>4, SMTT(20) DEF AppSound
  <2> QED BY <2>1, <2>3, <2>5
<1> QED BY <1>1, <1>2, <1>3

LEMMA AppEnds ==
    ASSUME app \in AppRuns, AppSound(app), Leave \/ Sigint
    PROVE  app' \in AppRuns /\ AppSound(app')
<1>1. CASE Leave
  <2> DEFINE q == [app EXCEPT !.advertised = FALSE, !.pc = "ended"]
  <2>1. app.pc = "leave" /\ app' = q
    BY <1>1 DEF Leave, At
  <2>2. "ended" \in Places
    BY AppValues
  <2>3. q \in AppRuns
    BY <2>2, AppValues, AppRunsAre, Zenon
  <2>4. /\ q.pc = "ended" /\ q.browsing = app.browsing /\ q.session = app.session
        /\ q.had = app.had /\ ~q.advertised
    BY SMTT(20) DEF AppRuns
  <2> HIDE DEF q
  <2>5. AppSound(q)
    BY <2>1, <2>4, SMTT(20) DEF AppSound
  <2> QED BY <2>1, <2>3, <2>5
<1>2. CASE Sigint
  <2> DEFINE n == app.sigints + 1
             a == [app EXCEPT !.gShutdown = 1, !.sigints = n]
             b == [app EXCEPT !.pc = "killed", !.sigints = n]
  <2>1. app.pc # "ended" /\ app.sigints < MaxSigints /\ (app' = a \/ app' = b)
    BY <1>2 DEF Sigint
  <2>2. app.sigints \in 0 .. MaxSigints
    BY AppRunsAre, Zenon
  <2>3. n \in 0 .. MaxSigints
    BY <2>1, <2>2, AppAssumption
  <2> HIDE DEF n
  <2>4. "killed" \in Places
    BY AppValues
  <2>5. a \in AppRuns
    BY <2>3, AppValues, AppRunsAre, Zenon
  <2>6. b \in AppRuns
    BY <2>3, <2>4, AppRunsAre, Zenon
  <2>7. /\ a.pc = app.pc /\ a.browsing = app.browsing /\ a.st = app.st
        /\ a.session = app.session /\ a.had = app.had /\ b.pc = "killed"
    BY SMTT(20) DEF AppRuns
  <2> HIDE DEF a, b
  <2>8. AppSound(a) /\ AppSound(b)
    BY <2>1, <2>7, SMTT(20) DEF AppSound
  <2> QED BY <2>1, <2>5, <2>6, <2>8
<1> QED BY <1>1, <1>2

LEMMA AppSteps ==
    ASSUME app \in AppRuns, AppSound(app), AppStep \/ Sigint
    PROVE  app' \in AppRuns /\ AppSound(app')
  BY AppBegins, AppTicks, AppLoops, AppEnds DEF AppStep

-----------------------------------------------------------------------------
(* The programs together.                                                   *)

Inv ==
    /\ program \in Programs
    /\ app \in AppRuns /\ AppSound(app)
    /\ g \in Globals /\ flash \in FlashRecords /\ phase \in Phases
    /\ program = "posix" => PosixSound(phase, g)
    /\ program \in Boards => BoardSound(g) /\ Offers(phase, g)
    /\ program = "rtos" => RoleSound(g)
    /\ program = "app" => phase = "end" /\ g.session = "none" /\ ~g.browsing
                          /\ g.state = "WIFI_SSID"

LEMMA FourPrograms == program \in Programs => program \in {"posix", "lwip", "rtos", "app"}
  BY CliAssumption

LEMMA InitInv == Init => Inv
<1> SUFFICES ASSUME Init PROVE Inv
  OBVIOUS
<1>1. program \in Programs /\ app \in AppRuns /\ AppSound(app)
  BY AppStart, Zenon DEF Init
<1>2. Good(g, Boot(Erased)) /\ RoleSound(Boot(Erased))
  BY Values, BootGood
<1>3. /\ Boot(Erased) \in Globals /\ BoardSound(Boot(Erased)) /\ Boot(Erased).running
      /\ Boot(Erased).session = "none" /\ ~Boot(Erased).browsing
      /\ Boot(Erased).state = "WIFI_SSID"
  BY <1>2, BootFacts DEF Good
<1>4. CASE program = "posix" /\ PosixInit
  BY <1>1, <1>4, PosixStart DEF Inv, Boards
<1>5. CASE program \in {"lwip", "rtos"} /\ phase = "top" /\ flash = Erased /\ g = Boot(Erased)
  <2>1. flash \in FlashRecords /\ phase \in Phases
    BY <1>5, Values DEF Phases
  <2>2. g \in Globals /\ BoardSound(g) /\ RoleSound(g) /\ Offers(phase, g)
    BY <1>2, <1>3, <1>5, Zenon DEF Offers
  <2>3. program # "posix" /\ program # "app"
    BY <1>5
  <2> QED BY <1>1, <2>1, <2>2, <2>3, Zenon DEF Inv
<1>6. CASE program = "app" /\ CliOff
  <2>1. phase = "end" /\ flash = Erased /\ g = Boot(Erased)
    BY <1>6, Zenon DEF CliOff
  <2>2. flash \in FlashRecords /\ phase \in Phases
    BY <2>1, Values DEF Phases
  <2>3. g \in Globals /\ g.session = "none" /\ ~g.browsing /\ g.state = "WIFI_SSID"
    BY <1>3, <2>1, Zenon
  <2>4. program # "posix" /\ program \notin Boards /\ program # "rtos"
    BY <1>6 DEF Boards
  <2> QED BY <1>1, <2>1, <2>2, <2>3, <2>4, Zenon DEF Inv
<1> QED BY <1>4, <1>5, <1>6, Zenon DEF Init, LwipInit, RtosInit

LEMMA NextInv == Inv /\ [Next]_vars => Inv'
<1> SUFFICES ASSUME Inv, [Next]_vars PROVE Inv'
  OBVIOUS
<1>1. /\ program \in Programs /\ app \in AppRuns /\ AppSound(app)
      /\ g \in Globals /\ flash \in FlashRecords /\ phase \in Phases
      /\ program \in {"posix", "lwip", "rtos", "app"}
  BY FourPrograms DEF Inv
<1>2. CASE UNCHANGED vars
  BY <1>2 DEF Inv, vars, cliVars
<1>3. CASE /\ program' = program /\ program = "posix"
           /\ PosixStep \/ PosixSignal \/ Type
           /\ app' = app
  <2>1. PosixReady
    BY <1>1, <1>3 DEF Inv, PosixReady
  <2>2. CASE Type
    <3>1. phase' = phase /\ flash' = flash
      BY <2>2, Zenon DEF Type
    <3>2. g' \in Globals /\ PosixSound(phase', g')
      BY <1>3, <2>1, <2>2, <3>1, PosixConsoleGood
    <3> QED BY <1>1, <1>3, <3>1, <3>2 DEF Inv, Boards
  <2>3. CASE PosixStep \/ PosixSignal
    <3>1. /\ g' \in Globals /\ PosixSound(phase', g') /\ flash' = flash
          /\ phase' \in Phases
      <4>1. CASE PosixProcessCli
        BY <2>1, <4>1, PosixConsoleGood DEF Phases
      <4>2. CASE PosixTop \/ PosixBrowse \/ PosixTick
        BY <2>1, <4>2, PosixRoundGood
      <4>3. CASE PosixPeerGone \/ PosixTransition \/ PosixEnd \/ PosixSignal
        BY <2>1, <4>3, PosixLeaveGood
      <4> QED BY <2>3, <4>1, <4>2, <4>3, Zenon DEF PosixStep
    <3> QED BY <1>1, <1>3, <3>1 DEF Inv, Boards
  <2> QED BY <1>3, <2>2, <2>3
<1>4. CASE /\ program' = program /\ program \in Boards
           /\ \/ program = "lwip" /\ (LwipStep \/ LwipPowerLoss)
              \/ program = "rtos" /\ (RtosStep \/ RtosPowerLoss)
           /\ app' = app
  <2>1. Ready
    BY <1>1, <1>4 DEF Inv, Ready
  <2>2. /\ g' \in Globals /\ BoardSound(g') /\ flash' \in FlashRecords
        /\ phase' \in Phases /\ Offers(phase', g')
        /\ program = "rtos" => Good(g, g')
    BY <1>4, <2>1, BoardSteps DEF Good
  <2>3. program = "rtos" => RoleSound(g')
    BY <2>2 DEF Good, Inv
  <2>4. program # "posix" /\ program # "app"
    BY <1>4 DEF Boards
  <2> QED BY <1>1, <1>4, <2>2, <2>3, <2>4 DEF Inv
<1>5. CASE program' = program /\ program \in Boards /\ Type /\ app' = app
  <2>1. phase' = phase /\ flash' = flash
    BY <1>5, Zenon DEF Type
  <2>2. program \in {"posix", "lwip", "rtos"} /\ program # "posix" /\ program # "app"
    BY <1>5 DEF Boards
  <2>3. BoardSound(g) /\ Offers(phase, g)
    BY <1>5 DEF Inv
  <2>4. Good(g, g') /\ SameButInput(g, g')
    BY <1>1, <1>5, <2>2, <2>3, ConsoleGood
  <2>5. Offers(phase', g')
    BY <2>1, <2>3, <2>4 DEF Offers, SameButInput
  <2>6. program = "rtos" => RoleSound(g')
    BY <2>4 DEF Good, Inv
  <2> QED BY <1>1, <1>5, <2>1, <2>2, <2>4, <2>5, <2>6 DEF Inv, Good
<1>6. CASE /\ program' = program /\ program = "app"
           /\ AppStep \/ Sigint
           /\ g' = g /\ phase' = phase /\ flash' = flash
  <2>1. app' \in AppRuns /\ AppSound(app')
    BY <1>1, <1>6, AppSteps
  <2>2. program # "posix" /\ program \notin Boards /\ program # "rtos"
    BY <1>6 DEF Boards
  <2> QED BY <1>1, <1>6, <2>1, <2>2 DEF Inv
<1>7. ASSUME Type PROVE program # "app" /\ program' = program
  <2>1. phase # "end" /\ program' = program
    BY <1>7, Zenon DEF Type
  <2> QED BY <2>1 DEF Inv
<1>8. CASE Step \/ Stops
  BY <1>3, <1>4, <1>6, <1>8, Zenon DEF Step, Stops, Boards
<1>9. CASE Typing
  <2>1. Type /\ app' = app /\ program # "app" /\ program' = program
    BY <1>7, <1>9 DEF Typing
  <2>2. program = "posix" \/ program \in Boards
    BY <1>1, <2>1 DEF Boards
  <2> QED BY <1>3, <1>5, <2>1, <2>2
<1> QED BY <1>2, <1>8, <1>9 DEF Next

THEOREM InvAlways == Spec => []Inv
<1> QED BY InitInv, NextInv, PTL DEF Spec

-----------------------------------------------------------------------------
(***************************************************************************)
(* The globals of the interactive programs, the record in flash and the    *)
(* run of nm2_host or nm2_client are of their types.                       *)
(***************************************************************************)
THEOREM DemosTypes == Spec => []TypeOK
<1>1. Inv => TypeOK
  BY Zenon DEF Inv, TypeOK, Phases
<1> QED BY <1>1, InvAlways, PTL

(***************************************************************************)
(* A browse, a session and what they hold live in their own states and     *)
(* nowhere else, and a board's loop is not left with a session.            *)
(***************************************************************************)
THEOREM DemosLeaveNothing == Spec => []NothingLeftBehind
<1>1. ASSUME Inv PROVE NothingLeftBehind
  <2>1. program \in {"posix", "lwip", "rtos", "app"}
    BY <1>1, FourPrograms DEF Inv
  <2>2. BrowseOnlyWhileResolving /\ (g.session # "none" => g.state = "SESSION_RUN")
    <3>1. CASE program = "posix"
      <4>1. PosixSound(phase, g)
        BY <1>1, <3>1 DEF Inv
      <4> QED BY <4>1, Zenon DEF PosixSound, BrowseOnlyWhileResolving
    <3>2. CASE program \in Boards
      <4>1. BoardSound(g)
        BY <1>1, <3>2 DEF Inv
      <4> QED BY <4>1, Zenon DEF BoardSound, BrowseOnlyWhileResolving
    <3>3. CASE program = "app"
      BY <1>1, <3>3, Zenon DEF Inv, BrowseOnlyWhileResolving
    <3> QED BY <2>1, <3>1, <3>2, <3>3 DEF Boards
  <2>3. ASSUME program \in Boards
        PROVE  /\ g.held <=> g.session # "none"
               /\ phase = "top" /\ ~g.running => g.state # "SESSION_RUN"
    <3>1. BoardSound(g) /\ Offers(phase, g)
      BY <1>1, <2>3 DEF Inv
    <3> QED BY <3>1, Zenon DEF BoardSound, Offers
  <2> QED BY <2>2, <2>3, Zenon DEF NothingLeftBehind, SessionOnlyInRun, BoardsOfferRepeat
<1> QED BY <1>1, InvAlways, PTL

(***************************************************************************)
(* "Same role" at the repeat prompt of the desktop and the FreeRTOS        *)
(* program is the role the user picked last.                               *)
(***************************************************************************)
THEOREM RepeatIsSameRole == Spec => []RepeatsRole
<1>1. ASSUME Inv PROVE RepeatsRole
  <2>1. program \in {"posix", "lwip", "rtos", "app"}
    BY <1>1, FourPrograms DEF Inv
  <2>2. CASE program = "posix"
    <3>1. PosixSound(phase, g)
      BY <1>1, <2>2 DEF Inv
    <3> QED BY <3>1, Zenon DEF PosixSound, RepeatsRole, SameRole
  <2>3. CASE program = "rtos"
    <3>1. RoleSound(g)
      BY <1>1, <2>3 DEF Inv
    <3> QED BY <3>1 DEF RoleSound, RoleStates, RepeatsRole, SameRole
  <2>4. CASE program = "app"
    <3>1. g.state = "WIFI_SSID"
      BY <1>1, <2>4 DEF Inv
    <3> QED BY <3>1 DEF RepeatsRole, SameRole
  <2> QED BY <2>1, <2>2, <2>3, <2>4 DEF RepeatsRole
<1> QED BY <1>1, InvAlways, PTL

(***************************************************************************)
(* nm2_host and nm2_client, once they have had a connection, end with the  *)
(* Bye answered or given up, and never with a browse or a service left.    *)
(***************************************************************************)
THEOREM AppEndsCleanly == Spec => []EndsCleanly
<1>1. ASSUME Inv PROVE EndsCleanly
  <2>1. AppSound(app)
    BY <1>1 DEF Inv
  <2> QED BY <2>1, Zenon DEF AppSound, EndsCleanly, At
<1> QED BY <1>1, InvAlways, PTL

(***************************************************************************)
(* A board's session is not ended by what was typed before it began.       *)
(***************************************************************************)
THEOREM BoardsQuitOnFreshInput == Spec => QuitsOnFreshInput
<1> DEFINE A == /\ program \in Boards
                /\ g.state = "SESSION_RUN" /\ g.running /\ g'.state = "SESSION_RUN" /\ ~g'.running
                /\ g.session # "none" /\ phase = "cli"
                => ~g.line.stale
<1>1. Inv /\ [Next]_vars => [A]_vars
  <2> SUFFICES ASSUME Inv, program \in Boards PROVE ~g.line.stale
    OBVIOUS
  <2>1. BoardSound(g)
    BY DEF Inv
  <2> QED BY <2>1 DEF BoardSound, Fresh
<1>2. Spec => [][A]_vars
  BY <1>1, InvAlways, PTL DEF Spec
<1> QED BY <1>2 DEF QuitsOnFreshInput
=============================================================================
