---------------------------- MODULE HcdEpx_proofs ----------------------------
(***************************************************************************)
(* Proof that the shared control endpoint never waits for what nothing     *)
(* will report, and that only a report nobody awaited leads to the panic,  *)
(* for any set of addresses and any length of the event queue.             *)
(***************************************************************************)
EXTENDS HcdEpx, SequenceTheorems, TLAPS

HasSuccess(s) == \E i \in DOMAIN s : s[i] = "SUCCESS"

OneReport(s) ==
    \A i, j \in DOMAIN s : s[i] \in Results /\ s[j] \in Results => i = j

\* An interrupt is served before another condition arises, and has room.
TypeInv ==
    /\ TypeOK
    /\ \A i, j \in c.ints : i = j
    /\ c.ints # {} => Len(c.events) <= MaxEvents

\* What the thread has begun is under way, reported, or taken back.
WaitInv ==
    /\ pc \in {"task", "other"} /\ stage # "IDLE" =>
         HasReport(c.events) \/ (c.active /\ c.alarm)
    /\ pc \in {"ready", "started"} => c.active \/ HasReport(c.events)
    /\ stage # "IDLE" /\ pc \notin {"scrub", "scrubbed"} => c.dev = dev
    /\ pc = "close" => stage = "IDLE"
    /\ pc \in {"scrub", "scrubbed", "ready", "started", "next", "ended"} => stage # "IDLE"

\* As long as every report was awaited: at most one is queued, and what an
\* interrupt is about to report is the transfer that is under way.
QueueInv ==
    /\ HasReport(c.events) => ~c.active
    /\ OneReport(c.events)
    /\ HasSuccess(c.events) => ~c.avail
    /\ c.ints # {} => c.active \/ HasReport(c.events)
    /\ "buff" \in c.ints => ~c.avail /\ ~c.setup
    /\ "trans" \in c.ints => ~c.avail

\* ... and the buffer is free wherever the thread hands it over.
BufferInv ==
    /\ c.active /\ c.setup => ~c.avail
    /\ c.active /\ pc # "ready" => (c.bus = "setup" => c.setup) /\ (c.bus = "data" => ~c.setup)
    /\ pc \in {"next", "ended", "scrub", "scrubbed"} =>
         ~c.active /\ ~HasReport(c.events) /\ c.ints = {}
    /\ pc \in {"scrubbed", "next"} => ~c.avail
    /\ stage = "IDLE" /\ pc \in {"task", "other"} => ~c.active
    /\ ~c.panic

StaleInv == ~c.stale => QueueInv /\ BufferInv

-----------------------------------------------------------------------------
(* The event queue.                                                         *)

LEMMA AppendFacts ==
    ASSUME NEW s \in Seq(Events), NEW e \in Events
    PROVE  /\ Append(s, e) \in Seq(Events)
           /\ Len(Append(s, e)) = Len(s) + 1
           /\ HasReport(Append(s, e)) <=> (HasReport(s) \/ e \in Results)
           /\ HasSuccess(Append(s, e)) <=> (HasSuccess(s) \/ e = "SUCCESS")
           /\ OneReport(s) /\ (e \in Results => ~HasReport(s)) => OneReport(Append(s, e))
  <1> DEFINE t == Append(s, e)
  <1>1. t \in Seq(Events) /\ Len(t) = Len(s) + 1 /\ DOMAIN s = 1 .. Len(s)
        /\ DOMAIN t = 1 .. Len(s) + 1
        /\ Len(s) \in Nat
        /\ (\A i \in 1 .. Len(s) : t[i] = s[i]) /\ t[Len(s) + 1] = e
    BY LenProperties, AppendProperties
  <1>2. \A i : i \in DOMAIN t <=> (i \in DOMAIN s \/ i = Len(s) + 1)
    BY <1>1
  <1>3. \A i \in DOMAIN s : i # Len(s) + 1 /\ t[i] = s[i]
    BY <1>1
  <1> HIDE DEF t
  <1>4. HasReport(t) <=> (HasReport(s) \/ e \in Results)
    BY <1>1, <1>2, <1>3 DEF HasReport
  <1>5. HasSuccess(t) <=> (HasSuccess(s) \/ e = "SUCCESS")
    BY <1>1, <1>2, <1>3 DEF HasSuccess
  <1>6. OneReport(s) /\ (e \in Results => ~HasReport(s)) => OneReport(t)
    BY <1>1, <1>2, <1>3 DEF HasReport, OneReport
  <1> QED BY <1>1, <1>4, <1>5, <1>6 DEF t

LEMMA TailFacts ==
    ASSUME NEW s \in Seq(Events), s # <<>>
    PROVE  /\ Tail(s) \in Seq(Events) /\ Len(Tail(s)) = Len(s) - 1 /\ Len(s) \in Nat
           /\ Head(s) \in Events
           /\ HasReport(Tail(s)) => HasReport(s)
           /\ HasSuccess(Tail(s)) => HasSuccess(s)
           /\ OneReport(s) => OneReport(Tail(s))
           /\ OneReport(s) /\ Head(s) \in Results => ~HasReport(Tail(s))
           /\ HasReport(s) /\ Head(s) \notin Results => HasReport(Tail(s))
           /\ Head(s) = "SUCCESS" => HasSuccess(s)
           /\ Head(s) \in Results => HasReport(s)
  <1> DEFINE t == Tail(s)
             h == Head(s)
  <1>1. /\ t \in Seq(Events) /\ Len(t) = Len(s) - 1 /\ Len(s) \in Nat /\ Len(s) >= 1
        /\ h \in Events /\ h = s[1]
        /\ DOMAIN s = 1 .. Len(s) /\ DOMAIN t = 1 .. Len(s) - 1
        /\ \A i \in 1 .. Len(s) - 1 : t[i] = s[i + 1]
    BY LenProperties, HeadTailProperties, EmptySeq
  <1>2. 1 \in DOMAIN s /\ \A i \in DOMAIN t : i + 1 \in DOMAIN s /\ i + 1 # 1 /\ t[i] = s[i + 1]
    BY <1>1
  <1>3. \A i \in DOMAIN s : i = 1 \/ (i - 1 \in DOMAIN t /\ t[i - 1] = s[i])
    BY <1>1
  <1>4. \A i, j \in DOMAIN t : i + 1 = j + 1 => i = j
    BY <1>1
  <1> HIDE DEF t, h
  <1>5. HasReport(t) => HasReport(s)
    BY <1>2 DEF HasReport
  <1>6. HasSuccess(t) => HasSuccess(s)
    BY <1>2 DEF HasSuccess
  <1>7. OneReport(s) => OneReport(t)
    BY <1>2, <1>4 DEF OneReport
  <1>8. OneReport(s) /\ h \in Results => ~HasReport(t)
    BY <1>1, <1>2 DEF OneReport, HasReport
  <1>9. HasReport(s) /\ h \notin Results => HasReport(t)
    BY <1>1, <1>3 DEF HasReport
  <1>10. (h = "SUCCESS" => HasSuccess(s)) /\ (h \in Results => HasReport(s))
    BY <1>1, <1>2 DEF HasReport, HasSuccess
  <1> QED BY <1>1, <1>5, <1>6, <1>7, <1>8, <1>9, <1>10 DEF t, h

-----------------------------------------------------------------------------
(* The operations on the endpoint.                                          *)

\* A report: the endpoint is idle, its alarm cancelled, its result queued.
LEMMA CompleteFacts ==
    ASSUME NEW r \in Epx, NEW res \in Results
    PROVE  LET s == hw_xfer_complete(r, res)
           IN  /\ s \in Epx
               /\ s.dev = r.dev /\ s.bus = r.bus /\ s.ints = r.ints
               /\ s.setup = r.setup /\ s.avail = r.avail /\ s.panic = r.panic
               /\ ~s.active /\ ~s.alarm
               /\ s.stale <=> (r.stale \/ ~r.active)
               /\ s.events = Append(r.events, res)
  <1>1. Append(r.events, res) \in Seq(Events)
    BY AppendFacts DEF Epx, Events
  <1>2. r \in [dev : Addresses, setup : BOOLEAN, active : BOOLEAN, avail : BOOLEAN,
               alarm : BOOLEAN, bus : {"none", "setup", "data"},
               ints : SUBSET {"trans", "stall", "buff", "rxTimeout"},
               events : Seq(Events), panic : BOOLEAN, stale : BOOLEAN]
    BY DEF Epx
  <1> QED
    BY <1>1, <1>2 DEF hw_xfer_complete, hw_endpoint_reset_transfer, epx_xfer_timeout_cancel, Epx

\* One condition at a time: the interrupt reports, finds the endpoint idle, or
\* goes on to the next buffer of the transfer.
Reports(r, i, s) ==
    \E res \in Results :
        /\ s = [hw_xfer_complete(r, res) EXCEPT !.ints = {}]
        /\ i \in {"stall", "trans"} \/ r.active
        /\ res = "SUCCESS" => i \in {"buff", "trans"}

Ignores(r, i, s) == s = [r EXCEPT !.ints = {}] /\ ~r.active /\ i \in {"buff", "rxTimeout"}

Continues(r, i, s) ==
    s = [r EXCEPT !.avail = TRUE, !.bus = "data", !.ints = {}] /\ r.active /\ i = "buff"

LEMMA InterruptFacts ==
    ASSUME NEW r \in Epx, NEW i, r.ints = {i},
           NEW q \in hw_handle_buff_status(Stalled(r))
    PROVE  LET s == [RxTimedOut(hw_trans_complete(q)) EXCEPT !.ints = {}]
           IN  Reports(r, i, s) \/ Ignores(r, i, s) \/ Continues(r, i, s)
  <1> DEFINE s == [RxTimedOut(hw_trans_complete(q)) EXCEPT !.ints = {}]
             C(res) == hw_xfer_complete(r, res)
             more == [r EXCEPT !.avail = TRUE, !.bus = "data"]
  <1>0. i \in {"trans", "stall", "buff", "rxTimeout"}
    BY DEF Epx
  <1>1. \A res \in Results : C(res) \in Epx /\ C(res).ints = {i} /\ ~C(res).active
    BY CompleteFacts
  <1>2. {"SUCCESS", "STALLED", "TIMEOUT"} = Results
    BY DEF Results
  <1>3. more.ints = {i} /\ [more EXCEPT !.ints = {}] = [r EXCEPT !.avail = TRUE, !.bus = "data", !.ints = {}]
    BY DEF Epx
  <1> HIDE DEF C, more
  <1>4. CASE i = "stall"
    <2>1. Stalled(r) = C("STALLED")
      BY <1>4 DEF Stalled, C
    <2>2. q = C("STALLED")
      BY <2>1, <1>1, <1>2, <1>4 DEF hw_handle_buff_status
    <2>3. hw_trans_complete(q) = C("STALLED")
      BY <2>2, <1>1, <1>2, <1>4 DEF hw_trans_complete
    <2>4. RxTimedOut(hw_trans_complete(q)) = C("STALLED")
      BY <2>3, <1>1, <1>2, <1>4 DEF RxTimedOut
    <2>5. Reports(r, i, s)
      BY <2>4, <1>2, <1>4 DEF Reports, C
    <2> QED BY <2>5
  <1>5. CASE i = "trans"
    <2>1. Stalled(r) = r
      BY <1>5 DEF Stalled
    <2>2. q = r
      BY <2>1, <1>5 DEF hw_handle_buff_status
    <2>3. hw_trans_complete(q) = C("SUCCESS")
      BY <2>2, <1>5 DEF hw_trans_complete, C
    <2>4. RxTimedOut(hw_trans_complete(q)) = C("SUCCESS")
      BY <2>3, <1>1, <1>2, <1>5 DEF RxTimedOut
    <2>5. Reports(r, i, s)
      BY <2>4, <1>2, <1>5 DEF Reports, C
    <2> QED BY <2>5
  <1>6. CASE i = "rxTimeout"
    <2>1. Stalled(r) = r
      BY <1>6 DEF Stalled
    <2>2. q = r
      BY <2>1, <1>6 DEF hw_handle_buff_status
    <2>3. hw_trans_complete(q) = r
      BY <2>2, <1>6 DEF hw_trans_complete
    <2>4. CASE r.active
      <3>1. RxTimedOut(hw_trans_complete(q)) = C("TIMEOUT")
        BY <2>3, <2>4, <1>6 DEF RxTimedOut, C
      <3>2. Reports(r, i, s)
        BY <3>1, <2>4, <1>2 DEF Reports, C
      <3> QED BY <3>2
    <2>5. CASE ~r.active
      <3>1. RxTimedOut(hw_trans_complete(q)) = r
        BY <2>3, <2>5 DEF RxTimedOut
      <3>2. Ignores(r, i, s)
        BY <3>1, <2>5, <1>6 DEF Ignores
      <3> QED BY <3>2
    <2> QED BY <2>4, <2>5
  <1>7. CASE i = "buff"
    <2>1. Stalled(r) = r
      BY <1>7 DEF Stalled
    <2>2. CASE r.active
      <3>1. q = C("SUCCESS") \/ q = more
        BY <2>1, <2>2, <1>7 DEF hw_handle_buff_status, C, more
      <3>2. q.ints = {i}
        BY <3>1, <1>1, <1>2, <1>3
      <3>3. RxTimedOut(hw_trans_complete(q)) = q
        BY <3>2, <1>7 DEF RxTimedOut, hw_trans_complete
      <3>4. CASE q = C("SUCCESS")
        BY <3>3, <3>4, <2>2, <1>2, <1>7 DEF Reports, C
      <3>5. CASE q = more
        <4>1. s = [r EXCEPT !.avail = TRUE, !.bus = "data", !.ints = {}]
          BY <3>3, <3>5, <1>3
        <4> QED BY <4>1, <2>2, <1>7 DEF Continues
      <3> QED BY <3>1, <3>4, <3>5
    <2>3. CASE ~r.active
      <3>1. q = r
        BY <2>1, <2>3 DEF hw_handle_buff_status
      <3>2. RxTimedOut(hw_trans_complete(q)) = r
        BY <3>1, <1>7 DEF RxTimedOut, hw_trans_complete
      <3>3. Ignores(r, i, s)
        BY <3>2, <2>3, <1>7 DEF Ignores
      <3> QED BY <3>3
    <2> QED BY <2>2, <2>3
  <1> QED BY <1>0, <1>4, <1>5, <1>6, <1>7

LEMMA InterruptStep ==
    ASSUME TypeInv, hcd_rp2040_irq
    PROVE  /\ c' \in Epx /\ c'.ints = {} /\ UNCHANGED <<pc, stage, dev>>
           /\ \E i \in c.ints : Reports(c, i, c') \/ Ignores(c, i, c') \/ Continues(c, i, c')
  <1>1. PICK i \in c.ints : c.ints = {i}
    BY DEF TypeInv, hcd_rp2040_irq
  <1>2. c \in Epx
    BY DEF TypeInv, TypeOK
  <1>3. PICK r \in hw_handle_buff_status(Stalled(c)) :
          c' = [RxTimedOut(hw_trans_complete(r)) EXCEPT !.ints = {}]
    BY DEF hcd_rp2040_irq
  <1>4. Reports(c, i, c') \/ Ignores(c, i, c') \/ Continues(c, i, c')
    BY <1>1, <1>2, <1>3, InterruptFacts
  <1>5. c' \in Epx /\ c'.ints = {}
    <2>1. CASE Reports(c, i, c')
      <3>1. PICK res \in Results : c' = [hw_xfer_complete(c, res) EXCEPT !.ints = {}]
        BY <2>1 DEF Reports
      <3>2. hw_xfer_complete(c, res) \in Epx
        BY <1>2, CompleteFacts
      <3> QED BY <3>1, <3>2 DEF Epx
    <2>2. CASE Ignores(c, i, c')
      BY <2>2, <1>2 DEF Ignores, Epx
    <2>3. CASE Continues(c, i, c')
      BY <2>3, <1>2 DEF Continues, Epx
    <2> QED BY <1>4, <2>1, <2>2, <2>3
  <1>6. UNCHANGED <<pc, stage, dev>>
    BY DEF hcd_rp2040_irq
  <1> QED BY <1>1, <1>4, <1>5, <1>6

-----------------------------------------------------------------------------
(* Types and the bound of the queue.                                        *)

LEMMA TypeInit == Init => TypeInv
  <1> SUFFICES ASSUME Init PROVE TypeInv
    OBVIOUS
  <1>1. <<>> \in Seq(Events) /\ Len(<<>>) = 0
    BY EmptySeq
  <1>2. c \in Epx
    BY <1>1 DEF Init, Epx
  <1>3. c.events = <<>> /\ c.ints = {}
    BY DEF Init
  <1>4. MaxEvents \in Nat
    BY EpxAssumption
  <1>5. Len(c.events) <= MaxEvents + 1
    BY <1>1, <1>3, <1>4
  <1>6. pc = "task" /\ stage = "IDLE" /\ dev \in Addresses
    BY DEF Init
  <1> QED BY <1>2, <1>3, <1>5, <1>6 DEF TypeInv, TypeOK

LEMMA TypeStep == TypeInv /\ [Next]_vars => TypeInv'
  <1> SUFFICES ASSUME TypeInv, [Next]_vars PROVE TypeInv'
    OBVIOUS
  <1> USE EpxAssumption
  <1>0. /\ c \in Epx /\ dev \in Addresses /\ c.events \in Seq(Events) /\ Len(c.events) \in Nat
        /\ Len(c.events) <= MaxEvents + 1 /\ MaxEvents \in Nat
        /\ stage \in {"IDLE", "SETUP", "DATA", "ACK"}
        /\ pc \in {"task", "scrub", "scrubbed", "ready", "started", "close", "next", "ended", "other"}
        /\ \A i, j \in c.ints : i = j
    BY LenProperties DEF TypeInv, TypeOK, Epx
  <1> DEFINE Places == pc' \in {"task", "scrub", "scrubbed", "ready", "started", "close", "next", "ended", "other"}
                       /\ stage' \in {"IDLE", "SETUP", "DATA", "ACK"} /\ dev' \in Addresses
             Same == c' \in Epx /\ c'.ints = c.ints /\ c'.events = c.events
  <1>1. ASSUME Places, Same PROVE TypeInv'
    <2>1. TypeOK'
      BY <1>0, <1>1 DEF TypeOK
    <2>2. (\A i, j \in c.ints : i = j)' /\ (c.ints # {} => Len(c.events) <= MaxEvents)'
      BY <1>0, <1>1 DEF TypeInv
    <2> QED BY <2>1, <2>2 DEF TypeInv
  <1>2. ASSUME Places, c.ints = {}, c.events # <<>>, c' = Taken PROVE TypeInv'
    <2>1. c' \in Epx /\ c'.ints = {} /\ c'.events = Tail(c.events)
      BY <1>0, <1>2, TailFacts DEF Taken, Epx
    <2>2. Len(c'.events) <= MaxEvents + 1
      BY <1>0, <1>2, <2>1, TailFacts
    <2> QED BY <1>2, <2>1, <2>2 DEF TypeInv, TypeOK
  <1> HIDE DEF Same
  <1>3. ASSUME Thread PROVE TypeInv'
    <2>0. c.ints = {} /\ ~c.panic /\ Calls
      BY <1>3 DEF Thread
    <2>1. ASSUME NEW d \in Addresses, hcd_setup_send(d) PROVE TypeInv'
      <3>1. Same
        BY <1>0, <2>1 DEF Same, hcd_setup_send, epx_xfer_timeout_cancel, Epx
      <3>2. Places
        BY <1>0, <2>1 DEF hcd_setup_send
      <3> QED BY <1>1, <3>1, <3>2
    <2>2. CASE Scrub
      <3>1. Same
        BY <1>0, <2>2 DEF Same, Scrub, hw_endpoint_reset_transfer, Epx
      <3>2. Places
        BY <1>0, <2>2 DEF Scrub
      <3> QED BY <1>1, <3>1, <3>2
    <2>3. CASE SetupReady
      <3>1. Same
        BY <1>0, <2>3 DEF Same, SetupReady, Epx
      <3>2. Places
        BY <1>0, <2>3 DEF SetupReady
      <3> QED BY <1>1, <3>1, <3>2
    <2>4. CASE Start
      <3>1. Same
        BY <1>0, <2>4 DEF Same, Start, Epx
      <3>2. Places
        BY <1>0, <2>4 DEF Start
      <3> QED BY <1>1, <3>1, <3>2
    <2>5. CASE Arm
      <3>1. Same
        BY <1>0, <2>5 DEF Same, Arm, epx_xfer_timeout_arm, Epx
      <3>2. Places
        BY <1>0, <2>5 DEF Arm
      <3> QED BY <1>1, <3>1, <3>2
    <2>6. CASE Closed
      <3>1. Same
        BY <1>0, <2>6 DEF Same, Closed, hw_endpoint_reset_transfer, Epx
      <3>2. Places
        BY <1>0, <2>6 DEF Closed
      <3> QED BY <1>1, <3>1, <3>2
    <2>7. CASE ControlReport
      BY <1>0, <1>2, <2>0, <2>7 DEF ControlReport
    <2>8. CASE NextStage
      <3>1. PICK t \in {"DATA", "ACK"} : hcd_edpt_xfer(t)
        BY <2>8 DEF NextStage
      <3>2. Same
        <4>1. CASE c.avail
          BY <1>0, <3>1, <4>1 DEF Same, hcd_edpt_xfer, Epx
        <4>2. CASE ~c.avail
          BY <1>0, <3>1, <4>2 DEF Same, hcd_edpt_xfer, Epx
        <4> QED BY <4>1, <4>2
      <3>3. Places
        BY <1>0, <2>8, <3>1 DEF NextStage, hcd_edpt_xfer
      <3> QED BY <1>1, <3>2, <3>3
    <2>9. CASE Ended
      <3>1. CASE pc' = "task" /\ stage' = "IDLE" /\ UNCHANGED <<dev, c>>
        BY <1>0, <1>1, <3>1 DEF Same
      <3>2. CASE \E d \in Addresses : hcd_setup_send(d)
        BY <2>1, <3>2
      <3> QED BY <2>9, <3>1, <3>2 DEF Ended
    <2>10. CASE OtherEvent
      BY <1>0, <1>2, <2>0, <2>10 DEF OtherEvent
    <2>11. CASE Other
      <3>1. PICK d \in Addresses : hcd_setup_send(d) \/ hcd_device_close(d)
        BY <2>11 DEF Other
      <3>2. CASE hcd_device_close(d)
        <4>1. Same
          BY <1>0, <3>2 DEF Same, hcd_device_close, epx_xfer_timeout_cancel, Epx
        <4>2. Places
          BY <1>0, <3>2 DEF hcd_device_close
        <4> QED BY <1>1, <4>1, <4>2
      <3> QED BY <2>1, <3>1, <3>2
    <2> QED BY <2>0, <2>2, <2>3, <2>4, <2>5, <2>6, <2>7, <2>8, <2>9, <2>10, <2>11 DEF Calls
  <1>4. ASSUME Alarm PROVE TypeInv'
    <2>1. epx_xfer_timeout_cb /\ Places
      BY <1>0, <1>4 DEF Alarm, epx_xfer_timeout_cb
    <2>2. CASE c.active
      <3> DEFINE r == [c EXCEPT !.ints = @ \ {"buff"}]
      <3>1. r \in Epx /\ r.ints = c.ints \ {"buff"} /\ r.events = c.events
        BY <1>0 DEF Epx
      <3>2. c' = hw_xfer_complete(r, "TIMEOUT") /\ "TIMEOUT" \in Results /\ Results \subseteq Events
        BY <2>1, <2>2 DEF epx_xfer_timeout_cb, Results, Events
      <3> HIDE DEF r
      <3>3. c' \in Epx /\ c'.ints = r.ints /\ c'.events = Append(r.events, "TIMEOUT")
        BY <3>1, <3>2, CompleteFacts
      <3>4. Len(c.events) < MaxEvents
        BY <2>1 DEF epx_xfer_timeout_cb, HasRoom
      <3>5. Len(c'.events) = Len(c.events) + 1
        BY <1>0, <3>1, <3>2, <3>3, AppendFacts
      <3>6. Len(c'.events) <= MaxEvents /\ Len(c'.events) <= MaxEvents + 1
        BY <1>0, <3>4, <3>5
      <3>7. \A i, j \in c'.ints : i = j
        BY <1>0, <3>1, <3>3
      <3> QED BY <2>1, <3>3, <3>6, <3>7 DEF TypeInv, TypeOK
    <2>3. CASE ~c.active
      <3>1. Same
        BY <1>0, <2>1, <2>3 DEF Same, epx_xfer_timeout_cb, Epx
      <3> QED BY <1>1, <2>1, <3>1
    <2> QED BY <2>2, <2>3
  <1>5. ASSUME Interrupt PROVE TypeInv'
    <2>1. hcd_rp2040_irq /\ c.ints # {}
      BY <1>5 DEF Interrupt, hcd_rp2040_irq
    <2>2. c' \in Epx /\ c'.ints = {} /\ Places
      BY <1>0, <2>1, InterruptStep
    <2>3. PICK i \in c.ints : Reports(c, i, c') \/ Ignores(c, i, c') \/ Continues(c, i, c')
      BY <2>1, InterruptStep
    <2>4. Len(c.events) <= MaxEvents
      BY <2>1 DEF TypeInv
    <2>5. Len(c'.events) <= MaxEvents + 1
      <3>1. CASE Reports(c, i, c')
        <4>1. PICK res \in Results : c' = [hw_xfer_complete(c, res) EXCEPT !.ints = {}]
          BY <3>1 DEF Reports
        <4>2. hw_xfer_complete(c, res) \in Epx /\ hw_xfer_complete(c, res).events = Append(c.events, res)
          BY <1>0, CompleteFacts
        <4>3. c'.events = Append(c.events, res)
          BY <4>1, <4>2 DEF Epx
        <4>4. res \in Events
          BY DEF Events
        <4> QED BY <1>0, <2>4, <4>3, <4>4, AppendFacts
      <3>2. CASE Ignores(c, i, c')
        BY <1>0, <2>4, <3>2 DEF Ignores, Epx
      <3>3. CASE Continues(c, i, c')
        BY <1>0, <2>4, <3>3 DEF Continues, Epx
      <3> QED BY <2>3, <3>1, <3>2, <3>3
    <2> QED BY <2>2, <2>5 DEF TypeInv, TypeOK
  <1>6. ASSUME Answer PROVE TypeInv'
    <2>1. PICK i \in Outcomes, over \in BOOLEAN :
            c' = [c EXCEPT !.ints = {i}, !.avail = @ /\ i # "buff",
                           !.bus = IF over THEN "none" ELSE @, !.stale = @ \/ GivenUp]
      BY <1>6 DEF Answer
    <2>2. c.bus \in {"none", "setup", "data"}
      BY <1>0 DEF Epx
    <2>3. i \in {"trans", "stall", "buff", "rxTimeout"}
      <3>1. CASE c.bus = "none"
        BY <3>1, <2>1 DEF Outcomes
      <3>2. CASE c.bus = "setup"
        BY <3>2, <2>1 DEF Outcomes
      <3>3. CASE c.bus = "data"
        BY <3>3, <2>1 DEF Outcomes
      <3> QED BY <2>2, <3>1, <3>2, <3>3
    <2>4. c' \in Epx /\ c'.ints = {i} /\ c'.events = c.events
      BY <1>0, <2>1, <2>3 DEF Epx
    <2>5. Places /\ Len(c.events) < MaxEvents
      BY <1>0, <1>6 DEF Answer, HasRoom
    <2>6. Len(c'.events) <= MaxEvents /\ Len(c'.events) <= MaxEvents + 1
      BY <1>0, <2>4, <2>5
    <2> QED BY <2>4, <2>5, <2>6 DEF TypeInv, TypeOK
  <1>7. ASSUME Post PROVE TypeInv'
    <2>1. "OTHER" \in Events
      BY DEF Events
    <2>2. Append(c.events, "OTHER") \in Seq(Events) /\ Len(Append(c.events, "OTHER")) = Len(c.events) + 1
      BY <1>0, <2>1, AppendFacts
    <2>3. c' \in Epx /\ c'.ints = c.ints /\ c'.events = Append(c.events, "OTHER")
      BY <1>0, <1>7, <2>2 DEF Post, Epx
    <2>4. Places /\ Len(c.events) < MaxEvents
      BY <1>0, <1>7 DEF Post, HasRoom
    <2>5. Len(c'.events) <= MaxEvents /\ Len(c'.events) <= MaxEvents + 1
      BY <1>0, <2>2, <2>3, <2>4
    <2> QED BY <1>0, <2>3, <2>4, <2>5 DEF TypeInv, TypeOK
  <1>8. CASE UNCHANGED vars
    BY <1>0, <1>1, <1>8 DEF vars, Same
  <1> QED BY <1>3, <1>4, <1>5, <1>6, <1>7, <1>8 DEF Next, Environment
-----------------------------------------------------------------------------
(* What a step does to what is awaited.                                     *)

LEMMA SafeInit == Init => WaitInv /\ StaleInv
  <1> SUFFICES ASSUME Init PROVE WaitInv /\ StaleInv
    OBVIOUS
  <1>1. DOMAIN <<>> = {}
    OBVIOUS
  <1>2. ~HasReport(<<>>) /\ ~HasSuccess(<<>>) /\ OneReport(<<>>)
    BY <1>1 DEF HasReport, HasSuccess, OneReport
  <1>3. /\ c.events = <<>> /\ c.ints = {} /\ ~c.active /\ ~c.avail /\ ~c.panic
        /\ pc = "task" /\ stage = "IDLE"
    BY DEF Init
  <1>4. WaitInv
    BY <1>3 DEF WaitInv
  <1>5. QueueInv
    BY <1>2, <1>3 DEF QueueInv
  <1>6. BufferInv
    BY <1>3 DEF BufferInv
  <1> QED BY <1>4, <1>5, <1>6 DEF StaleInv

Begins ==
    \E d \in Addresses : (pc = "ended" \/ (pc = "other" /\ stage = "IDLE")) /\ hcd_setup_send(d)

\* The steps of the thread that leave the queue alone.
LEMMA CallStep ==
    ASSUME TypeInv, WaitInv, StaleInv, c.ints = {},
           Begins \/ Scrub \/ SetupReady \/ Start \/ Arm \/ Closed
    PROVE  WaitInv' /\ StaleInv'
  <1>0. c \in Epx /\ c.ints = {} /\ (HasSuccess(c.events) => HasReport(c.events))
    BY DEF TypeInv, TypeOK, HasSuccess, HasReport, Results
  <1>1. ASSUME NEW d \in Addresses, pc = "ended" \/ (pc = "other" /\ stage = "IDLE"), hcd_setup_send(d)
        PROVE  WaitInv' /\ StaleInv'
    <2>1. /\ c'.ints = {} /\ c'.events = c.events /\ c'.active = c.active /\ c'.avail = c.avail
          /\ c'.setup = c.setup /\ c'.bus = c.bus /\ c'.panic = c.panic
          /\ c'.stale = (c.stale \/ HasReport(c.events))
          /\ pc' = "scrub" /\ stage' = "SETUP"
      BY <1>0, <1>1 DEF hcd_setup_send, epx_xfer_timeout_cancel, Epx
    <2>2. WaitInv'
      BY <2>1 DEF WaitInv
    <2>3. StaleInv'
      BY <1>1, <2>1 DEF StaleInv, QueueInv, BufferInv
    <2> QED BY <2>2, <2>3
  <1>2. CASE Scrub
    <2>1. /\ c'.ints = {} /\ c'.events = c.events /\ ~c'.active /\ ~c'.avail
          /\ c'.panic = c.panic /\ c'.stale = c.stale
          /\ pc = "scrub" /\ pc' = "scrubbed" /\ stage' = stage
      BY <1>0, <1>2 DEF Scrub, hw_endpoint_reset_transfer, Epx
    <2>2. WaitInv'
      BY <2>1 DEF WaitInv
    <2>3. StaleInv'
      BY <2>1 DEF StaleInv, QueueInv, BufferInv
    <2> QED BY <2>2, <2>3
  <1>3. CASE SetupReady
    <2>1. /\ c'.ints = {} /\ c'.events = c.events /\ c'.active /\ c'.avail = c.avail
          /\ c'.panic = c.panic /\ c'.stale = c.stale /\ c'.dev = dev
          /\ pc = "scrubbed" /\ pc' = "ready" /\ stage' = stage /\ dev' = dev
      BY <1>0, <1>3 DEF SetupReady, Epx
    <2>2. WaitInv'
      BY <2>1 DEF WaitInv
    <2>3. StaleInv'
      BY <2>1 DEF StaleInv, QueueInv, BufferInv
    <2> QED BY <2>2, <2>3
  <1>4. CASE Start
    <2>1. /\ c'.ints = {} /\ c'.events = c.events /\ c'.active = c.active /\ c'.avail = c.avail
          /\ c'.setup = c.setup /\ c'.panic = c.panic /\ c'.stale = c.stale /\ c'.dev = c.dev
          /\ c'.bus = IF c.setup THEN "setup" ELSE "data"
          /\ pc = "ready" /\ pc' = "started" /\ stage' = stage /\ dev' = dev
      BY <1>0, <1>4 DEF Start, Epx
    <2>2. WaitInv'
      BY <2>1 DEF WaitInv
    <2>3. StaleInv'
      BY <2>1 DEF StaleInv, QueueInv, BufferInv, WaitInv
    <2> QED BY <2>2, <2>3
  <1>5. CASE Arm
    <2>1. /\ c'.ints = {} /\ c'.events = c.events /\ c'.active = c.active /\ c'.avail = c.avail
          /\ c'.setup = c.setup /\ c'.panic = c.panic /\ c'.stale = c.stale /\ c'.dev = c.dev
          /\ c'.bus = c.bus /\ c'.alarm
          /\ pc = "started" /\ pc' = "task" /\ stage' = stage /\ dev' = dev
      BY <1>0, <1>5 DEF Arm, epx_xfer_timeout_arm, Epx
    <2>2. WaitInv'
      BY <2>1 DEF WaitInv
    <2>3. StaleInv'
      BY <2>1 DEF StaleInv, QueueInv, BufferInv, WaitInv
    <2> QED BY <2>2, <2>3
  <1>6. CASE Closed
    <2>1. /\ c'.ints = {} /\ c'.events = c.events /\ ~c'.active /\ ~c'.avail
          /\ c'.panic = c.panic /\ c'.stale = c.stale
          /\ pc = "close" /\ pc' = "task" /\ stage' = stage
      BY <1>0, <1>6 DEF Closed, hw_endpoint_reset_transfer, Epx
    <2>2. WaitInv'
      BY <2>1 DEF WaitInv
    <2>3. StaleInv'
      BY <2>1 DEF StaleInv, QueueInv, BufferInv
    <2> QED BY <2>2, <2>3
  <1> QED BY <1>1, <1>2, <1>3, <1>4, <1>5, <1>6 DEF Begins

\* A report is taken, the next stage started, or a device closed.
LEMMA TaskStep ==
    ASSUME TypeInv, WaitInv, StaleInv, c.ints = {}, ~c.panic,
           \/ ControlReport \/ NextStage \/ OtherEvent
           \/ pc = "other" /\ \E d \in Addresses : hcd_device_close(d)
           \/ pc = "ended" /\ pc' = "task" /\ stage' = "IDLE" /\ UNCHANGED <<dev, c>>
    PROVE  WaitInv' /\ StaleInv'
  <1>0. /\ c \in Epx /\ c.ints = {} /\ (HasSuccess(c.events) => HasReport(c.events))
        /\ c.events \in Seq(Events)
    BY DEF TypeInv, TypeOK, Epx, HasSuccess, HasReport, Results
  <1>1. ASSUME c.events # <<>>, c' = Taken
        PROVE  /\ c'.ints = {} /\ c'.events = Tail(c.events) /\ c'.active = c.active
               /\ c'.avail = c.avail /\ c'.alarm = c.alarm /\ c'.dev = c.dev
               /\ c'.setup = c.setup /\ c'.panic = c.panic /\ c'.stale = c.stale
               /\ c'.bus = c.bus
    BY <1>0, <1>1 DEF Taken, Epx
  <1>2. CASE ControlReport
    <2>1. /\ pc = "task" /\ c.events # <<>> /\ Head(c.events) \in Results /\ c' = Taken
          /\ stage' = stage /\ dev' = dev
          /\ stage = "IDLE" => pc' = "task"
          /\ stage # "IDLE" => pc' \in {"next", "ended"}
          /\ pc' = "next" => Head(c.events) = "SUCCESS"
      BY <1>2 DEF ControlReport
    <2>2. WaitInv'
      BY <1>1, <2>1 DEF WaitInv
    <2>3. /\ HasReport(c.events)
          /\ HasSuccess(Tail(c.events)) => HasSuccess(c.events)
          /\ OneReport(c.events) => OneReport(Tail(c.events)) /\ ~HasReport(Tail(c.events))
          /\ pc' = "next" => HasSuccess(c.events)
      BY <1>0, <2>1, TailFacts
    <2>4. ASSUME ~c.stale PROVE QueueInv'
      BY <1>1, <2>1, <2>3, <2>4 DEF StaleInv, QueueInv
    <2>5. ASSUME ~c.stale PROVE BufferInv'
      BY <1>1, <2>1, <2>3, <2>5 DEF StaleInv, QueueInv, BufferInv
    <2> QED BY <1>1, <2>1, <2>2, <2>4, <2>5 DEF StaleInv
  <1>3. CASE OtherEvent
    <2>1. /\ pc = "task" /\ c.events # <<>> /\ Head(c.events) \notin Results /\ c' = Taken
          /\ pc' = "other" /\ stage' = stage /\ dev' = dev
      BY <1>3 DEF OtherEvent, Results
    <2>2. /\ HasReport(Tail(c.events)) <=> HasReport(c.events)
          /\ HasSuccess(Tail(c.events)) => HasSuccess(c.events)
          /\ OneReport(c.events) => OneReport(Tail(c.events))
      BY <1>0, <2>1, TailFacts
    <2>3. WaitInv'
      BY <1>1, <2>1, <2>2 DEF WaitInv
    <2>4. ASSUME ~c.stale PROVE QueueInv'
      BY <1>1, <2>1, <2>2, <2>4 DEF StaleInv, QueueInv
    <2>5. ASSUME ~c.stale PROVE BufferInv'
      BY <1>1, <2>1, <2>2, <2>5 DEF StaleInv, BufferInv
    <2> QED BY <1>1, <2>1, <2>3, <2>4, <2>5 DEF StaleInv
  <1>4. CASE NextStage
    <2>1. PICK t \in {"DATA", "ACK"} : hcd_edpt_xfer(t) /\ pc = "next"
      BY <1>4 DEF NextStage
    <2>2. CASE c.avail
      <3>1. /\ c'.ints = {} /\ c'.dev = c.dev /\ c'.stale = c.stale
            /\ pc' = "next" /\ stage' # "IDLE" /\ dev' = dev
        BY <1>0, <2>1, <2>2 DEF hcd_edpt_xfer, Epx
      <3>2. WaitInv'
        BY <2>1, <3>1 DEF WaitInv
      <3>3. c.stale
        BY <2>1, <2>2 DEF StaleInv, BufferInv
      <3> QED BY <3>1, <3>2, <3>3 DEF StaleInv
    <2>3. CASE ~c.avail
      <3>1. /\ c'.ints = {} /\ c'.events = c.events /\ c'.active /\ ~c'.setup /\ c'.dev = c.dev
            /\ c'.panic = c.panic /\ c'.stale = c.stale
            /\ pc' = "ready" /\ stage' # "IDLE" /\ dev' = dev
        BY <1>0, <2>1, <2>3 DEF hcd_edpt_xfer, Epx
      <3>2. WaitInv'
        BY <2>1, <3>1 DEF WaitInv
      <3>3. StaleInv'
        BY <1>0, <2>1, <3>1 DEF StaleInv, QueueInv, BufferInv
      <3> QED BY <3>2, <3>3
    <2> QED BY <2>2, <2>3
  <1>5. ASSUME NEW d \in Addresses, pc = "other", hcd_device_close(d) PROVE WaitInv' /\ StaleInv'
    <2>1. /\ c'.ints = {} /\ c'.events = c.events /\ c'.active = c.active /\ c'.avail = c.avail
          /\ c'.setup = c.setup /\ c'.panic = c.panic /\ c'.stale = c.stale /\ c'.dev = c.dev
          /\ c'.bus = c.bus
          /\ stage' = (IF dev = d THEN "IDLE" ELSE stage) /\ dev' = dev
          /\ IF c.dev = d THEN pc' = "close" ELSE pc' = "task" /\ c' = c
      BY <1>0, <1>5 DEF hcd_device_close, epx_xfer_timeout_cancel, Epx
    <2>2. WaitInv'
      BY <1>5, <2>1 DEF WaitInv
    <2>3. ASSUME ~c.stale PROVE QueueInv'
      BY <2>1, <2>3 DEF StaleInv, QueueInv
    <2>4. ASSUME ~c.stale PROVE BufferInv'
      BY <1>5, <2>1, <2>4 DEF StaleInv, BufferInv, WaitInv
    <2> QED BY <2>1, <2>2, <2>3, <2>4 DEF StaleInv
  <1>6. CASE pc = "ended" /\ pc' = "task" /\ stage' = "IDLE" /\ UNCHANGED <<dev, c>>
    BY <1>6 DEF WaitInv, StaleInv, QueueInv, BufferInv
  <1> QED BY <1>2, <1>3, <1>4, <1>5, <1>6

\* The interrupt and the alarm report what is under way, or nothing.
LEMMA ReportStep ==
    ASSUME TypeInv, WaitInv, StaleInv, hcd_rp2040_irq \/ epx_xfer_timeout_cb
    PROVE  WaitInv' /\ StaleInv'
  <1>0. c \in Epx /\ c.events \in Seq(Events) /\ (HasSuccess(c.events) => HasReport(c.events))
    BY DEF TypeInv, TypeOK, Epx, HasSuccess, HasReport, Results
  <1>1. UNCHANGED <<pc, stage, dev>>
    BY InterruptStep DEF epx_xfer_timeout_cb
  <1>2. ASSUME NEW res \in Results,
               c'.events = Append(c.events, res), ~c'.active,
               c'.dev = c.dev, c'.avail = c.avail, c'.panic = c.panic,
               c'.stale <=> (c.stale \/ ~c.active),
               res = "SUCCESS" => "buff" \in c.ints \/ "trans" \in c.ints,
               "buff" \notin c'.ints, "trans" \notin c'.ints,
               c'.ints \subseteq c.ints
        PROVE  WaitInv' /\ StaleInv'
    <2>1. res \in Events
      BY DEF Events
    <2>2. /\ HasReport(c'.events)
          /\ HasSuccess(c'.events) <=> (HasSuccess(c.events) \/ res = "SUCCESS")
          /\ OneReport(c.events) /\ ~HasReport(c.events) => OneReport(c'.events)
      BY <1>0, <1>2, <2>1, AppendFacts
    <2>3. WaitInv'
      BY <1>1, <1>2, <2>2 DEF WaitInv
    <2>4. ASSUME ~c'.stale PROVE QueueInv'
      BY <1>2, <2>2, <2>4 DEF StaleInv, QueueInv
    <2>5. ASSUME ~c'.stale PROVE BufferInv'
      BY <1>1, <1>2, <2>5 DEF StaleInv, BufferInv
    <2> QED BY <2>3, <2>4, <2>5 DEF StaleInv
  <1>3. ASSUME ~c.active,
               c'.events = c.events, c'.active = c.active, c'.dev = c.dev, c'.avail = c.avail,
               c'.setup = c.setup, c'.panic = c.panic, c'.stale = c.stale, c'.ints \subseteq c.ints
        PROVE  WaitInv' /\ StaleInv'
    <2>1. WaitInv'
      BY <1>1, <1>3 DEF WaitInv
    <2>2. ASSUME ~c.stale PROVE QueueInv'
      BY <1>3, <2>2 DEF StaleInv, QueueInv
    <2>3. ASSUME ~c.stale PROVE BufferInv'
      BY <1>1, <1>3, <2>3 DEF StaleInv, BufferInv
    <2> QED BY <1>3, <2>1, <2>2, <2>3 DEF StaleInv
  <1>4. CASE hcd_rp2040_irq
    <2>1. PICK i \in c.ints : Reports(c, i, c') \/ Ignores(c, i, c') \/ Continues(c, i, c')
      BY <1>4, InterruptStep
    <2>2. CASE Reports(c, i, c')
      <3>1. PICK res \in Results : /\ c' = [hw_xfer_complete(c, res) EXCEPT !.ints = {}]
                                   /\ res = "SUCCESS" => i \in {"buff", "trans"}
        BY <2>2 DEF Reports
      <3> DEFINE s == hw_xfer_complete(c, res)
      <3>2. /\ s \in Epx /\ s.dev = c.dev /\ s.avail = c.avail /\ s.panic = c.panic
            /\ ~s.active /\ (s.stale <=> (c.stale \/ ~c.active))
            /\ s.events = Append(c.events, res)
        BY <1>0, CompleteFacts
      <3> HIDE DEF s
      <3>3. /\ c'.events = s.events /\ c'.active = s.active /\ c'.dev = s.dev
            /\ c'.avail = s.avail /\ c'.panic = s.panic /\ c'.stale = s.stale /\ c'.ints = {}
        BY <3>1, <3>2 DEF s, Epx
      <3> QED BY <1>2, <2>1, <3>1, <3>2, <3>3
    <2>3. CASE Ignores(c, i, c')
      <3>1. /\ c'.events = c.events /\ c'.active = c.active /\ c'.dev = c.dev
            /\ c'.avail = c.avail /\ c'.panic = c.panic /\ c'.stale = c.stale /\ c'.ints = {}
            /\ c'.setup = c.setup /\ ~c.active
        BY <1>0, <2>3 DEF Ignores, Epx
      <3> QED BY <1>3, <3>1
    <2>4. CASE Continues(c, i, c')
      <3>1. /\ c'.events = c.events /\ c'.active = c.active /\ c'.dev = c.dev /\ c'.alarm = c.alarm
            /\ c'.setup = c.setup /\ c'.bus = "data"
            /\ c'.avail /\ c'.panic = c.panic /\ c'.stale = c.stale /\ c'.ints = {}
            /\ c.active /\ "buff" \in c.ints
        BY <1>0, <2>1, <2>4 DEF Continues, Epx
      <3>2. WaitInv'
        BY <1>1, <3>1 DEF WaitInv
      <3>3. ASSUME ~c.stale PROVE QueueInv'
        BY <1>0, <3>1, <3>3 DEF StaleInv, QueueInv
      <3>4. ASSUME ~c.stale PROVE BufferInv'
        BY <1>1, <3>1, <3>4 DEF StaleInv, QueueInv, BufferInv
      <3> QED BY <3>1, <3>2, <3>3, <3>4 DEF StaleInv
    <2> QED BY <2>1, <2>2, <2>3, <2>4
  <1>5. CASE epx_xfer_timeout_cb
    <2>1. CASE c.active
      <3> DEFINE r == [c EXCEPT !.ints = @ \ {"buff"}]
                 s == hw_xfer_complete(r, "TIMEOUT")
      <3>1. /\ r \in Epx /\ r.ints = c.ints \ {"buff"} /\ r.events = c.events /\ r.active = c.active
            /\ r.dev = c.dev /\ r.avail = c.avail /\ r.panic = c.panic /\ r.stale = c.stale
        BY <1>0 DEF Epx
      <3>2. "TIMEOUT" \in Results /\ c' = s /\ "trans" \notin c.ints
        BY <1>5, <2>1 DEF epx_xfer_timeout_cb, Results
      <3> HIDE DEF r
      <3>3. /\ s.dev = r.dev /\ s.avail = r.avail /\ s.panic = r.panic /\ s.ints = r.ints
            /\ ~s.active /\ (s.stale <=> (r.stale \/ ~r.active))
            /\ s.events = Append(r.events, "TIMEOUT")
        BY <3>1, <3>2, CompleteFacts
      <3> HIDE DEF s
      <3> QED BY <1>2, <3>1, <3>2, <3>3
    <2>2. CASE ~c.active
      <3>1. /\ c'.events = c.events /\ c'.active = c.active /\ c'.dev = c.dev
            /\ c'.avail = c.avail /\ c'.panic = c.panic /\ c'.stale = c.stale /\ c'.ints = c.ints
            /\ c'.setup = c.setup
        BY <1>0, <1>5, <2>2 DEF epx_xfer_timeout_cb, Epx
      <3> QED BY <1>3, <2>2, <3>1
    <2> QED BY <2>1, <2>2
  <1> QED BY <1>4, <1>5

\* A device answers while the endpoint waits for it, or too late.
LEMMA AnswerStep ==
    ASSUME TypeInv, WaitInv, StaleInv, Answer
    PROVE  WaitInv' /\ StaleInv'
  <1>0. c \in Epx /\ c.bus \in {"none", "setup", "data"} /\ c.ints = {}
    BY DEF TypeInv, TypeOK, Epx, Answer
  <1>1. PICK i \in Outcomes, over \in BOOLEAN :
          c' = [c EXCEPT !.ints = {i}, !.avail = @ /\ i # "buff",
                         !.bus = IF over THEN "none" ELSE @, !.stale = @ \/ GivenUp]
    BY DEF Answer
  <1>2. UNCHANGED <<pc, stage, dev>>
    BY DEF Answer
  <1>3. i \in {"trans", "stall", "buff", "rxTimeout"}
        /\ (i = "buff" => c.bus = "data") /\ (i = "trans" => c.bus = "setup")
    <2>1. CASE c.bus = "none"
      BY <2>1, <1>1 DEF Outcomes
    <2>2. CASE c.bus = "setup"
      BY <2>2, <1>1 DEF Outcomes
    <2>3. CASE c.bus = "data"
      BY <2>3, <1>1 DEF Outcomes
    <2> QED BY <1>0, <2>1, <2>2, <2>3
  <1>4. /\ c'.ints = {i} /\ c'.events = c.events /\ c'.active = c.active /\ c'.alarm = c.alarm
        /\ c'.dev = c.dev /\ c'.setup = c.setup /\ c'.panic = c.panic
        /\ c'.avail = (c.avail /\ i # "buff")
        /\ c'.bus \in {"none", c.bus} /\ c'.stale = (c.stale \/ GivenUp)
    BY <1>0, <1>1, <1>3 DEF Epx
  <1>5. WaitInv'
    BY <1>2, <1>4 DEF WaitInv
  <1>6. ASSUME ~c'.stale PROVE StaleInv'
    <2>1. ~c.stale /\ c.active /\ pc \notin {"scrubbed", "ready"}
      BY <1>4, <1>6 DEF GivenUp
    <2>2. ~c.avail \/ ~c.setup
      BY <2>1 DEF StaleInv, BufferInv
    <2>3. (i = "buff" => ~c.setup) /\ (i = "trans" => ~c.avail)
      BY <1>3, <2>1, <2>2 DEF StaleInv, BufferInv
    <2>4. QueueInv'
      BY <1>4, <2>1, <2>3 DEF StaleInv, QueueInv
    <2>5. BufferInv'
      BY <1>2, <1>4, <2>1 DEF StaleInv, BufferInv
    <2> QED BY <2>4, <2>5 DEF StaleInv
  <1> QED BY <1>5, <1>6 DEF StaleInv

\* Another event is no report.
LEMMA PostStep ==
    ASSUME TypeInv, WaitInv, StaleInv, Post
    PROVE  WaitInv' /\ StaleInv'
  <1>1. c \in Epx /\ c.events \in Seq(Events) /\ "OTHER" \in Events /\ "OTHER" \notin Results
    BY DEF TypeInv, TypeOK, Epx, Events, Results
  <1>2. /\ c'.ints = c.ints /\ c'.events = Append(c.events, "OTHER") /\ c'.active = c.active
        /\ c'.alarm = c.alarm /\ c'.dev = c.dev /\ c'.setup = c.setup /\ c'.avail = c.avail
        /\ c'.bus = c.bus /\ c'.panic = c.panic /\ c'.stale = c.stale
        /\ pc' = pc /\ stage' = stage /\ dev' = dev
    BY <1>1 DEF Post, Epx
  <1>3. /\ HasReport(c'.events) <=> HasReport(c.events)
        /\ HasSuccess(c'.events) <=> HasSuccess(c.events)
        /\ OneReport(c.events) => OneReport(c'.events)
    BY <1>1, <1>2, AppendFacts
  <1>4. WaitInv'
    BY <1>2, <1>3 DEF WaitInv
  <1>5. ASSUME ~c.stale PROVE QueueInv'
    BY <1>2, <1>3, <1>5 DEF StaleInv, QueueInv
  <1>6. ASSUME ~c.stale PROVE BufferInv'
    BY <1>2, <1>3, <1>6 DEF StaleInv, BufferInv
  <1> QED BY <1>2, <1>4, <1>5, <1>6 DEF StaleInv

LEMMA SafeStep == TypeInv /\ WaitInv /\ StaleInv /\ [Next]_vars => WaitInv' /\ StaleInv'
  <1> SUFFICES ASSUME TypeInv, WaitInv, StaleInv, [Next]_vars PROVE WaitInv' /\ StaleInv'
    OBVIOUS
  <1>1. CASE Thread
    <2>1. c.ints = {} /\ ~c.panic /\ Calls
      BY <1>1 DEF Thread
    <2>2. CASE Ended
      <3>1. CASE pc' = "task" /\ stage' = "IDLE" /\ UNCHANGED <<dev, c>>
        <4>1. pc = "ended"
          BY <2>2 DEF Ended
        <4> QED BY <2>1, <3>1, <4>1, TaskStep
      <3>2. CASE \E d \in Addresses : hcd_setup_send(d)
        <4>1. Begins
          BY <2>2, <3>2 DEF Ended, Begins
        <4> QED BY <2>1, <4>1, CallStep
      <3> QED BY <2>2, <3>1, <3>2 DEF Ended
    <2>3. CASE Other
      <3>1. Begins \/ (pc = "other" /\ \E d \in Addresses : hcd_device_close(d))
        BY <2>3 DEF Other, Begins
      <3> QED BY <2>1, <3>1, CallStep, TaskStep
    <2>4. CASE Scrub \/ SetupReady \/ Start \/ Arm \/ Closed
      BY <2>1, <2>4, CallStep
    <2>5. CASE ControlReport \/ NextStage \/ OtherEvent
      BY <2>1, <2>5, TaskStep
    <2> QED BY <2>1, <2>2, <2>3, <2>4, <2>5 DEF Calls
  <1>2. CASE Alarm \/ Interrupt
    BY <1>2, ReportStep DEF Alarm, Interrupt
  <1>3. CASE Environment
    BY <1>3, AnswerStep, PostStep DEF Environment
  <1>4. CASE UNCHANGED vars
    BY <1>4 DEF vars, WaitInv, StaleInv, QueueInv, BufferInv
  <1> QED BY <1>1, <1>2, <1>3, <1>4 DEF Next

-----------------------------------------------------------------------------
(***************************************************************************)
(* The state of the endpoint keeps its type, and the event queue is        *)
(* exceeded by no more than the report of an interrupt already pending.    *)
(***************************************************************************)
THEOREM HcdEpxTypes == Spec => []TypeOK
  <1>1. TypeInv => TypeOK
    BY DEF TypeInv
  <1> QED BY <1>1, TypeInit, TypeStep, PTL DEF Spec

(* The inductive invariant of the two theorems that follow.               *)
THEOREM HcdEpxSafe == Spec => [](TypeInv /\ WaitInv /\ StaleInv)
  <1>1. Init => TypeInv /\ WaitInv /\ StaleInv
    BY TypeInit, SafeInit
  <1>2. TypeInv /\ WaitInv /\ StaleInv /\ [Next]_vars => (TypeInv /\ WaitInv /\ StaleInv)'
    BY TypeStep, SafeStep
  <1> QED BY <1>1, <1>2, PTL DEF Spec

(***************************************************************************)
(* Whatever TinyUSB waits for is under way with its timeout armed, or      *)
(* already reported, between any two accesses of the thread, the interrupt *)
(* and the alarm.                                                          *)
(***************************************************************************)
THEOREM NeverWaitsForNothing == Spec => []NotWaitingForNothing
  <1>1. WaitInv => NotWaitingForNothing
    BY DEF WaitInv, NotWaitingForNothing, Waiting
  <1> QED BY <1>1, HcdEpxSafe, PTL

(***************************************************************************)
(* The panic "was already available" takes a report that nobody awaited:   *)
(* without one no route into a control transfer finds the buffer busy.     *)
(***************************************************************************)
THEOREM PanicTakesAStaleReport == Spec => []PanicOnlyAfterStale
  <1>1. StaleInv => PanicOnlyAfterStale
    BY DEF StaleInv, BufferInv, PanicOnlyAfterStale
  <1> QED BY <1>1, HcdEpxSafe, PTL

=============================================================================
