------------------------------- MODULE HcdEpx -------------------------------
(***************************************************************************)
(* The control endpoint of the RP2040 as USB host, shared by every device: *)
(* examples/midi_bridge/pico/tinyusb_overrides/hcd_rp2040.c.  The thread   *)
(* (tuh_task() of TinyUSB, external) is interrupted between any two        *)
(* accesses to it by the controller's interrupt and by the alarm of the    *)
(* software timeout, which do not interrupt each other.                    *)
(***************************************************************************)
EXTENDS Naturals, Sequences

CONSTANTS
    Addresses,   \* of the devices, 0 while one enumerates
    MaxEvents    \* a bound on the events waiting for tuh_task()

ASSUME EpxAssumption == Addresses # {} /\ MaxEvents \in Nat \ {0}

VARIABLES
    pc,      \* where the thread is in hcd_setup_send(), hcd_edpt_xfer() ...
    stage,   \* _ctrl_xfer.stage of usbh.c
    dev,     \* _ctrl_xfer.daddr
    c        \* epx, its registers and what they lead to

vars == <<pc, stage, dev, c>>

Results == {"SUCCESS", "STALLED", "TIMEOUT"}
Events == Results \cup {"OTHER"}

HasReport(s) == \E i \in DOMAIN s : s[i] \in Results

Epx == [
    dev    : Addresses,
    setup  : BOOLEAN,            \* it carries a SETUP, not data or status
    active : BOOLEAN,
    avail  : BOOLEAN,            \* AVAIL of its buffer control register
    alarm  : BOOLEAN,            \* s_epx_timeout_alarm is pending
    bus    : {"none", "setup", "data"},   \* the transaction of the SIE
    ints   : SUBSET {"trans", "stall", "buff", "rxTimeout"},
    events : Seq(Events),
    panic  : BOOLEAN,
    stale  : BOOLEAN]            \* history: a report came that nobody awaited

Init ==
    /\ pc = "task" /\ stage = "IDLE" /\ dev \in Addresses
    /\ c = [dev |-> dev, setup |-> FALSE, active |-> FALSE, avail |-> FALSE,
            alarm |-> FALSE, bus |-> "none", ints |-> {}, events |-> <<>>,
            panic |-> FALSE, stale |-> FALSE]

HasRoom == Len(c.events) < MaxEvents

-----------------------------------------------------------------------------
(***************************************************************************)
(* The software timeout.  A pending alarm is the last one armed, for its   *)
(* generation: what is left of the test for a stale one is whether epx is  *)
(* active.                                                                 *)
(***************************************************************************)
epx_xfer_timeout_arm(r) == [r EXCEPT !.alarm = TRUE]

epx_xfer_timeout_cancel(r) == [r EXCEPT !.alarm = FALSE]

hw_endpoint_reset_transfer(r) == [r EXCEPT !.active = FALSE]

hw_xfer_complete(r, result) ==
    [hw_endpoint_reset_transfer(epx_xfer_timeout_cancel(r)) EXCEPT
       !.events = Append(@, result), !.stale = @ \/ ~r.active]

\* Mutant: the alarm is set again, and nothing is reported.
epx_xfer_timeout_cb_Again ==
    /\ c.alarm /\ HasRoom
    /\ "trans" \notin c.ints            \* a SETUP is answered at once, or never
    /\ c' = IF c.active
              THEN [c EXCEPT !.ints = @ \ {"buff"}]
              ELSE [c EXCEPT !.alarm = FALSE]
    /\ UNCHANGED <<pc, stage, dev>>

epx_xfer_timeout_cb ==
    /\ c.alarm /\ HasRoom
    /\ "trans" \notin c.ints            \* a SETUP is answered at once, or never
    /\ c' = IF c.active
              THEN hw_xfer_complete([c EXCEPT !.ints = @ \ {"buff"}], "TIMEOUT")
              ELSE [c EXCEPT !.alarm = FALSE]
    /\ UNCHANGED <<pc, stage, dev>>

\* Mutant: a STALL is reported by the interrupt and by the endpoint.
Stalled_Twice(r) ==
    IF "stall" \in r.ints THEN hw_xfer_complete(hw_xfer_complete(r, "STALLED"), "STALLED") ELSE r

(***************************************************************************)
(* hcd_rp2040_irq(), a condition after the other.  A buffer may be one of  *)
(* several of the transfer, which then goes on.                            *)
(***************************************************************************)
Stalled(r) ==
    IF "stall" \in r.ints THEN hw_xfer_complete(r, "STALLED") ELSE r

hw_handle_buff_status(r) ==
    IF "buff" \notin r.ints \/ ~r.active THEN {r}
    ELSE {hw_xfer_complete(r, "SUCCESS"), [r EXCEPT !.avail = TRUE, !.bus = "data"]}

hw_trans_complete(r) ==
    IF "trans" \in r.ints THEN hw_xfer_complete(r, "SUCCESS") ELSE r

RxTimedOut(r) ==
    IF "rxTimeout" \in r.ints /\ r.active THEN hw_xfer_complete(r, "TIMEOUT") ELSE r

hcd_rp2040_irq ==
    /\ c.ints # {}
    /\ \E r \in hw_handle_buff_status(Stalled(c)) :
         c' = [RxTimedOut(hw_trans_complete(r)) EXCEPT !.ints = {}]
    /\ UNCHANGED <<pc, stage, dev>>

(***************************************************************************)
(* The SIE (external): a device answers, stalls, is silent, or keeps       *)
(* NAKing, which no interrupt tells of.  A transaction of data given up by *)
(* the software goes on until the next one is started; a SETUP is not      *)
(* NAKed, and answered at once or never.                                   *)
(***************************************************************************)
GivenUp == ~c.active \/ pc \in {"scrubbed", "ready"}

Outcomes ==
    CASE c.bus = "setup" -> IF GivenUp THEN {} ELSE {"trans", "rxTimeout"}
      [] c.bus = "data"  -> {"stall", "rxTimeout"} \cup (IF c.avail THEN {"buff"} ELSE {})
      [] c.bus = "none"  -> {}

Answer ==
    /\ HasRoom /\ c.ints = {}
    /\ \E i \in Outcomes, over \in BOOLEAN :
         /\ ~over => i = "rxTimeout"
         /\ c' = [c EXCEPT !.ints = {i}, !.avail = @ /\ i # "buff",
                           !.bus = IF over THEN "none" ELSE @,
                           !.stale = @ \/ GivenUp]
    /\ UNCHANGED <<pc, stage, dev>>

-----------------------------------------------------------------------------
(***************************************************************************)
(* The calls of the thread, an access of the shared state each.            *)
(***************************************************************************)
hcd_setup_send(d) ==
    /\ stage' = "SETUP" /\ dev' = d
    /\ c' = [epx_xfer_timeout_cancel(c) EXCEPT
               !.stale = @ \/ HasReport(c.events)]
    /\ pc' = "scrub"

\* Mutant: the endpoint is reset and not its register.
Scrub_StructOnly ==
    /\ pc = "scrub"
    /\ c' = hw_endpoint_reset_transfer(c)
    /\ pc' = "scrubbed"
    /\ UNCHANGED <<stage, dev>>

Scrub ==
    /\ pc = "scrub"
    /\ c' = hw_endpoint_reset_transfer([c EXCEPT !.avail = FALSE])
    /\ pc' = "scrubbed"
    /\ UNCHANGED <<stage, dev>>

SetupReady ==
    /\ pc = "scrubbed"
    /\ c' = [c EXCEPT !.dev = dev, !.setup = TRUE, !.active = TRUE]
    /\ pc' = "ready"
    /\ UNCHANGED <<stage, dev>>

\* rp2040_usb.c panics if the buffer "was already available".
hcd_edpt_xfer(s) ==
    /\ stage' = s
    /\ IF c.avail
         THEN c' = [c EXCEPT !.panic = TRUE] /\ UNCHANGED pc
         ELSE c' = [c EXCEPT !.setup = FALSE, !.active = TRUE, !.avail = TRUE] /\ pc' = "ready"
    /\ UNCHANGED dev

Start ==
    /\ pc = "ready"
    /\ c' = [c EXCEPT !.bus = IF c.setup THEN "setup" ELSE "data"]
    /\ pc' = "started"
    /\ UNCHANGED <<stage, dev>>

Arm ==
    /\ pc = "started"
    /\ c' = epx_xfer_timeout_arm(c)
    /\ pc' = "task"
    /\ UNCHANGED <<stage, dev>>

\* Mutant: the endpoint is reset whoever uses it.
hcd_device_close_AnyDevice(d) ==
    /\ IF TRUE THEN c' = epx_xfer_timeout_cancel(c) /\ pc' = "close"
                    ELSE pc' = "task" /\ UNCHANGED c
    /\ stage' = IF dev = d THEN "IDLE" ELSE stage
    /\ UNCHANGED dev

\* hcd_edpt_abort_xfer() has the same steps, for the device it is called for.
hcd_device_close(d) ==
    /\ IF c.dev = d THEN c' = epx_xfer_timeout_cancel(c) /\ pc' = "close"
                    ELSE pc' = "task" /\ UNCHANGED c
    /\ stage' = IF dev = d THEN "IDLE" ELSE stage
    /\ UNCHANGED dev

Closed ==
    /\ pc = "close"
    /\ c' = hw_endpoint_reset_transfer([c EXCEPT !.avail = FALSE])
    /\ pc' = "task"
    /\ UNCHANGED <<stage, dev>>

(***************************************************************************)
(* tuh_task() (external): events in the order in which they were queued.   *)
(* A control transfer has a SETUP, perhaps data, and a status stage.  What *)
(* other events tell of, a device that comes or goes, or a transfer that a *)
(* driver wants, leads to another transfer or to a device being closed.    *)
(***************************************************************************)
Taken == [c EXCEPT !.events = Tail(@)]

ControlReport ==
    /\ pc = "task" /\ c.events # <<>> /\ Head(c.events) \in Results
    /\ c' = Taken
    /\ pc' = IF stage = "IDLE" THEN "task"
             ELSE IF Head(c.events) # "SUCCESS" \/ stage = "ACK" THEN "ended"
             ELSE "next"
    /\ UNCHANGED <<stage, dev>>

NextStage ==
    /\ pc = "next"
    /\ \/ stage = "SETUP" /\ hcd_edpt_xfer("DATA")
       \/ hcd_edpt_xfer("ACK")

\* The transfer is over; another one, a retry too, may follow at once.
Ended ==
    /\ pc = "ended"
    /\ \/ pc' = "task" /\ stage' = "IDLE" /\ UNCHANGED <<dev, c>>
       \/ \E d \in Addresses : hcd_setup_send(d)

OtherEvent ==
    /\ pc = "task" /\ c.events # <<>> /\ Head(c.events) = "OTHER"
    /\ c' = Taken
    /\ pc' = "other"
    /\ UNCHANGED <<stage, dev>>

Other ==
    /\ pc = "other"
    /\ \E d \in Addresses :
         \/ stage = "IDLE" /\ hcd_setup_send(d)
         \/ hcd_device_close(d)

\* A device comes or goes, or its driver has something to do.
Post ==
    /\ HasRoom
    /\ c' = [c EXCEPT !.events = Append(@, "OTHER")]
    /\ UNCHANGED <<pc, stage, dev>>

-----------------------------------------------------------------------------
Calls ==
    \/ Scrub \/ SetupReady \/ Start \/ Arm \/ Closed
    \/ ControlReport \/ NextStage \/ Ended \/ OtherEvent \/ Other

Thread == c.ints = {} /\ ~c.panic /\ Calls

Alarm == ~c.panic /\ epx_xfer_timeout_cb

Interrupt == ~c.panic /\ hcd_rp2040_irq

Environment == ~c.panic /\ (Answer \/ Post)

Next == Thread \/ Alarm \/ Interrupt \/ Environment

Spec == Init /\ [][Next]_vars

(***************************************************************************)
(* Interrupts are taken, the thread calls tuh_task() for ever and is not   *)
(* kept from it by interrupts, and the timer's deadline passes however the *)
(* queue fills and empties.  Nothing is assumed of the devices.            *)
(***************************************************************************)
FairSpec ==
    /\ Spec
    /\ SF_vars(Thread)
    /\ SF_vars(Alarm)
    /\ WF_vars(Interrupt)

-----------------------------------------------------------------------------
TypeOK ==
    /\ pc \in {"task", "scrub", "scrubbed", "ready", "started", "close", "next", "ended", "other"}
    /\ stage \in {"IDLE", "SETUP", "DATA", "ACK"}
    /\ dev \in Addresses
    /\ c \in Epx
    /\ Len(c.events) <= MaxEvents + 1

(***************************************************************************)
(* The scrub of hcd_setup_send() "covers every route into a new control    *)
(* transfer" as long as each stage is reported once and in time: the panic *)
(* "was already available" takes a report that nobody awaited.             *)
(***************************************************************************)
PanicOnlyAfterStale == c.panic => c.stale

Waiting ==
    pc = "task" /\ stage # "IDLE" /\ c.ints = {} /\ ~c.panic /\ ~HasReport(c.events)

(***************************************************************************)
(* Whenever TinyUSB believes a stage of a transfer is under way and no     *)
(* report of it is queued, the endpoint is active and has its timeout: it  *)
(* never waits for what nothing will report.                               *)
(***************************************************************************)
NotWaitingForNothing == Waiting => c.active /\ c.alarm

(***************************************************************************)
(* A device that falls silent, or that NAKs for ever, "hung forever" the   *)
(* endpoint that all devices share, and no other could enumerate.  Now     *)
(* every control transfer ends, whatever the devices do.                   *)
(***************************************************************************)
TransferEnds == stage # "IDLE" ~> stage = "IDLE" \/ pc = "ended" \/ c.panic

(***************************************************************************)
(* No route into a control transfer finds the buffer "already available".  *)
(***************************************************************************)
NoPanic == ~c.panic
=============================================================================
