# NetworkMIDI2: a TLA+ model of the USB / Network MIDI 2.0 bridges

NetworkMIDI2 carries Universal MIDI Packets (UMP) between USB and a Network
MIDI 2.0 session. The session itself is distributed as a static library; what
the repository holds as source is everything around it: the headers of
`include/networkmidi2/`, and the bridge programs of `examples/midi_bridge/`
for NXP MCXN947, Raspberry Pi Pico with W5500, Pico W, FreeRTOS, lwIP and
desktop systems. These modules model that source. Paths below are relative to
`src/`; `nxp`, `pico` and `pico_w` stand for
`examples/midi_bridge/nxp/SessionTask.cpp`,
`examples/midi_bridge/pico/main.cpp` and
`examples/midi_bridge/pico_w/main.cpp`; `hcd` for
`examples/midi_bridge/pico/tinyusb_overrides/hcd_rp2040.c`; `posix`, `lwip` and
`freertos` for `main_interactive.cpp`, `main.cpp` and `SessionTask.cpp` in the
directories of those names.

## 1. The system

    USB peer --> USB FIFO --> UmpFramer --> sendUmp() --> session --> network
                    (drain loop of the main loop)

    network --> session --> SysExStreamGuard --> onUmp() --> SysExDropGate
                                                   |--> USB FIFO        (pico, pico_w)
                                                   |--> ring of words   (nxp HOST)
                                                   |--> stage           (nxp DEVICE)

| Part | State | Operations | Interaction | What is hard | What makes it correct |
|---|---|---|---|---|---|
| `UmpFramer` (`Ump.h:49-114`) | up to 8 words | `hasRoomFor`, `push`, `peek`, `consume` | called by the drain loop | reads end anywhere in a packet | the head is always the start of a packet |
| Drain loop (`nxp:2181-2365`, `pico:904-1025`, `pico_w:775-869`) | framer, per-pass counters | one pass of the main loop | reads the USB FIFO, calls `sendUmp()`, answers Stream messages | the USB task preempts it (nxp); the session fills, goes down and comes up; the peer is unplugged; menus and the wait for an address keep the board from it | an in-order pipe of whole packets; what is refused is retried; discovery is answered in the run loop, session or none |
| `SysExDropGate` (`Ump.h:146-259`) | one slot per Group | `suppress`, `noteRefused`, `noteSent`, `terminatorFor` | asked by the handler about each packet | a SysEx is cut anywhere, streams interleave, the peer is replaced, a session ends and nothing resets the gate | the receiver never joins two parts across a hole, and gets an End for what is left open |
| Handler (`pico:350-456`, `pico_w:206-274`, `nxp:1207-1257`) | `s_usbTxStalled` | `onNetworkUmp` / `onUmp` | called by the session inside `tick()` | room runs out, or comes back while waiting | whole packets only; losses are whole messages |
| Egress ring, nxp HOST (`nxp:1130-1205`) | 4096 words, head, count | `hostTxPush`, `hostTxDrain` | filled by `onUmp()`, emptied after `tick()` | wrap-around, a device that goes away in mid-drain, a session that goes and leaves words behind | order, whole packets, drains |
| Stage, nxp DEVICE (`nxp:1259-1391`) | 512 words, pending run | `onUmp`, `usbStageFlush` | written after `tick()`; Stream replies share the FIFO | room is asked for long before the write | nothing is torn or reordered |
| `SysExStreamGuard` | one bit per Group / Stream ID | `admit`, `breakStream`, `reset` | called by the session on delivery | holes, abandoned messages, new sessions | no splice; only broken messages are lost |
| nxp console and lifecycle (`nxp:1455-2178`) | `gState`, line buffer, netif address, session | prompts, boot window, browse, begin, destroy | drives the session, DHCP, AutoIP | every wait has a deadline that races its answer; ESC at any point | a session has an address and, as Client, a Host; nothing of a setup given up goes on; nobody has to be there |
| pico, pico_w setup (`console_menu.cpp`, `bridge_config.cpp`) | `gBridgeConfig`, flash sector | menus, automatic answers, save | before the run loop, and from it by ESC | power lost between erase and program; a menu given up | the board comes back as it was left |
| pico_w WiFi supervision (`pico_w:295-560`) | chip, link, retry clock, timeouts seen | `wifi_connect`, `wifi_supervise` | called from every round | the driver reads "joining" or "up" on a dead network; restarts fail | every outage ends; a Client invites its Host again |
| Desktop, FreeRTOS, lwIP demos | state, line buffer, session, browse, signals | prompts, browse, begin, repeat, quit; `runHost`, `runClient` | drive the session and discovery | typed-ahead input, SIGINT between any two steps, a peer that comes and goes within a tick | a clean way out; nothing left behind |
| USB host controller, control endpoint (`hcd`) | `epx`, its registers, the timeout, the event queue | `hcd_setup_send`, `hcd_edpt_xfer`, `hcd_device_close`, interrupt, alarm | called by TinyUSB | three contexts share one endpoint | every transfer ends, once |
| Receive rings, mDNS slots, session core, protocol, authenticator | declared in headers | in the library | | | not modelled (section 5) |

## 2. Modules

Where several programs share an algorithm it is modelled once. How they differ
is a record, a `Build`; the CONSTANT `Builds` is the set of programs considered,
and the variable `build`, chosen in `Init` and never changed, the one that runs.

* **`Ump`** - `umpWordCount()` and `UmpFramer` as operators on a sequence of
  words. A word is a record; the code sees its field `mt` only.
* **`UsbToNet`** - the drain loop. `pc` is where the main loop stands: "task"
  (USB service), "drain" (loop condition), "refill" (after the extra
  `tud_task()`), "read", "packets" (the inner packet loop), "tick"; and "held",
  where it is kept from the run loop: start-up, the boot window and the wait for
  an address (nxp, which leaves a pass by `continue` there, `nxp:2099`,
  `nxp:2158`), every menu and wait of pico and pico_w. `HeldUp` and `Resumes` go
  there and back. Each word
  carries ghosts (its packet, its place, the packet's length) which no action
  of the bridge reads. The builds (`MCUsbToNet` names them):

  | build | DeviceRole | GateWhenDown | Preemptive | kMaxUsbRefills |
  |---|---|---|---|---|
  | nxp DEVICE / HOST | TRUE / FALSE | TRUE | TRUE | 0 |
  | pico DEVICE / HOST | TRUE / FALSE | FALSE | FALSE | 8 (1 in the runs) / 0 |
  | pico_w DEVICE / HOST | TRUE / FALSE | FALSE | FALSE | 0 |

* **`PacketPipe`** - the abstract specification of that loop: packets are
  numbered as they are offered, wait in a set, and leave it lowest number first;
  a peer that goes takes the newest with it. `UsbToNet` implements it under the
  mapping at the end of the module (`Waiting`: the packets on the line).
* **`SysEx`** - senders and receivers of System Exclusive (external): messages
  cut into Start, Continue and End, and an assembler that notices a hole.
* **`SysExDropGate`** - the gate's operations as operators on a function from
  Groups to slots.
* **`NetToUsb`** - the handler packet by packet, composed of the gate, senders,
  a receiver and a FIFO with room for some words. In a build,
  `WaitsForRoom` is pico's `usbTxRoomFor()`, `DropsUnmounted` nxp's early return.
  `SessionEnds` cuts off whatever its senders were in the middle of; the next
  session's senders meet the gate as it was left, since no program calls
  `SysExDropGate::reset()`.
* **`HostTxQueue`** - the nxp HOST ring. `WriteRun` is one turn of the loop of
  `hostTxDrain()`; the USB task acts between turns. Packets are pushed, and the
  ring is drained, only while there is a session (`nxp:2376`): `BeginSession` and
  `EndSession` leave the ring as it is.
* **`UsbStage`** - the nxp DEVICE staging: `JoinRun`, `BreakRun`, `Suppress`,
  `SuppressEnd` are the ways one packet goes through the loop of `onUmp()`.
* **`SysExStreamGuard`** - the guard between a lossy stream and a receiver.
* **`CliProgram`** - what the three interactive demos share: the console with
  characters typed ahead, the session and discovery as they see them, the
  record `g` of their globals. **`PosixInteractive`**, **`LwipDemo`**,
  **`RtosDemo`** are the rounds of their main loops, step by step (`phase`);
  **`MidiBridgeApp`** is the loop of `nm2_host` and `nm2_client`, which SIGINT
  enters anywhere. **`DemoPrograms`** composes them: one of them runs, beside a
  user, a peer, SIGTERM or loss of power. A character carries the ghost `stale`:
  it was typed before the present session began.
* **`BridgeMenu`** - the menus of the Pico boards as waits for a key (`pc`), with
  `saveBridgeConfig()` as an erase and a program. **`PicoBridge`** and
  **`PicoWBridge`** are the life of the two boards around the menus, the latter
  with `wifi_supervise()`; **`NxpConsole`** is the `AppState` machine of nxp.
  **`Bridges`** composes them: one board runs, beside a user, a network and
  resets at any step. What a board has stored (`cfg`, `flash`) and what it runs
  with are kept apart: `b.net` is the network the netif was brought up on,
  `b.client` the role of the session, `b.again` that ESC was pressed. pico_w has
  two networks to choose from, so that "join again if the credentials changed"
  means something.
* **`HcdEpx`** - the control endpoint of the RP2040 as USB host, access by
  access: the thread (`pc`), the interrupt and the alarm of the software timeout.
  `stage` is what TinyUSB believes to be under way; `stale` is a ghost, set when
  a report is left in, or put into, the queue that no transfer awaits.
* **`MCUsbToNet`, `MCNetToUsb`, `MCSysExStreamGuard`** - the builds and sets of
  streams for TLC.
* **`*_proofs`** - theorems about the module each is named after.

What the models abstract: payload words; counters, statistics and printing; the
nxp loopback mode (`gLoopback`); which words of a zero-length End are which. In
`UsbToNet` the loop condition and the room check are one step, since nothing
the session does lies between them. In `NetToUsb` a replug takes longer than a
pass of the main loop, so that while there is a session the ring is empty when
the new device is mounted; what an ended session left in the ring is a matter of
`HostTxQueue`, which keeps it. `destroySession()` flushes the stage between its
ticks (`nxp:1465-1467`) as the main loop does, but does not drain the ring. `NetToUsb` and `SysExStreamGuard` send
the four SysEx statuses; the reserved ones are not sent. In the console modules
a line is what its first character selects, or an address; the passphrase, names
and ports are left out (a changed name takes effect after a power cycle only, as
`pico:814-818` and `pico_w:691-696` tell the user). In `Bridges` time passes in units of two seconds for
pico_w, which is what its timers tell apart (a link held for 2 s, a retry after
10 s), and every other deadline may pass at any step. In `HcdEpx` an event is
reported only while the queue has room (a full queue drops the report, which the
code does not notice), and a device answers a SETUP at once or never.

## 3. Runs

| run | about | states |
|---|---|---|
| `drain` | `LineFramed`, `SentWhole`, `ImplementsPacketPipe`, `RetriedWhileUsbHasData` (a refused packet gets through while there is more USB data), `DiscoveryAnswered` (a board that stays in its run loop answers discovery, unless a refused data packet is in front of it) for the five kinds of build, with packets of 1, 2 and 4 words, an unplugged peer, and setups that take the board out of its run loop | 992 151 |
| `stream_guard` | `NeverSpliced`, `AgreesWithReceiver`, `OnlyBrokenLost` for one SysEx7 and two SysEx8 streams of one Group | 216 000 |
| `gate` | `NeverSpliced`, `OpenOnlyWhileOwed`, `NothingStray`, `LossIsBounded` for SysEx7 on two Groups, over a replug and the end of a session in mid-message, for the handlers of pico, pico_w and nxp HOST | 1 341 648 |
| `host_queue` | `InOrder` (order kept, whole packets only), `Drained` (what is queued goes out while a session and a device stay), over sessions that come and go | 162 497 |
| `usb_stage` | `NeverTorn`, `InOrder` | 338 000 |
| `demos` | `NothingLeftBehind`, `RepeatsRole`, `EndsCleanly`, `QuitsOnFreshInput`, `EndIsNoticed`, `CtrlCEnds` for the five demo programs | 237 615 |
| `bridges` | `OneActivity`, `SessionHasEnds`, `RunsAsStored` (role, Host and network in the run loop are those in flash), `UnattendedRuns`, `OutageEnds`, `ReinvitesAfterOutage` for pico, pico_w and nxp | 93 695 |
| `epx` | `NotWaitingForNothing`, `PanicOnlyAfterStale`, `TransferEnds` for two devices | 33 022 |

Each of these runs checks the type invariant of its module too. The other four
end in a counterexample: the code does something else than its own comment says.

* `drain_replug` - the framer is not reset when the USB peer goes away, and the
  next peer's first words complete the last one's half packet.
* `bridge_down_chip` - a pico_w whose restarted chip failed to join is asked for
  its setup by ESC: the prompts poll the driver that is not initialised.
* `nxp_static` - setting a static address does not stop the DHCP client, whose
  next lease replaces it under the session.
* `epx_panic` - a report queued when its device is closed, or made after the
  timeout gave up, is taken for the next transfer's, and ends in the panic
  "was already available".

### Where the code falls short of what one might expect

The properties say what the code keeps. They are conditional where it does not,
and these are the conditions a reader should know of:

* A refused packet with nothing behind it waits in the framer until other USB
  data comes: the loop is entered for the FIFO. Hence `RetriedWhileUsbHasData`.
* The comment at `nxp:2261-2271` says of the drain "Runs every tick regardless of
  session state" and that discovery does not wait for a client. That is so in the
  run loop only: while nxp waits for an address, which may be for ever, each pass
  ends in a `continue` before the drain (`nxp:2099`, `nxp:2158`), and the menus
  and waits of pico and pico_w do not drain either. Hence `DiscoveryAnswered`
  asks for a board that stays in its run loop.
* On pico and pico_w, which ask nothing of the session first, a data packet in
  front of a discovery request holds it up until the session is Established; so
  does one on nxp while the session's queue is full. Hence the second condition
  of `DiscoveryAnswered`, `WayIsClear`: only Stream messages in front, or (nxp)
  a session that never came up, for which data is discarded.
* No program calls `SysExDropGate::reset()`. A message refused at its very End,
  or cut off by the end of its session after a refusal, leaves its Group
  abandoned, and a healthy message of the next session is kept back whole as if
  it belonged "to a message already being abandoned" (`Ump.h:158`). Hence
  `LossIsBounded` counts both kinds (`LeftArmed`); it says that each costs one
  message at most.
* The nxp HOST ring is drained only inside `if (gSession)` (`nxp:2376`), though
  the comment at `nxp:1149-1151` says "every loop pass". `destroySession()` ticks
  up to 200 times without draining and leaves the ring as it is: its words go out
  in the next session. Hence `Drained` asks for a session that stays.
* After ESC on pico the netif stays as it was first brought up
  (`pico:808-812`): static may be stored while DHCP runs, until a power cycle.
  Hence `RunsAsStored` leaves the network of pico out once ESC was pressed;
  pico_w joins again when the credentials changed (`pico_w:876-895`).
* Two SysEx8 streams of one Group, or a SysEx7 and a SysEx8, share a slot of the
  gate: the End of one makes it forget the other. Hence one stream per Group in
  `gate` and in the theorems about it.
* The zero-length End of a SysEx8 has two of the four words its Message Type
  announces. In the nxp HOST ring `hostTxDrain()` waits for the other two. Hence
  `EndTypes = {3}` in `host_queue`.
* The replies to Stream messages are written without asking for room
  (`nxp:1410`), and are cut where the FIFO is full; `NeverTorn` is about what
  `onUmp()` writes.
* "C" in the lwIP demo leaves `gIsHost` as it was (`lwip:467`), so "Y" at the
  repeat prompt may begin a Host. `RepeatsRole` leaves this program out.
* The desktop program reads `q` after the test that leads to the repeat prompt
  and leaves without one, and does not throw away what was typed ahead.
  `QuitsOnFreshInput` and `BoardsOfferRepeat` are about the boards.
* A prompt of nxp that was touched once waits for ever (`nxp:2007`), and a DHCP
  server that does not answer in time is final on the Pico boards (`pico_w:701`).
  `UnattendedRuns` is about a board that nobody touches.

### Bounds

The FIFOs are smaller than the code's but keep their relations: the framer
keeps its real capacity of 8, the USB FIFO (5) holds less than the framer and
more than a packet, so reads of every length from 0 to 4 and packets split over
two or three reads occur; one session slot makes refusal as likely as
acceptance. Three packets of three sizes give every alignment of a packet in
the framer behind a refused one; two read per pass instead of 64 makes the bound
of a pass bite. The ring (7 words) is not a multiple of a packet, so packets
straddle its end at every offset. The stage (5) is smaller than the FIFO (9), as
512 is against the real FIFO, and smaller than one call's run. Three messages of
up to four packets let a message be cut at its Start, in the middle or at its
End with another one following, on the same stream or another. One unmount in
`drain` and `gate`, two in `drain_replug`, let two and three peers meet in the
same buffers. Sessions end in `gate` as long as there is a message to cut off,
so three sessions and more meet the same gate; in `host_queue` they begin and
end without a bound, as do the setups of `drain`.
One extra `tud_task()` per pass instead of pico's eight reaches each way through
the loop's condition. `NothingStray` speaks of a peer that was not
replaced, as does `LossIsBounded` for the nxp build, whose gate does not see
what passes while nothing is mounted; the other properties of `gate` hold for
all.

One character typed ahead is enough in `demos`, since a round of each loop reads
one; three polls of discovery, two ticks of Bye and three Ctrl-C let each of them
be the one too many. `bridges` has no bound but the units of time: its state is
finite by itself. `epx` has two addresses, the enumerating one and another, and
three events: a stale report, the one awaited and something else.

### Fairness

* `UsbToNet!FairSpec`: weak fairness of the loop's actions, none of which is
  enabled while the board is held out of its run loop: nothing says that it will
  ever resume. In the run loop it is one thread that waits for nothing
  (`nxp:2418` waits at most 1 ms). Nothing is assumed of the peer, of the network
  or of the session's state; `Tick` sends at least one queued message.
* `HostTxQueue!FairSpec`: weak fairness of the drain, which the main loop calls
  after each tick of a session and which is not enabled without one, and of the
  device's taking words while it is mounted: without a device that reads, nothing
  drains. Nothing is assumed of when sessions begin and end.
* `DemoPrograms!FairSpec`: weak fairness of the program's thread, nothing else.
  Users, peers and signals come or do not.
* `Bridges!FairSpec`: weak fairness of the thread, whose waits all have a
  deadline but those for a key, and of the clock, on nxp with the lease, or
  AutoIP, that a netif asking for an address gets in the end. Strong fairness of
  the tests the loop makes again and again of something that flickers (is the
  link up, is there an address): they are made many times in every stretch in
  which the answer stays the same. Strong fairness of two outside events: a
  session times out on a network that stays dead, and of all the joins tried one
  succeeds. `OutageEnds` and `ReinvitesAfterOutage` rest on the last.
* `HcdEpx!FairSpec`: strong fairness of the thread, which interrupts only delay,
  and of the alarm, which the timer fires at its deadline; weak fairness of the
  interrupt. Nothing is assumed of the devices: they may be silent or NAK for
  ever.

## 4. Proofs

All theorems hold for any values of the CONSTANTS that satisfy the ASSUME of the
module; bounds on packets, messages and replugs are naturals of any size.

* **`UsbToNet_proofs`** - `UsbToNetTypes`, `UsbToNetFramed`, `UsbToNetSentWhole`,
  `UsbToNetIsAPipe`.
  `LineFramed` alone is nearly inductive: the line (framer, FIFO, what the peer
  is sending) is a sequence of whole packets, and each action either moves the
  boundaries between its three parts, appends a packet at its end, or removes
  the packet at its head. The last case needs that `peek()` names exactly the
  packet at the head, which follows from the framing itself: a word at
  position 1 announces its length, and the words after it follow one another.
  The invariant adds that an unmount leaves FIFO and sender empty, so what
  remains framed is the framer, or `torn` is set; and that the words the FIFO
  and the peer hold start where the line's framing puts them.
  For the refinement, `OrderInv` says that packet numbers never fall along the
  line and rise where a packet begins, so that the packet at the head is the
  least of `Waiting`, has no word elsewhere, and takes nothing else along when
  its words are removed; an unmount cuts the line at a packet, or inside one, and
  what is kept are the numbers below a bound. Each step of the loop is then an
  Accept, an Answer, a Discard, an Offer, a PeerLost, a change of the session, or
  nothing (`PipeStep`).
* **`NetToUsb_proofs`** - `NetToUsbTypes`, `GateNeverSplices`, the latter for
  sets of streams with at most one per Group (more share a slot).
  The invariant relates, per stream, sender, slot and receiver: not abandoning,
  the receiver either holds exactly the packets the sender has sent or is
  closed; abandoning, whatever is open is unmixed and everything that could be
  joined to it is suppressed until an End or a new Start. On top of it
  `LedgerInv` keeps the gate's books: what it owes an End for is open at the
  receiver (unless the peer was replaced), what was refused at its Start is not,
  and whatever is open and finished by its sender is owed or found no room. From
  this follow `GateWritesNothingStray` and `GateLeavesOpenOnlyOwed`.
  Both hold across sessions: a message that was under way when its session ended
  is in `cut`, open or not (`LedgerCut`).
  `GateLossIsBounded`: the inequality is not inductive, since a message refused
  at its End, or cut off after a refusal, is paid for by the next one. `Tally`
  adds the Groups that are abandoned while their sender is idle to the losing
  side; each step then adds to at most one side without a match on the other,
  but for the end of a session, which may arm several Groups at once and adds as
  many messages to `LeftArmed` (`GroupsArmed`, `TallyCut`). `Numbered` tells
  messages apart, so that a set grows when it must.
* **`SysExStreamGuard_proofs`** - `GuardTypes`, `GuardNeverSplices`,
  `GuardAgrees`, `GuardLosesOnlyBroken`. What the guard marks open is open downstream, unmixed, and in
  step with the sender unless a hole is pending or the sender moved on to
  another message; a Continue or End is then either the next one or not
  admitted. `FateInv` adds where each message under way stands: as long as it is
  not disturbed, all it has sent is at the receiver, so that its End makes it
  whole; once it is, no End of its own can.
* **`HostTxQueue_proofs`** - `HostTxQueueTypes`, `HostTxQueueInOrder`, for
  `EndsAreWhole`: only messages of two-word packets are abandoned, as the gate
  does it. `QueueInv` adds to the order that what is queued is whole packets, and
  that inside `hostTxDrain()` a driver that is there has at least the room that
  was asked for: a device that left and came back has all of it. Without the
  latter a write could be cut short inside a packet. `PushAppends` and
  `TakeRemoves` say what the ring is for, wherever it wraps. The search for the
  end of a run, `RunEnd`, is a recursive function; that it stops at a packet's
  end is proved by the least counterexample, and that a set of naturals has a
  least member (`LeastNat`) from the pigeonhole principle, since the library's
  induction theorems take an operator for their parameter.
* **`UsbStage_proofs`** - `UsbStageTypes`, `StageNeverTears`, `StageInOrder`. While mounted, the
  FIFO has room for the stage and the pending run together, or the host went
  away since and the FIFO is empty; the USB task only ever adds room. Room for
  the stage alone is not inductive: a run is written behind the stage.
  `StageInOrder` rests on it: as a write takes all it is given, what was taken is
  at all times what tusb_ump took, the stage and the run, one behind the other.
* **`HcdEpx_proofs`** - `HcdEpxTypes`, `NeverWaitsForNothing`,
  `PanicTakesAStaleReport`. `WaitInv` says what each place of the thread has
  begun: a stage TinyUSB waits for is active with its timeout, or reported, and
  `c.dev` is the device of the transfer, so that no other device's close takes
  it away. `StaleInv` holds as long as every report was awaited: one report at
  most is queued, an endpoint that is active has none, what an interrupt is about
  to report is the transfer under way, and the buffer is free wherever the thread
  hands it over. Both need that an interrupt is served before another condition
  arises (`TypeInv`).

* **`Bridges_proofs`** - `BridgesTypes`, `BoardRunsAsStored`, `SessionsHaveEnds`,
  `NxpOneActivity`. `RunsAsStored` is about the run loop; three invariants carry
  it through the menus. `StoredInv`: outside the prompts whose answers are not
  saved yet, `cfg` is what the sector holds, also where a reset finds the sector
  erased. `NetKept`: a netif that is up is on the network of `cfg`, or the
  credentials were just changed and the reconnect is still to come (pico_w), or
  ESC was pressed (pico). `RoleKept`: the session begun plays the role of `cfg`,
  which no menu changes without taking the board out of its run loop.
  `AddressSeen` and `HostKnown` carry what was waited for, an
  address and a host, from where it was seen to where the session begins, with
  `b.lost` for an address that went away in between. For nxp, `AddressInv` ties
  the address to DHCP client, AutoIP and the states that come after the wait,
  `ActivityInv` the search and the session to their states, and `CountdownInv`
  says where a prompt may still answer itself: the browse window must not, or its
  search would go on beneath the next state.
* **`DemoPrograms_proofs`** - `DemosTypes`, `DemosLeaveNothing`,
  `RepeatIsSameRole`, `AppEndsCleanly`, `BoardsQuitOnFreshInput`. `BoardSound`
  is `NothingLeftBehind` with `Fresh` added: nothing that was typed before the
  session is on the line or at the console. The two boards' programs share most of
  their code, which `SharedCode` states and proves, so one argument serves both.
  `SameRole` at the prompt alone is not inductive: `RoleSound` follows the role
  from the passphrase on, and says that who searches for a host is none. The
  desktop program needs an exception (`PosixSound`): `q` at MDNS_RESOLVE stops the
  loop in SESSION_RUN with the role of the session before; the program is then
  between the console and the loop condition and leaves, without a repeat prompt.
  For nm2_host and nm2_client, `AppSound` carries from the tick to the end that a
  loop left after a connection saw the session Idle, and that nothing but
  `close()`, which comes only when it is not Idle, changed it since.

Only model-checked, on the instances above:

* all liveness (`RetriedWhileUsbHasData`, `DiscoveryAnswered`, `Drained`,
  `EndIsNoticed`, `CtrlCEnds`, `UnattendedRuns`, `OutageEnds`,
  `ReinvitesAfterOutage`, `TransferEnds`): it depends on fairness and ENABLED;
* the four counterexamples: a run that ends in one is its own proof.

All other properties of the runs are theorems. The constants of `demos` and
`bridges` bound the environment (type-ahead, polls, ticks of the Bye, Ctrl-Cs,
the times of `wifi_supervise()`), so there the theorems say that no more of it
makes a difference.

## 5. Not modelled, and what is left

Not modelled because there is no source: the session core, the transports'
and mDNS operations, the authenticator's hash are in the library, of which the
repository has the headers. What the headers show of them, the receive rings
with a wrap mark, the resolve slots, the 16-bit comparison of sequence numbers,
is declared there and used elsewhere: a model of it would be invented. What the
programs see of them is part of their modules' environment.

Not modelled because it is hardware access or constant data: board and PHY
bring-up, the NXP controller driver (`hcd_ci_hs.c`, TinyUSB's with registers
changed), descriptors, the W5500 port, test scripts. In `hcd` the slots of the
bulk endpoints are left out: each belongs to one endpoint of one device, and the
thread alone opens and closes them. Left out of the demos: what `DemoMidiSource`
plays, statistics, and the nxp loopback mode.

What could be added: the composition of guard, gate and ring on one path, whose
interfaces (a stream with Ends put in, and a gate that sees it) are now assumed by
each from the other; the bulk slots of `hcd`; an abstract gate that
keeps or loses whole messages, which `NetToUsb` would implement as long as no End
finds the FIFO full.
