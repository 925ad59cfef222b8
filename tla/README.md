# Ioniq 5 E-CAN gateway: TLA+ models, checks and proofs

The program (`src/`) is a ROS node that drives a Hyundai Ioniq 5 through a Panda USB-CAN device.
It takes the stock camera (LFA) and radar (SCC) ECUs off the bus with UDS communication control,
sends steering and acceleration frames in their place, and has to give the bus back after every
failure, on request and on exit. This directory holds specifications of the parts where that can go
wrong, TLC configurations that check them, and machine-checked proofs that the safety properties
hold beyond the checked instances, all refinements included.

- [1. The system](#1-the-system)
- [2. The modules and the code](#2-the-modules-and-the-code)
- [3. The runs](#3-the-runs)
- [4. Fairness](#4-fairness)
- [5. What is proved](#5-what-is-proved)
- [6. Disagreements found](#6-disagreements-found)
- [7. What is not modelled](#7-what-is-not-modelled)
- [8. Plan](#8-plan)

## 1. The system

### Processes and what they share

| Actor | Code | Shares |
|---|---|---|
| Control thread, 100 Hz | `control_loop`, `node.cpp:478-750` | atomics, `latest_health_`, `latest_decision_`, the Panda behind `actuation_mutex_` |
| Receive thread | `receive_loop`, `node.cpp:415-476` | connects and closes the Panda, delivers frames, UDS replies and health |
| Main thread (`ros::spin`) | `arm_callback`, `command_callback`, `raw_can_tx_callback`, `publish_status`, destructor | the same atomics, `latest_command_`, the Panda |
| Panda firmware with the patched command session | `patches/opendbc-command-session*.patch`, `patches/opendbc-hyundai-canfd-split-arm.patch` | USB control requests, CAN |
| ECUs, driver, upstream controller, cable | external | CAN, ROS topics, USB |

`actuation_mutex_` serialises mode transitions and host transmission. The receive thread must not
hold it while a transition waits, because it alone delivers the UDS replies and the stock frames a
transition waits for. Everything else is passed through about a dozen atomics that are read one at a
time, which is where the interleavings of interest are.

### Inventory

| Component | State | Operations | What makes it correct | Hard behaviour |
|---|---|---|---|---|
| Safety supervisor (`safety_supervisor.cpp`) | arm request, channel selection, latches, drive state, soft-disable deadline, button and rejection counters | `request_arm`, `update` (about twenty early returns) | transmit only when every gate of the current sample holds; brake latch; fixed EPS window; latched faults | long sequences of legal samples; stale selection; rejection and its cause arriving in different reads |
| Node: control thread | `applied_arm`, generation, transition epoch, ECU flags | sampling, automatic arming, applying a request, gap hand-back, takeover, cleanup, send | exclusive ownership of the frames; recovery always scheduled | check-then-act on atomics, waits of seconds under the lock |
| Node: receive thread | connection, health | connect, receive, health commit, failure handler | a disconnect drops ownership and schedules recovery | reconnect during a transition, stale health |
| Node: service and destructor | request atomics | `arm_callback`, `~Ioniq5EcanNode` | OFF wins; stock ECUs restored on exit; exit terminates | requests landing between two loads; lock and join order |
| Recovery schedule (`recovery_retry.hpp`) | pending, failures, next time | request, ready, failed, reset | back-off bounded, never lost | a request during a back-off |
| UDS exchange (`node.cpp:1004-1065`) | waiting flag, expected address, reply | send, wait, match | a left-over reply (only the address is compared) never makes the node forget a silent ECU | late replies, timeouts |
| Panda USB driver (`panda_usb.cpp`) | `ready_`, handle, carry | connect, disconnect, transfers, mode, heartbeat | a failed transfer is noticed | partial writes, reconnect with an old handle |
| Packet protocol (`panda_protocol.cpp`) | carry buffer | pack, unpack | no packet lost or duplicated | transfers split anywhere |
| Firmware command session (patches) | profile, intent, blocked, button edges, rx checks | mode change, message, tick, host drop, heartbeat | permission only from a new press, in one mode, with live CAN | modes changing while buttons are held |
| Vehicle state parser (`vehicle_state_parser.cpp`) | last values and times, button counters | update, snapshot | validity window, one event per press | edges that firmware and host count differently |
| Command adapter (`command_adapter.cpp`) | last torque, integral, steer-request cycle | update, reset | slew and driver limits; request cut-off cycle | boundary around the cut-off angle |
| Hyundai codec (`hyundai_canfd_codec.cpp`) | counters | encode | CRC, counters | pure data |
| Command callback and raw transmit (`node.cpp:314-387`) | last sequence, latest command | accept, gate | no old command accepted; raw frames only when allowed | wrap of the sequence, stale decision |
| Configuration, status, diagnostics | none read back | load, publish | - | - |
| CAN logger, preflight and bench scripts, firmware build | own processes | - | - | - |

## 2. The modules and the code

```
SupervisorLogic ------ SafetySupervisor ------ MCSafetySupervisor
       |                  \--- Actuation ------ MCActuation
       \-------------- EcanNode --------------- MCEcanNode
CommandSession            | implements
                     EcuOwnership
                          | implements
                     EcuRecovery
FrameChannel <- implements - UsbLink ------ VehicleState ------ MCVehicleState

SupervisorLogicProofs --- SafetySupervisorProofs --- ActuationProofs
          \-------------- EcanNodeProofs
CommandSessionProofs      EcuRecoveryProofs         UsbLinkProofs --- VehicleStateProofs
```

A module `...Proofs` extends the module it is about and holds its theorems (section 5); the lemmas about
the supervisor's operators are used by the supervisor alone, in the command path and in the node.

Two modules are abstract specifications, with no code of their own. **EcuOwnership** says who sends the
camera's and the radar's frames: the node only while none of the stock ones is heard; it makes a note
before it silences an ECU and drops the note only when it hears the ECU again. **FrameChannel** says
what the receive thread relies on: frames come in bus order, at most once, and none that entered the
channel of a connection is lost. The detailed modules implement them (`KeepsOwnership`, `KeepsFrames`).

**SupervisorLogic** is `SafetySupervisor::request_arm` and `update` as operators on a record with the
object's members. `Updated(s, unseen, sample, now)` returns the new object and what it lets transmit. The
early returns are kept, in their order, as groups: `Prepared` (`Selection`, `Intervened` and `PandaChecked`
in turn), then `Judged` with `CommandJudged` and `ChannelsJudged`. All of `SafetyConfig` is CONSTANTS.
Abstractions: a button counter is only compared with the one last sampled, so `unseen` is the set of buttons
for which they differ; fault bits are a set of names with a set of ignored ones; ages are given instead of
time stamps, negative ones included (a stamp in the future); wording of the reason strings is left out.

**SafetySupervisor** is the supervisor as a state machine on its own: any sample of `Samples`, any
press, any request and the clock, in any order. `braked` and `paused_since` are history variables
that are computed from the inputs and not from the supervisor's own latch, which is what makes the
brake and window properties say more than the code's assignments.

**CommandSession** is the firmware session: `SetSafetyMode` is `set_safety_hooks`, `RxButtons`,
`RxBrake`, `RxOther` and `RxInvalid` the receive hook, `SafetyTick` the periodic tick, then the host's
`0xb8` request and the heartbeat mismatch. Messages are unseen, fresh, stale or lagging. The relay
malfunction, the transmit hook and the stock rules outside a session are left out.

**Actuation** extends SafetySupervisor to the path from the command topic to the LFA frame, in the
profile without a firmware session (the class defaults). `CommandCallback` is `command_callback` with
the sequence window of `sequence_is_newer`. The other actions are pieces of the three threads, cut
wherever another thread can change what the code goes on to use; `node` holds where each stands, the
locals it carries and the shared atomics:

| Actions | Code |
|---|---|
| `ArmCall`, `ArmStore`, `DisarmCall` | `arm_callback`: check (396) and stores (401-408) |
| `AutoArmReady`, `AutoArm` | automatic arming: check (541-547) and stores (548-550) |
| `LinkLost`, `Reconnect`, `ReceiveFails`, `ReceiveDisarm`, `ReceiveReset` | `ready_` cleared by any transfer, `receive_loop` and its catch block |
| `Recover`, `RecoverLater` | `retry_no_output_recovery` (489, 582, 592) |
| `Load`, `NothingToApply`, `ApplyArm`, `ApplyDisarm` | the two loads (553-554), `request_arm`, `applied_arm_` (555-558) |
| `Takeover`, `AlreadyTaken`, `TakeoverSkipped`, `TakeoverFails` | `enter_vehicle_safety_mode` and the handler (574-593) |
| `Leave`, `LeaveFails` | `enter_no_output_mode` of an applied disarm (580-593) |
| `Judge` | the samples and `update` (600), with the internal disarm of a supervisor that gave up (669-674) |
| `CleanUp`, `CleanUpUnplugged` | its `enter_no_output_mode` and the store of the decision (675-687) |
| `Send` | `CommandAdapter::update` (clamp, driver limit, slew, steer-request cycle), the store of the decision, and `Transmit`, which delivers all, some or none of the frames (690-735) |

The supervisor thus changes at `ApplyDisarm` and `Judge`, while the mode flag and `latest_decision_` change
at a later step. `RawGateOpen` is the gate of `raw_can_tx_callback`, a predicate that is looked at between
any two of these steps. Abstractions: the torque a command asks for, after the float controller or rounding,
is any element of `Torques`; the publisher numbers its messages like `scripts/torque_slider.py` or not at
all, the network loses, repeats and reorders them within one place, and the publisher may restart; of the
frame counters only is kept whether values were consumed without reaching the bus; a takeover and
`enter_no_output_mode` succeed or fail as a whole, with either outcome of what they had done before (their
steps are EcanNode's and EcuRecovery's); whether a retry is due, and what automatic arming waits for besides
the flags, is a choice; the exception handler of the adapter (694-700) is left out, because the adapter
throws only for non-finite commands, which `command_callback` never stores. `stream`, `lfa`, `run` and
`node.overtaken` are history variables; `overtaken` says that an arm request was stored over a pending
recovery, and lasts until `enter_no_output_mode` runs.

**UsbLink** is the CAN stream from the device to the host: `Open` and `ResetCommunication` are `connect`,
`TransferEnds` is `synchronize_can_receive` with `initial_receive_boundary` before the link is ready and
`receive`, `decode_bulk_read` and `unpack_frames` after it. A packet is a sequence of cells
`<<frame, position>>`; `carry` is `receive_carry_`. Firmware's endpoint, which queues one USB packet,
and its bounded frame queue are external. Bytes are not corrupted: a checksum failure in the model
is one the host brings upon itself by taking the middle of a packet for a header.
**VehicleState** adds `VehicleStateParser::update` and `parse_buttons` on the frames that arrive, with
levels that outlive a disconnect: `ParsedAll` is the inner loop of `receive_loop`.

The two loops over data, `FramesIn` (`unpack_frames`) and `ParsedAll`, are recursive functions on the
positions of their input, so that they can be proved about.

**EcuRecovery** is takeover and recovery message by message: the control thread's `task` is a list of
jobs (`disable_ecu` for both ECUs; or `restore_ecu` for both, `confirm_ecu_restored` for both, then
NO_OUTPUT), `SendRequest`, `Answered` and `TimesOut` are `uds_request`, `SendSilence` to `WatchEnds` the
rest of `disable_ecu` and the observation windows, `Deliver` with `Observed` is `observe_control_frame`,
`Requested` and `Failed` are `RecoveryRetry`. Replies may be lost, late (left over for the next request,
which only compares the address), negative or preceded by a negative one; requests may be lost; the
cable may be pulled; a diagnostic session may expire. Assumed of the outside: an ECU acts on a request
within the node's wait for it, a session expires only between attempts, a talking ECU is heard in
every window, and the receive thread has delivered what is on the bus when a wait ends.

**EcanNode** composes the supervisor with the three host threads, the Panda and the two ECUs in the
profile of `config/ioniq5_ecan.yaml` (`resume_on_command_return`). The grain is one action per piece
of code between two points where another thread can change what it goes on to use:

| Actions | Code |
|---|---|
| `NoOutputBegin` .. `NoOutputFinish` | `enter_no_output_mode`, `restore_ecu`, `confirm_ecu_restored` |
| `TakeoverBegin`, `DisableEcu`, `TakeoverConfigure` | `enter_vehicle_safety_mode`, `disable_ecu` |
| `Control...` | `control_loop` in program order; `ctl.pc` is where it stands, the other fields its locals |
| `Rx...` | `receive_loop` and its catch block |
| `ArmCall`, `ArmStore`, `Shutdown`, `MainStop`, `MainJoin` | `arm_callback` in two steps, the destructor |
| `Press`, `SessionAbort`, `Unplug`, `Replug` | driver, firmware, cable (external) |

`silenced` is the truth about the bus, `disabled` what the node believes (`camera_disabled_`,
`radar_disabled_`). Abstractions: generation and epoch counters are compared for equality only, so
`newer` says that a request is not applied yet, and health that was read across a transition is
forgotten when the transition begins; the back-off is a choice while failures are recorded; frame
contents are chosen when the control thread samples; EPS faults and CANCEL are left to
SafetySupervisor; tester-present timing and status publication are left out, the raw transmit gate
is in Actuation.

Definitions named `Mutant...` are deliberately wrong variants of the definition that follows them.
They are used by nothing; substituting one shows that the property it belongs to can fail.

## 3. The runs

| Run | Question | States | Result |
|---|---|---|---|
| `SupervisorResume` | shipped profile with samples on both sides of every limit: typing, coherence, authorisation, brake latch, fixed window, fault latch | 7,240 | holds |
| `SupervisorToggle` | class defaults from the command topic to the LFA frame: Actuation with its three threads interleaved | 1.9 million | holds |
| `CommandSession` | permission needs live intent; intent needs a new press; only buttons grant; longitudinal needs SET after the brake | 376,980 | holds |
| `VehicleState` | UsbLink is a FrameChannel, raises no checksum error of its own, delivers; no button edge counted that the bus did not carry | 47,886 | holds |
| `EcuRecovery` | takeover and recovery keep ownership; attempts are spaced; every recovery ends | 419,912 | holds |
| `NodeFaults` | one unplug and one other failure anywhere: ownership (also as a refinement of EcuOwnership), ECU flags, recovery, fresh health | 2.9 million | holds |
| `NodeRequests` | a service call, a press and the destructor anywhere, every kind of sample: ownership (also as a refinement), fresh health | 2.9 million | holds |
| `NodeShutdown` | the destructor returns | 19,205 | holds |
| `NodeOperatorOff` | an operator's OFF reaches the supervisor | - | violated |
| `NodeExit` | no ECU is silenced when the process is gone | - | violated |
| `NodeLateWrite` | a silenced ECU is remembered, when a write fails after delivery | - | violated |
| `NodeStuckRecovery` | a pending recovery completes | - | violated |

Bounds, and why they show the interesting cases:

- *Supervisor.* `MCSamples` is the nominal sample with one deviation of any kind or two of the kinds the
  code combines (brake, gas, EPS, ACC fault, session, selection, permission, rejection, command enable,
  command age, mode, `disabled_bus`). Any sequence of them is explored. Timeouts are 1 or 2 with ages below,
  at and above them; speed and steering angle lie at and beyond their limits; the clock reaches 4 with a
  window of 2, so a window can begin late, be left and be entered again. The proofs have neither bound.
- *Actuation.* `MCSamples` has one lost permission of each kind, because the supervisor's own run and the
  proofs cover the others, and the steering angle on both sides of the cut-off. `MCNext` keeps the product
  of the threads with the topic small: numbers, losses and restarts of the publisher are explored while the
  node is as it started, and the threads with messages without numbers, which come, like button presses and
  ticks, just before the judgement, the only step that reads them. The proofs are about `ActuationNext`,
  where all of it interleaves. Numbers are modulo 8 instead of 2^32 and start at 7, so that they wrap inside
  a run (`FirstMessage`, `MaxMessages`) and the half range is three steps; the clock reaches 2 with a
  command timeout of 1. The steer-request cycle is two valid frames and one cut frame. `use_enable_field_`
  is off in this instance: a command then counts as enabled, as in the class defaults. The driver turns
  against the torque, which takes a third of it away.
- *VehicleState.* Nine frames of one to three cells in USB packets of two and a buffer of four: a packet
  boundary falls inside a frame and on its end, a transfer ends short, full or by timeout. The queue
  of five cells overflows while the host does not read. SET is pressed twice and left once for RES+.
- *EcuRecovery.* `MaxFaults` = 2: a late reply together with a lost message or a disconnect; two failed
  attempts take the delay (1, 2, 3) to its cap. `MaxFailures` stops the count where the cap is reached.
- *CommandSession.* No bound: the state space is finite. Two profiles, one without longitudinal, cover
  replacement by the same and by another profile; three messages cover buttons, brake and the rest.
- *EcanNode.* `MaxPresses`, `MaxCalls`, `MaxUnplugs` and `MaxFailures` bound events of the environment,
  not steps of the program. One unplug together with one failure gives a failure inside recovery from
  the unplug, a failed reconnect, and a failed takeover whose recovery meets an unplug; one call, one
  press and the destructor meet each other at every point. Failures are USB transfers, missing UDS
  replies, stock frames that do not stop, a session abort, a loss of readiness and a refused command.
- The fairness runs use the lateral-only profile (one ECU) and one kind of sample, because a liveness
  check needs the graph in memory. `NodeFaults` covers the two-ECU order with safety properties.

Properties worth a word:

- `KeepsOwnership`, of EcanNode and of EcuRecovery: the threads, and the messages, together behave as one
  node that takes and gives back the ECUs in the order of EcuOwnership.
- `RecoveryEnds`, `AttemptsAreSpaced`: replies left over from requests that were given up, and expired
  sessions, do not fail one attempt after the other; requesting recovery in every control period
  does not shorten the back-off.
- `StreamInOrder`, `PublisherNotLockedOut`: across the wrap of the number and a restart of the publisher no
  command is replaced by an older one, and none is refused for longer than the command timeout.
- `RequestIsCutAtHighAngle`, `TorqueHasAuthority`, `CountersContinue`: properties of the sequence of frames
  on the bus, across permission, angle, pauses, takeovers, reconnects and failed transfers of the three
  threads. The first and the last except a node that was `overtaken` (section 6).
- `RawGateFollowsSupervisor`: the gate reads a copied decision and an atomic. They lag behind the
  supervisor, but only until the control thread's next step: at `leave` (a disarm applied, the vehicle mode
  not yet left), `cleanup` and `send` (a judgement not yet stored). At every other point an open gate means
  an armed, engaged supervisor with longitudinal selected.
- `FaultIsLatched`: a step that leaves a latched fault is the *action* of an arm request, or an update without a
  fresh Panda. It names actions, not results: in Fault nothing is selected, so the result of a
  disarm is the same as that of an update which clears the fault.
- `NoFalseChecksumError`, `KeepsFrames`, `FramesArrive`: no cut, timeout, reset or reconnect loses, repeats or
  shifts a frame of a connection, and none waits for later traffic to push it out.
- `EventsHappened`: lost and malformed frames never make the host count an edge of a button that the bus did
  not carry: levels kept over a gap lose edges, and invent none. It does not say that the host counts no
  more than firmware, which is false (section 6).
- `LongitudinalNeedsSetAfterBrake`: firmware's longitudinal intent is younger than the last brake message it
  received, in every mode.
- `ExclusiveOwnership`: whenever frames may leave, all ECUs they replace are really off the bus *and*
  flagged, and a reachable Panda is in the vehicle mode. It relates three threads and the device.
- `RecoveryIsScheduled`: an ECU that is flagged while the node does not drive has a recovery pending
  or a thread on its way to request one.
- `FreshHealthWhenTransmitting`: the epoch test works; frames go out only on health read after the
  takeover.
- `BrakeLatchesLongitudinalOff`, `SoftDisableWindowIsFixed`, `OutputAuthorised`: see section 5.
- `IntentNeedsNewPress`, `OnlyButtonsGrant`: a button held across the installation of the listener
  selects nothing, the host cannot grant, an aborted session stays aborted within its profile.

## 4. Fairness

`FairSpec` assumes weak fairness of `Transitioning`, `Control` and `Main` (threads are scheduled and
every wait has a timeout, so that a wait always ends one way or the other), and strong fairness of
`Receive`, of the destructor's `NoOutputBegin` and of `ControlRetry`. Strong fairness is needed because
these compete for a lock that is free again and again: the control thread sleeps without it in every
period, so a waiter is not passed over for ever, and a back-off, which the model leaves as a
repeated choice, lasts at most 30 s. Service calls, the driver, failures, the cable and `Shutdown` get
no fairness.

`EcuRecovery!FairSpec`: weak fairness of the control thread's steps, of delivery, of the ECUs' processing
and stock frames, of the cable's return and of time. Faults are not fair and bounded. `RecoveryEnds` needs
all of it, since a cable that stays out or an ECU that never answers leaves recovery pending, as it must.

`LinkFairness` in UsbLink: firmware fills its endpoint, a bulk transfer takes what is there, and a transfer
that is complete returns, because the receive loop does nothing else. Timeouts, disconnects and `connect`
get none.

## 5. What is proved

The theorems hold for all values of the constants that satisfy the ASSUMEs of the modules, which say
that a constant is a number, a Boolean or a subset of the values its type has, and little more: any
configuration and timeouts, any sets of samples and messages, any bounds on time, faults, presses, calls
and unplugs, any frame lengths and buffer sizes. Assumptions that choose something: `DefaultProfileAssumption`
(Actuation is about the class defaults), `ResumeProfileAssumption` (EcanNode is about the shipped profile),
`UsbAssumption` (the receive buffer is a multiple of the USB packet, as it is in `panda_usb.cpp`), and
`DelayAssumption` (`MaxFailures` stops the count only once the delay has reached its cap). One hypothesis
is part of two statements: `~LateWriteErrors`, no write fails after it was delivered.

| Module | Theorem | Statement |
|---|---|---|
| SafetySupervisorProofs | `InductiveInvariant`, `TypeCorrect` | the inductive invariant; `Spec => []TypeOK` |
| | `Consistency` | `Spec => []ConsistentSupervisor` |
| | `Authorisation` | `Spec => []OutputAuthorised` |
| | `FaultLatch` | `Spec => FaultIsLatched`, from the invariant `FaultNeedsActuation` |
| | `FixedWindow` | `Spec => []SoftDisableWindowIsFixed` |
| | `BrakeLatch` | `Spec => []BrakeLatchesLongitudinalOff` |
| CommandSessionProofs | `SessionInvariant`, `SessionTypeCorrect` | the inductive invariant; `Spec => []TypeOK` |
| | `SessionPermission` | `Spec => []PermissionNeedsLiveIntent` |
| | `SessionNewPress` | `Spec => []IntentNeedsNewPress` |
| | `SessionBrake` | `Spec => []LongitudinalNeedsSetAfterBrake` |
| | `SessionOnlyButtonsGrant` | `Spec => OnlyButtonsGrant` |
| ActuationProofs | `ActuationInvariant`, `ActuationTypeCorrect` | the inductive invariant; `ActuationSpec => []ActuationTypeOK` |
| | `RequestCut` | `ActuationSpec => []RequestIsCutAtHighAngle` |
| | `TorqueAuthority` | `ActuationSpec => []TorqueHasAuthority` |
| | `CounterContinuity` | `ActuationSpec => []CountersContinue` |
| | `RawGate` | `ActuationSpec => []RawGateFollowsSupervisor` |
| | `NotLockedOut` | `ActuationSpec => []PublisherNotLockedOut` |
| | `StreamOrder` | `ActuationSpec => StreamInOrder` |
| | `SupervisorInNode` | the supervisor's consistency, authorisation and brake latch, composed into the node |
| EcuRecoveryProofs | `RecoveryInvariant`, `RecoveryTypeCorrect` | the inductive invariant; `Spec => []TypeOK` |
| | `RecoveryAttemptsSpaced` | `Spec => AttemptsAreSpaced` |
| | `RecoveryKeepsOwnership` | `Spec => KeepsOwnership`: EcuRecovery implements EcuOwnership |
| EcanNodeProofs | `NodeInvariant`, `NodeTypeCorrect` | the inductive invariant; `Spec => []TypeOK` |
| | `NodeExclusiveOwnership` | `Spec => []ExclusiveOwnership` |
| | `NodeFreshHealth` | `Spec => []FreshHealthWhenTransmitting` |
| | `NodeRecoveryScheduled` | `Spec => []RecoveryIsScheduled` |
| | `NodeSilencedRemembered` | `~LateWriteErrors`: `Spec => []SilencedEcuIsRemembered` |
| | `NodeKeepsOwnership` | `~LateWriteErrors`: `Spec => KeepsOwnership`: EcanNode implements EcuOwnership |
| UsbLinkProofs | `LinkInvariant` | the inductive invariant: the stream in step, its frames in order |
| | `LinkNoFalseChecksumError` | `LinkSpec => []NoFalseChecksumError` |
| | `LinkKeepsFrames` | `LinkSpec => KeepsFrames`: UsbLink implements FrameChannel |
| | `LinkTypeOK` | `LinkSpec => []TypeOK`, the bounds of buffer, endpoint and carry included |
| | `LinkCarryIsBounded` | `receive_carry_` is the beginning of one packet, and less than it |
| VehicleStateProofs | `StateNoFalseChecksumError`, `StateKeepsFrames`, `StateTypeOK` | the same of `StateSpec`, the link with its parser |
| | `StateEventsHappened` | `StateSpec => []EventsHappened` |

`LinkSpec` is the link without fairness and with any receiver; `ParserOnlyReads` shows that `StateSpec`
implies it.

SupervisorLogicProofs holds only lemmas. Each inductive invariant was given to TLC as an invariant of the
component's runs before it was proved.

### The arguments

*Supervisor.* `update` is a pipeline: select channels, intervene (brake, ACC fault), check the Panda, judge
the command and the vehicle, and it returns early at some twenty places. Two things are needed to
carry an invariant through it. The first is a strengthening, `Inductive`: the types, and the coherence of
request, selection, state and deadline together with a driven channel in an engaged state. Authorisation,
for instance, does not follow from itself: that an engaged supervisor is armed is a fact about its
members, not about the sample. The second is that a channel for an engaged state may be lost in the middle
of the pipeline (the driver turns it off) and is restored only by the stage that ends it. So the
conjunction is split into `Coherent`, which holds between all stages, and `Driven`, which holds at the
ends. Each stage has one lemma (`RequestArmedFacts`, `SelectionFacts`, `IntervenedFacts`,
`PandaCheckedFacts`, `PreparedFacts`, `CommandJudgedIsSound`, `JudgedIsSound`) that says what its early
returns leave true, and `UpdatedFacts` joins them, so that the step of the specification is a citation.
`FixedWindow` follows from a second invariant (`WindowKept`: the deadline belongs to the recorded
beginning), and `BrakeLatch` from a third (`BrakeKept`: once braked, longitudinal is lost,
`LongitudinalLost`, along every path that the following samples can take; in the resume profile this needs
the latch as well as the selection, because Panda's own selection may still be on).

*Command session.* Permission is derived from intent at the end of every entry point, so `Disciplined` (no
intent outside a session or in a blocked one, no permission without intent and mode) is the state that
`enforce` re-establishes; each of `Abort`, `Gated`, `Granted`, `Cleared`, `Prepare` has one lemma.
`IntentNeedsNewPress` is not inductive: that a button which is still held from before the installation
grants nothing depends on what the hook remembers of it. `Untouched` says that: while nothing was pressed, a
button that is down is already the previous level, and a held SET is one whose release is ignored.

*Command path.* `Supervised` takes the supervisor's invariants over by citing `UpdatedFacts`.
`RequestIsCutAtHighAngle` speaks of the frames on the bus, the code counts in the adapter; `FramesInStep`
relates the two with `RunOf` while frames go out with no counter value lost, and leaves only the bounds
otherwise, because pauses and takeovers restart one and not the other. What keeps frames from going out
after a failed transfer is not a flag but a race that the disarm always wins: `RequestsInStep` says that
while counter values are lost and the node could still drive, `DisarmComes`: the control thread stands at
`leave`, or will load a newer request that is a disarm before it can judge again. An arm request stored in
between breaks exactly this, and sets `overtaken`. `GateInStep` says at which points the stored decision may
be older than the supervisor, and why each of them is left with the mode flag cleared or the decision
stored. Both are inductive because the receive thread's steps only clear `connected` and the mode flag or
add a disarm (`LinkKeepsControl`), and the service thread's only replace the request
(`RequestsKeepControl`). The order of the commands is a second half with an invariant of its own
(`StreamInStep`: `last_sequence_` is the number of the last message accepted from the present publisher
run); `StreamOrder` and `NotLockedOut` follow with modular arithmetic on the half range, for every even
modulus.

*UDS recovery.* What could make the node forget an ECU is a reply or a stock frame from before.
`RequestsInStep` says that a request to be silent is on its way in the settle time only, and nothing is on
its way to the camera while the radar is taken; from it follows `FramesTellTheTruth`: outside the settle
time a stock frame that is still to be counted comes from an ECU that talks now. With `SilentIsNoted` every
step is one of EcuOwnership: `SendSilence`, and a `Process` that silences an ECU, is `TakeOver`; the last
`WatchEnds` of a takeover is `Drive`; `RequestRecovery` and `Unplug` are `Stop`; the `WatchHears` of a
recovery, and a `Process` or `Expire` that lets an ECU talk again, is `GiveBack`; all other steps stutter.
`AttemptsAreSpaced` states the documented powers of two while `failed()` doubles the last delay; the bridge
is `2^(n+1) = 2^n + 2^n`, which the prover does not know and `PowerDoubles` derives by counting the subsets
of an interval, and `RetryInStep`: the time since the last failure and the time still to wait make up its
spacing.

*Node.* The three threads share atomics, so each conjunct says what a program point has already secured:
`LockInStep` (who holds the lock while which step is under way, and that no health read before a transition
is still to be committed), `FlagsInStep` (which ECUs are silent and flagged at each step of a takeover and
of a recovery; while the node drives, all of them are both), `HealthInStep` (the health that threads keep
shows the vehicle mode while the node drives), `SupervisorInStep` and `RecoveryIsScheduled`. The proof has
one step per action; `QuietStep`, `PeriodStep` and `OwnershipSteps` are the patterns most actions are
instances of. `SilencedEcuIsRemembered` and the refinement need `~LateWriteErrors`: the run `NodeLateWrite`
refutes the first without it (section 6), so the hypothesis cannot be dropped.

*USB stream.* `Whole` says of a stream, cut or not at its beginning, that it goes on without a gap to the
end of a packet. The firmware's queue is whole (`QueueInStep`), and behind a USB packet that is not
full, only whole packets come, which is why a short transfer is a boundary (`SyncInStep`). Once ready,
carry, buffer, endpoint and queue together are whole and begin with a header (`ReadyInStep`): every step moves
cells between the four parts, appends a packet, or takes complete packets from the front, and a stream
that is whole from a header passes every checksum (`PrefixIsAligned`). That `Unpacked` is a maximum needs
that a set of positions has one; `MaxOfPositions` gets it from the well-foundedness of the numbers.

*Frame channel.* The frames of a stream are those whose last cell is in it (`FramesIn`), so the refinement
needs `FramesOfJoin`: the frames of two parts behind each other are those of the one, then those of the
other. With it each step lemma says what became of the stream (nothing, a packet behind it, or a part taken
from its front), and `LinkStepImplements` reads off the step of FrameChannel: a frame of the bus is `Put`,
`Receive` is `Take`, the boundary that is found is `Connect`, a loss is `Break`. `Connect` demands that the
frames of a new connection are in bus order; that is `OrderInStep` (of what firmware holds), inductive
because a reset takes a part out of the middle and everything else happens at the two ends. Of a connection
the same is `ConnectionInOrder`. That the receive buffer is not exceeded (`BufferInStep`) needs that it
holds whole USB packets until a short one, and that its capacity is a multiple of them.

*Loops over data.* The provers have no induction scheme for a formula given as a parameter, so `CountingUp`
states it with a set: a set of positions with 0 and with each successor holds all of them (`LeastNumber`,
from the well-foundedness of the numbers, on its complement). `PrimitiveRecursion` shows with it that a
recursion over positions has a solution, and `FramesAreCounted` and `FramesAreParsed` that the CHOOSE behind
the two recursive functions is such a solution: the loop takes one element after the other. All that is
said of the loops rests on these two.

*Button events.* `EventsHappened` compares a count with the presses on the bus, and is not inductive: it
does not say what the parser believes. `LevelsInStep` does: there is a button frame of the bus, or the
start, at which the parser stands, whose levels it has, up to which it counted no more than happened,
and which is earlier than every frame it may still get (`FramesLeft`, which a disconnect only
shortens). A frame that arrives is then later than that one, whatever was lost in between. If it makes
the parser count an event, the event's level was not reached at the earlier frame and is reached at the
later, so the least button frame in between that reached it is an edge on the bus
(`EdgeHappened`), and it lies behind all that were counted before. The bus may leave SET for any other
button; `EdgeIsReached` holds because the parser counts in fewer cases, not in others.

### Only model-checked

- Liveness: `ShutdownTerminates`, `RecoveryEnds`, `FramesArrive`. The prover does not reason about
  ENABLED, which weak and strong fairness are made of.
- The four properties that runs refute, `RecoveryCompletes` among them.

Every invariant, action property and refinement that a passing run checks is a theorem. No module uses a
RECURSIVE operator.

## 6. Disagreements found

Each is the single property of a run that TLC refutes; the traces are short enough to read.

1. `NodeOperatorOff`: the control loop loads `requested_arm_` (`node.cpp:553`) and then the generation
   (554). An OFF stored in between is consumed as the generation of the earlier ON. The same happens
   between the check of automatic arming (541) and its stores (548-550). `node.hpp:118` and
   `docs/safety.md:142` say that OFF is not overridden.
2. `NodeExit`: a takeover that was decided before the destructor takes the lock runs after the restore
   and silences the camera again; both threads then end. `node.cpp:143` and `docs/safety.md:151-152`
   say that both ECUs are restored.
3. `NodeLateWrite`: `disable_ecu` sets its flag after `send_uds` returns (1079-1080). A write that
   reports an error after delivery leaves an ECU silenced that every restore path skips.
4. `NodeStuckRecovery`: a receive failure between the check and the stores of automatic arming leaves
   `recovery_pending_` and `requested_arm_` both set; retry and takeover each wait for the other flag.

`SilencedEcuIsRemembered` holds in `NodeFaults`, where no write fails after delivery
(`LateWriteErrors = FALSE`), so disagreement 3 is the only way the model can lose an ECU.

Disagreements that no run shows:

5. An arm request that passed its check of `recovery_pending_` (396, 541) before the internal disarm of a
   failed transfer (734) and is stored after it (407, 549) keeps the vehicle mode on: with a time-out
   `ready_` stays set, `enter_vehicle_safety_mode` returns at 769, and the node goes on sending with lost
   counter values and a shifted request cycle. `docs/safety.md:158-159` says that it does not arm again
   before the restore is confirmed. Actuation contains it; `RequestIsCutAtHighAngle` and `CountersContinue`
   name it as their exception (`node.overtaken`), and fail in `SupervisorToggle` without it.
6. The raw gate stays open from `request_arm(false)` (557) or `update` (600) until the lock is taken (841)
   or the decision stored (685, 704). `RawGateFollowsSupervisor` names these three points.
7. `docs/safety.md:120-121` says that host and firmware take the same button edge. Firmware takes the levels
   at the installation of its listener for a baseline and ignores the release of a SET held then
   (`opendbc-command-session.patch:164-175`); the host counts both, and in turn does not count a SET that is
   left for RES+ (`vehicle_state_parser.cpp:213`). CommandSession and VehicleState have one side each.

## 7. What is not modelled

- The floating-point controller of the adapter and its acceleration channel, signal decoding in the
  parser other than the buttons, bit layouts and CRC of the codec: data without control.
- The device side of USB writes: a write that times out may leave half a packet in firmware's assembler
  (`panda_usb.cpp:347`), which would garble what follows until the next 0xC0. The assembler is not
  part of the repository.
- Real time: the length of transitions against the 800 ms of tester present and the ECUs' session timeout,
  and a receive thread that lags by more than an observation window (350 to 500 ms). EcuRecovery names
  the assumptions that stand for them.
- The validity window of `snapshot`: `valid` is an input of the supervisor, chosen freely.
- The shape of raw CAN frames; of the raw path only the gate is there, in the profile without resume: the
  periods of the resume profile that end at 610 and 665 without storing a decision are not in Actuation.
- In firmware: the relay malfunction, the transmit hook and the stock rules outside a session.
- Configuration, publication, logger, preflight, bench, build and flashing scripts: I/O, or
  single-threaded sequences run by a person. `steering_sweep` has an ECU session of its own, with the
  same requests in one thread.

## 8. Plan

Done, the most important behaviour first: supervisor and its proofs, firmware session, node with its
failures, requests and shutdown; then the ownership refinement, UDS recovery with its faults, the command
path to the bus, the USB stream and the parser's buttons.

Then the proofs, in the order of section 5: supervisor, firmware session, command path, UDS recovery with its
refinement, node with its refinement, USB stream with its refinement, button events.

What would come next:

1. The counterpart of `OperatorOffIsApplied` for ON requests, which the cleanup of the control loop may
   swallow (`node.cpp:673`), and the intent that survives an operator's OFF (`node.cpp:617`).
2. A timed model of a transition against tester present and the ECUs' sessions (`node.cpp:1152`), to
   replace the assumptions of EcuRecovery.
3. The host's events from below: how many presses it may miss, in terms of the frames that were lost.
