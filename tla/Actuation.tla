------------------------------- MODULE Actuation -------------------------------
(***************************************************************************)
(* From the command topic to the LFA frame: command_callback, the control  *)
(* period (src/node.cpp), the command adapter (src/command_adapter.cpp),   *)
(* the frame counters of src/hyundai_canfd_codec.cpp and the raw transmit  *)
(* gate, composed with the supervisor of SafetySupervisor in the profile   *)
(* without a firmware session (the class defaults).                        *)
(*                                                                         *)
(* Grain.  The control, receive and service threads share atomics and      *)
(* actuation_mutex_.  As in EcanNode one action is the code between two    *)
(* points where another thread can change what it goes on to use: the      *)
(* checks before the stores of an arm request, the loads of the request,   *)
(* the change of the supervisor before the lock that leaves the vehicle    *)
(* mode, and the judgement before the store of latest_decision_ are steps  *)
(* of their own; request_internal_disarm is one.  The samples of a period  *)
(* are taken at Judge: the steps since the code took them read neither     *)
(* the command, nor the clock, nor the buttons, so whatever came between   *)
(* may as well come after the judgement.                                   *)
(*                                                                         *)
(* Abstractions.  Takeover and enter_no_output_mode succeed or fail as a   *)
(* whole (EcanNode has their steps), and when a retry is due is a choice.  *)
(* What else automatic arming waits for is a choice, too.  A generation is *)
(* only compared: `newer' says that it is not the applied one.             *)
(* The torque a command asks for, after the float controller of the rate   *)
(* and curvature modes or the rounding of direct_torque, is any element of *)
(* Torques.  The publisher numbers its messages 1, 2, ...,                 *)
(* SequenceModulus - 1, 1, ...; the network loses, repeats and reorders    *)
(* them within one place.  Of the frame counters only is kept whether      *)
(* values were consumed without reaching the bus.                          *)
(* Mutant... definitions are wrong variants that show a property can fail. *)
(***************************************************************************)
EXTENDS SafetySupervisor

CONSTANTS
    UseEnableField,          \* use_enable_field_
    SequenceModulus,         \* 2^32
    FirstMessage,            \* number of the first message the node hears of
    MaxMessages,             \* bound on messages of one publisher run
    DriverButtons,           \* the buttons the driver uses
    Torques,                 \* torques a command may ask for
    DriverTorques,           \* driver torques the MDPS may report
    MaxTorque, TorqueRateUp, TorqueRateDown,
    DriverTorqueAllowance, DriverTorqueMultiplier, DriverTorqueFactor,
    CutoffAngle,             \* steer_request_cutoff_angle_deg, 0 disables it
    ValidFrames, CutFrames   \* steer_request_valid_frames, steer_request_cut_frames

ASSUME AdapterAssumption ==
    /\ UseEnableField \in BOOLEAN
    /\ DriverButtons \subseteq Buttons
    /\ SequenceModulus \in Nat /\ SequenceModulus >= 8 /\ SequenceModulus % 2 = 0
    /\ FirstMessage \in Nat \ {0} /\ MaxMessages \in Nat
    /\ Torques \subseteq Int /\ DriverTorques \subseteq Int
    /\ MaxTorque \in Nat
    /\ TorqueRateUp \in Nat \ {0} /\ TorqueRateDown \in Nat \ {0}
    /\ DriverTorqueAllowance \in Nat /\ DriverTorqueMultiplier \in Nat
    /\ DriverTorqueFactor \in Nat
    /\ CutoffAngle \in Nat
    /\ ValidFrames \in Nat \ {0} /\ CutFrames \in {1, 2}
ASSUME DefaultProfileAssumption == ~ResumeOnCommandReturn

VARIABLES
    latest,     \* latest_command_ and last_sequence_
    stream,     \* history: the publisher, what was accepted of it and what refused
    node,       \* the control, receive and service threads: steps, locals and shared atomics
    published,  \* latest_decision_: what raw_can_tx_callback reads
    adapter,    \* last_torque_ and high_angle_frames_
    codec,      \* counter values were lost since the takeover; has_scc_template_
    lfa,        \* history: the LFA frame that the last step put on the bus
    run         \* history: frames in a row at high angle with, or without, the request

allVars == <<vars, latest, stream, node, published, adapter, codec, lfa, run>>

Cycle == ValidFrames + CutFrames
NoFrame == [steers |-> FALSE, request |-> FALSE, enabled |-> FALSE, old |-> FALSE,
            lost |-> FALSE]
NoCounters == [lost |-> FALSE, template |-> FALSE]
NoRun == [requested |-> 0, cut |-> 0]

NodeState ==
    [at : {"top", "auto", "arming", "load", "apply", "takeover", "leave", "recover", "judge",
           "cleanup", "send"},          \* the next step of the control thread
     requested : BOOLEAN,               \* its local copy of the arm request
     high_angle : BOOLEAN, old : BOOLEAN,   \* of its samples: the angle, the age of the command
     receive : {"poll", "restore", "failed", "reset"},   \* the next step of the receive thread
     calling : BOOLEAN,                 \* arm_callback(true) has passed its check
     requested_arm : BOOLEAN, newer : BOOLEAN, applied_arm : BOOLEAN,
     recovery_pending : BOOLEAN, vehicle_safety_mode : BOOLEAN, connected : BOOLEAN,
     overtaken : BOOLEAN]               \* history: a request was stored over a pending recovery

InitialNode ==
    [at |-> "top", requested |-> FALSE, high_angle |-> FALSE, old |-> FALSE,
     receive |-> "poll", calling |-> FALSE, requested_arm |-> FALSE, newer |-> FALSE,
     applied_arm |-> FALSE, recovery_pending |-> FALSE, vehicle_safety_mode |-> FALSE,
     connected |-> FALSE, overtaken |-> FALSE]

ActuationTypeOK ==
    /\ latest \in [stamped : BOOLEAN, received_at : 0..MaxTime, valid : BOOLEAN,
                   enable : BOOLEAN, last_sequence : 0..(SequenceModulus - 1)]
    /\ stream \in [restarted : BOOLEAN, accepted : BOOLEAN \X Nat,
                   refusing : BOOLEAN, since : 0..MaxTime]
    /\ node \in NodeState
    /\ published \in [lateral : BOOLEAN, longitudinal : BOOLEAN]
    /\ adapter \in [torque : -MaxTorque..MaxTorque, frames : 0..(Cycle - 1)]
    /\ codec \in [lost : BOOLEAN, template : BOOLEAN]

ActuationInit ==
    /\ Init
    /\ latest = [stamped |-> FALSE, received_at |-> 0, valid |-> FALSE, enable |-> FALSE,
                 last_sequence |-> 0]
    /\ stream = [restarted |-> FALSE, accepted |-> <<FALSE, FirstMessage - 1>>,
                 refusing |-> FALSE, since |-> 0]
    /\ node = InitialNode
    /\ published = [lateral |-> FALSE, longitudinal |-> FALSE]
    /\ adapter = [torque |-> 0, frames |-> 0]
    /\ codec = NoCounters
    /\ lfa = NoFrame
    /\ run = NoRun

-----------------------------------------------------------------------------
(* command_callback *)

MutantSequenceIsNewer(candidate, previous) == candidate = 0 \/ previous = 0 \/ candidate > previous

\* sequence_is_newer: the difference modulo 2^32 is less than half of the range.
SequenceIsNewer(candidate, previous) ==
    \/ candidate = 0 \/ previous = 0
    \/ LET delta == (candidate - previous) % SequenceModulus
       IN  delta # 0 /\ delta < SequenceModulus \div 2

LatestFresh(l) == Fresh([stamped |-> l.stamped, age |-> now - l.received_at], CommandTimeout)

Discarded(sequence) ==
    /\ sequence # 0 /\ latest.last_sequence # 0 /\ LatestFresh(latest)
    /\ ~SequenceIsNewer(sequence, latest.last_sequence)

MutantReceived(sequence, finite, enable) ==
    IF Discarded(sequence) THEN [latest EXCEPT !.received_at = now]
    ELSE [latest EXCEPT !.stamped = TRUE, !.received_at = now, !.valid = finite,
                        !.enable = finite /\ (~UseEnableField \/ enable),
                        !.last_sequence = IF finite /\ sequence # 0 THEN sequence ELSE @]

\* A discarded message leaves no trace; a non-finite one invalidates, but keeps last_sequence_.
Received(sequence, finite, enable) ==
    IF Discarded(sequence) THEN latest
    ELSE [latest EXCEPT !.stamped = TRUE, !.received_at = now, !.valid = finite,
                        !.enable = finite /\ (~UseEnableField \/ enable),
                        !.last_sequence = IF finite /\ sequence # 0 THEN sequence ELSE @]

\* The publisher's number of message i (scripts/torque_slider.py), 0 if it does not number them.
SequenceOf(i) == ((i - 1) % (SequenceModulus - 1)) + 1

Heard == [stream EXCEPT !.refusing = FALSE, !.since = 0]
Refused == [stream EXCEPT !.refusing = TRUE, !.since = IF stream.refusing THEN @ ELSE now]

\* The messages that may arrive: up to two ahead of the one last accepted, or one behind it.
Arriving ==
    IF stream.restarted /\ ~stream.accepted[1] THEN 1..2
    ELSE (stream.accepted[2] - 1 .. stream.accepted[2] + 2)
         \cap (1 .. IF stream.restarted THEN MaxMessages ELSE FirstMessage - 1 + MaxMessages)

CommandCallback(i, finite, enable) ==
    /\ enable => finite /\ UseEnableField        \* otherwise it is not looked at
    /\ latest' = Received(SequenceOf(i), finite, enable)
    /\ stream' = IF Discarded(SequenceOf(i)) THEN Refused
                 ELSE [Heard EXCEPT !.accepted = IF finite THEN <<stream.restarted, i>> ELSE @]
    /\ lfa' = NoFrame
    /\ UNCHANGED <<vars, node, published, adapter, codec, run>>

\* A message of a publisher that does not number them.
UnnumberedCallback(enable) ==
    /\ enable => UseEnableField
    /\ latest' = Received(0, TRUE, enable)
    /\ stream' = Heard
    /\ lfa' = NoFrame
    /\ UNCHANGED <<vars, node, published, adapter, codec, run>>

\* The publisher starts again from 1.
RestartPublisher ==
    /\ ~stream.restarted
    /\ stream' = [stream EXCEPT !.restarted = TRUE]
    /\ lfa' = NoFrame
    /\ UNCHANGED <<vars, latest, node, published, adapter, codec, run>>

-----------------------------------------------------------------------------
(* The command adapter *)

Clamp(n, low, high) == IF n < low THEN low ELSE IF n > high THEN high ELSE n

\* apply_driver_torque_limits: a driver who turns against the torque takes it away.
DriverLimited(desired, driver) ==
    LET turned == driver * DriverTorqueFactor
        high == MaxTorque + (DriverTorqueAllowance + turned) * DriverTorqueMultiplier
        low == -MaxTorque + (-DriverTorqueAllowance + turned) * DriverTorqueMultiplier
    IN  Clamp(desired, Clamp(low, -MaxTorque, 0), Clamp(high, 0, MaxTorque))

\* apply_torque_slew: away from zero by at most rate up, towards or across it by rate down.
Slewed(last, desired) ==
    Clamp(desired, last - IF last > 0 THEN TorqueRateDown ELSE TorqueRateUp,
                   last + IF last < 0 THEN TorqueRateDown ELSE TorqueRateUp)


MutantRequestFrames(active, high) == IF active /\ high THEN adapter.frames + 1 ELSE 0
MutantSteeringRequest(active, high) == active /\ (high => adapter.frames <= ValidFrames)

\* update_steering_request: at a high angle the request is cut for CutFrames of every Cycle.
RequestFrames(active, high) == IF active /\ high THEN (adapter.frames + 1) % Cycle ELSE 0
SteeringRequest(active, high) == active /\ (high => adapter.frames < ValidFrames)

MutantTorqueAfter(allowed, desired, driver) ==
    Slewed(adapter.torque, IF allowed THEN DriverLimited(Clamp(desired, -MaxTorque, MaxTorque), driver) ELSE 0)

\* update: without lateral permission the torque is zero at once.
TorqueAfter(allowed, desired, driver) ==
    IF allowed
    THEN Slewed(adapter.torque, DriverLimited(Clamp(desired, -MaxTorque, MaxTorque), driver))
    ELSE 0

-----------------------------------------------------------------------------
(* Arm requests *)

\* A step of the node that touches its atomics only.
NodeStep(after) ==
    /\ node' = after
    /\ lfa' = NoFrame
    /\ UNCHANGED <<vars, latest, stream, published, adapter, codec, run>>

At(steps) == node.at \in steps
Going(step) == NodeStep([node EXCEPT !.at = step])

\* request_internal_disarm, called by the control and the receive thread.
InternalDisarm(n) ==
    [n EXCEPT !.requested_arm = FALSE, !.recovery_pending = TRUE, !.newer = TRUE]

\* The stores of an arm request.
ArmStored(n) ==
    [n EXCEPT !.requested_arm = TRUE, !.newer = TRUE, !.overtaken = @ \/ n.recovery_pending]

\* arm_callback(true): its check, and later its stores; a disarm checks nothing.
ArmCall ==
    /\ ~node.calling /\ AllowActuation /\ ~node.recovery_pending
    /\ NodeStep([node EXCEPT !.calling = TRUE])
ArmStore ==
    /\ node.calling
    /\ NodeStep([ArmStored(node) EXCEPT !.calling = FALSE])
DisarmCall ==
    /\ ~node.calling
    /\ NodeStep([node EXCEPT !.requested_arm = FALSE, !.newer = TRUE])

\* Automatic arming by the control thread: its check, and later its stores.
AutoArmReady ==
    /\ At({"top", "auto"})
    /\ ~node.recovery_pending /\ ~node.requested_arm /\ AllowActuation
    /\ Going("arming")
AutoArm ==
    /\ At({"arming"})
    /\ NodeStep([ArmStored(node) EXCEPT !.at = "load"])

-----------------------------------------------------------------------------
(* The Panda link and the receive thread *)

\* A failed transfer of any thread may clear ready_; a time-out does not.
LinkLost ==
    /\ node.connected
    /\ NodeStep([node EXCEPT !.connected = FALSE])

\* connect(); with an ECU still taken, as always in the vehicle safety mode, it disarms next.
Reconnect ==
    /\ node.receive = "poll" /\ ~node.connected
    /\ \E step \in {"poll", "restore"} :
           /\ node.vehicle_safety_mode => step = "restore"
           /\ NodeStep([node EXCEPT !.connected = TRUE, !.vehicle_safety_mode = FALSE,
                                    !.receive = step])

\* The catch block: disconnect(), then an internal disarm, then applied_arm_.
ReceiveFails ==
    /\ node.receive = "poll"
    /\ NodeStep([node EXCEPT !.connected = FALSE, !.vehicle_safety_mode = FALSE,
                             !.receive = "failed"])
ReceiveDisarm ==
    /\ node.receive \in {"restore", "failed"}
    /\ NodeStep([InternalDisarm(node) EXCEPT
                    !.receive = IF @ = "failed" THEN "reset" ELSE "poll"])
ReceiveReset ==
    /\ node.receive = "reset"
    /\ NodeStep([node EXCEPT !.applied_arm = FALSE, !.receive = "poll"])

-----------------------------------------------------------------------------
(* The control period up to the judgement *)

\* enter_no_output_mode, under actuation_mutex_: whether it is confirmed or throws, the mode flag
\* is cleared, the template forgotten and the frame counters start again.
NoOutput(n, confirmed) ==
    [n EXCEPT !.vehicle_safety_mode = FALSE, !.recovery_pending = ~confirmed,
              !.overtaken = FALSE]
RestartCounters == codec' = NoCounters /\ run' = NoRun
Outcome(confirmed) == confirmed => node.connected

\* retry_no_output_recovery, at the top of a period and where the arm request was applied.
Recover ==
    /\ At({"top", "recover"})
    /\ node.recovery_pending /\ ~node.requested_arm /\ ~node.applied_arm
    /\ ~node.vehicle_safety_mode /\ node.connected
    /\ \E confirmed \in BOOLEAN :
           node' = [NoOutput(node, confirmed) EXCEPT !.at = IF @ = "top" THEN "auto" ELSE "judge"]
    /\ RestartCounters
    /\ lfa' = NoFrame
    /\ UNCHANGED <<vars, latest, stream, published, adapter>>
RecoverLater == At({"recover"}) /\ Going("judge")

\* The two loads: the request, and at the next step its generation.
Load ==
    /\ At({"top", "auto", "load"})
    /\ NodeStep([node EXCEPT !.at = "apply", !.requested = node.requested_arm])

NothingToApply ==
    /\ At({"apply"})
    /\ ~node.newer \/ (node.requested /\ ~node.connected)
    /\ NodeStep([node EXCEPT !.at = "judge", !.requested = FALSE])

\* request_arm and applied_arm_; the locked transition is a step of its own.
Apply(arm, next) ==
    /\ At({"apply"}) /\ node.newer /\ node.requested = arm
    /\ RequestArm(arm)
    /\ node' = [node EXCEPT !.newer = FALSE, !.applied_arm = arm, !.requested = FALSE, !.at = next]
    /\ lfa' = NoFrame
    /\ UNCHANGED <<latest, stream, published, adapter, codec, run>>
ApplyArm == node.connected /\ Apply(TRUE, "takeover")

MutantAfterDisarm == "judge"
AfterDisarm ==
    IF ~node.connected THEN "judge"
    ELSE IF node.recovery_pending /\ ~node.vehicle_safety_mode THEN "recover" ELSE "leave"
ApplyDisarm == Apply(FALSE, AfterDisarm)

\* enter_vehicle_safety_mode returns at once when the mode is on; a takeover restarts the frame
\* counters and copies the stock SCC frame.  Either way the period ends here.
TakenOver == [NoCounters EXCEPT !.template = AllowLongitudinal]
TakeoverSkipped == At({"takeover"}) /\ ~node.connected /\ Going("judge")
AlreadyTaken == At({"takeover"}) /\ node.vehicle_safety_mode /\ Going("top")
Takeover ==
    /\ At({"takeover"})
    /\ ~node.vehicle_safety_mode /\ ~node.recovery_pending /\ node.connected
    /\ node' = [node EXCEPT !.vehicle_safety_mode = TRUE, !.at = "top"]
    /\ codec' = TakenOver
    /\ run' = NoRun
    /\ lfa' = NoFrame
    /\ UNCHANGED <<vars, latest, stream, published, adapter>>

\* The handler of a transition that threw.
Abandoned(n) == [InternalDisarm(n) EXCEPT !.applied_arm = FALSE, !.at = "recover"]
TakeoverFails ==
    /\ At({"takeover"}) /\ ~node.vehicle_safety_mode
    /\ RequestArm(FALSE)
    /\ node' = Abandoned(node)
    /\ codec' \in {codec, TakenOver}
    /\ lfa' = NoFrame
    /\ UNCHANGED <<latest, stream, published, adapter, run>>

\* enter_no_output_mode of an applied disarm.
Leave ==
    /\ At({"leave"}) /\ node.connected
    /\ node' = [NoOutput(node, TRUE) EXCEPT !.at = "judge"]
    /\ RestartCounters
    /\ lfa' = NoFrame
    /\ UNCHANGED <<vars, latest, stream, published, adapter>>
LeaveFails ==
    /\ At({"leave"})
    /\ RequestArm(FALSE)
    /\ node' = Abandoned(NoOutput(node, FALSE))
    /\ RestartCounters
    /\ lfa' = NoFrame
    /\ UNCHANGED <<latest, stream, published, adapter>>

-----------------------------------------------------------------------------
(* The judgement and what it puts on the bus *)

SampledCommand ==
    [stamped |-> latest.stamped, age |-> now - latest.received_at,
     valid |-> latest.valid, enable |-> latest.enable]

HighAngle(v) == CutoffAngle # 0 /\ Abs(v.steering_angle) >= CutoffAngle

\* A supervisor that gave up by itself is disarmed internally; that request counts as applied.
GaveUp == node.applied_arm /\ ~sup'.arm_requested
Judge(sample) ==
    /\ At({"judge"})
    /\ Update([sample EXCEPT !.command = SampledCommand])
    /\ node' = IF GaveUp
               THEN [InternalDisarm(node) EXCEPT !.newer = FALSE, !.applied_arm = FALSE,
                                                 !.at = "cleanup"]
               ELSE [node EXCEPT !.at = "send", !.high_angle = HighAngle(sample.vehicle),
                                 !.old = SampledCommand.age \notin 0..CommandTimeout]
    /\ lfa' = NoFrame
    /\ UNCHANGED <<latest, stream, published, adapter, codec, run>>

Publish == published' = [lateral |-> decision.lateral_allowed,
                         longitudinal |-> decision.longitudinal_allowed]

MutantCleanUp ==
    /\ At({"cleanup"})
    /\ \E confirmed \in BOOLEAN :
           /\ Outcome(confirmed)
           /\ node' = [NoOutput(node, confirmed) EXCEPT !.at = "top"]
    /\ RestartCounters
    /\ lfa' = NoFrame
    /\ UNCHANGED <<vars, latest, stream, published, adapter>>

\* Its enter_no_output_mode, confirmed or not; no output in this period.
CleanUp ==
    /\ At({"cleanup"})
    /\ \E confirmed \in BOOLEAN :
           /\ Outcome(confirmed)
           /\ node' = [NoOutput(node, confirmed) EXCEPT !.at = "top"]
    /\ RestartCounters
    /\ Publish
    /\ lfa' = NoFrame
    /\ UNCHANGED <<vars, latest, stream, adapter>>
CleanUpUnplugged ==
    /\ At({"cleanup"}) /\ ~node.connected
    /\ node' = [node EXCEPT !.at = "top"]
    /\ Publish
    /\ lfa' = NoFrame
    /\ UNCHANGED <<vars, latest, stream, adapter, codec, run>>

\* make_lfa: what the receiver looks at, and two things a reader of the bus cannot see.
LfaFrame(torque, enabled, request) ==
    [steers |-> torque # 0, request |-> request, enabled |-> enabled,
     old |-> node.old, lost |-> codec.lost]

RunAfter(high, frame) ==
    IF ~(high /\ frame.enabled) THEN NoRun
    ELSE IF frame.request THEN [requested |-> run.requested + 1, cut |-> 0]
    ELSE [requested |-> 0, cut |-> run.cut + 1]

\* The frames of one period are made with the next counter values and sent in one transfer.  A
\* failed transfer may have delivered some of them or all; it asks for an internal disarm, as does
\* maintain_disabled_ecus when it fails after them.
Transmit(frame, done) ==
    \E sent \in {"all", "some", "nothing"}, failed \in BOOLEAN :
        /\ sent # "all" => failed
        /\ node' = IF failed THEN InternalDisarm(done) ELSE done
        /\ codec' = [codec EXCEPT !.lost = @ \/ sent # "all"]
        /\ lfa' = IF sent = "nothing" THEN NoFrame ELSE frame
        /\ run' = IF sent = "nothing" THEN run ELSE RunAfter(node.high_angle, frame)

\* The adapter runs on the decision, latest_decision_ is stored, and in the vehicle safety mode
\* frames go out.
Driving == node.vehicle_safety_mode /\ node.connected
Send(desired, driver) ==
    LET allowed == decision.lateral_allowed
        torque == TorqueAfter(allowed, desired, driver)
        done == [node EXCEPT !.at = "top", !.high_angle = FALSE, !.old = FALSE]
    IN  /\ At({"send"})
        /\ adapter' = [torque |-> torque, frames |-> RequestFrames(allowed, node.high_angle)]
        /\ Publish
        /\ IF Driving
           THEN Transmit(LfaFrame(torque, allowed, SteeringRequest(allowed, node.high_angle)), done)
           ELSE node' = done /\ lfa' = NoFrame /\ UNCHANGED <<codec, run>>
        /\ UNCHANGED <<vars, latest, stream>>

\* raw_can_tx_callback: the gate of a well-formed raw frame.
RawGateOpen(address) ==
    /\ node.vehicle_safety_mode /\ node.connected /\ published.longitudinal
    /\ address = LateralAddress => published.lateral

Others(A) ==
    A /\ lfa' = NoFrame /\ UNCHANGED <<latest, stream, node, published, adapter, codec, run>>

Requests == ArmCall \/ ArmStore \/ DisarmCall \/ AutoArmReady \/ AutoArm
Link == LinkLost \/ Reconnect \/ ReceiveFails \/ ReceiveDisarm \/ ReceiveReset
Control ==
    \/ Recover \/ RecoverLater \/ Load \/ NothingToApply \/ ApplyArm \/ ApplyDisarm
    \/ TakeoverSkipped \/ AlreadyTaken \/ Takeover \/ TakeoverFails \/ Leave \/ LeaveFails
    \/ \E sample \in Samples : Judge(sample)
    \/ CleanUp \/ CleanUpUnplugged
    \/ \E desired \in Torques, driver \in DriverTorques : Send(desired, driver)
Topic ==
    \/ \E i \in Arriving, finite, enable \in BOOLEAN : CommandCallback(i, finite, enable)
    \/ \E enable \in BOOLEAN : UnnumberedCallback(enable)
    \/ RestartPublisher
Outside == (\E button \in DriverButtons : Others(Press(button))) \/ Others(Tick)

ActuationNext == Topic \/ Outside \/ Requests \/ Link \/ Control

ActuationSpec == ActuationInit /\ [][ActuationNext]_allVars

-----------------------------------------------------------------------------
(* Properties *)

\* "Zero disables checking; wraparound and restart after command timeout are accepted": within
\* one publisher run, as long as commands keep coming, none is replaced by an older one, across
\* losses, repetitions, reordering and the wrap of the number.
StreamInOrder ==
    [][LET before == stream.accepted
           after == stream'.accepted
       IN  after # before /\ latest.last_sequence # 0 /\ LatestFresh(latest) =>
               \/ after[1] /\ ~before[1]
               \/ after[1] = before[1] /\ after[2] > before[2]]_allVars

\* A publisher whose numbers look old is never refused for longer than the command timeout:
\* discarding a message must not keep the previous one fresh.
PublisherNotLockedOut ==
    stream.refusing /\ now - stream.since > CommandTimeout =>
        \A sequence \in 1..SequenceModulus - 1 : ~Discarded(sequence)

\* At a high steering angle the bus never sees more than steer_request_valid_frames requests in
\* a row, and never more than steer_request_cut_frames without one while lateral is permitted,
\* however permission, angle, takeovers and transmission failures interleave.  The exception is
\* an arm request stored over a pending recovery: then a period may go on after a failed transfer.
RequestIsCutAtHighAngle ==
    node.overtaken \/ (run.requested <= ValidFrames /\ run.cut <= CutFrames)

\* Torque and request reach the bus only with permission, computed from a command that was not
\* older than command_timeout when it was sampled; a frame without permission carries neither.
TorqueHasAuthority ==
    /\ lfa.steers \/ lfa.request => lfa.enabled
    /\ lfa.enabled => ~lfa.old

\* The receiver of LFA checks its counter: after a transfer that consumed a value without
\* delivering it, no frame follows until the counters start again, whatever requests, failures
\* and reconnects come between.  The exception is an arm request that passed its check before the
\* internal disarm of that transfer and is stored after it.
CountersContinue == lfa.lost => node.overtaken

\* The raw gate reads latest_decision_ and vehicle_safety_mode_.  It may lag behind the
\* supervisor, but only until the control thread's next step: once that has left the vehicle mode
\* or stored the new decision, and through every takeover, failure and reconnect, an open gate
\* means an armed, engaged supervisor with longitudinal selected.
SupervisorDrives == sup.arm_requested /\ IsEngaged(sup.state) /\ sup.longitudinal_enabled
RawGateFollowsSupervisor ==
    \A address \in ActuatorAddresses :
        RawGateOpen(address) =>
            /\ node.at \in {"leave", "cleanup", "send"} \/ SupervisorDrives
            /\ AllowLongitudinal => codec.template
=============================================================================
