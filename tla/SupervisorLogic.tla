--------------------------- MODULE SupervisorLogic ---------------------------
(***************************************************************************)
(* The host-side safety state machine (src/safety_supervisor.cpp).  Once   *)
(* per control period the node hands it the newest vehicle, Panda and      *)
(* command samples; it answers with a decision: which actuator channels    *)
(* may transmit, whether the vehicle safety mode may be used and whether   *)
(* the heartbeat says "engaged".                                           *)
(*                                                                         *)
(* Its two operations are the pure operators RequestArmed and Updated on a *)
(* supervisor record.  SafetySupervisor drives them with samples in any    *)
(* order; EcanNode calls them from the control thread.                     *)
(*                                                                         *)
(* Abstractions.  Time is counted in whole units.  A sample carries its    *)
(* age (the code's now - updated_at) instead of a time stamp.  The button  *)
(* and rejection counters are only ever compared with the value last seen: *)
(* `unseen' holds the buttons whose counter has moved since, and a Panda   *)
(* sample says whether its rejection counter has risen.  Fault masks are   *)
(* sets of bits.  Reason texts are left out.                               *)
(*                                                                         *)
(* A definition named Mutant... is a wrong variant of the one after it,    *)
(* used only to show that a property can fail.                             *)
(***************************************************************************)
EXTENDS Integers

CONSTANTS
    AllowActuation,          \* SafetyConfig, one constant per member
    AllowLongitudinal,
    ResumeOnCommandReturn,
    LateralButtonToggle,
    LongitudinalButtonToggle,
    LateralDisengageOnBrake,
    LongitudinalDisengageOnBrake,
    DisengageOnCancel,
    LongitudinalOverrideOnGas,
    MaxActiveSpeed,          \* 0 disables the limit
    MaxAbsSteeringAngle,     \* 0 disables the limit
    CommandTimeout,
    PandaTimeout,
    SoftDisableTime          \* kSoftDisableTime

ASSUME ConfigAssumption ==
    /\ AllowActuation \in BOOLEAN
    /\ AllowLongitudinal \in BOOLEAN
    /\ ResumeOnCommandReturn \in BOOLEAN
    /\ LateralButtonToggle \in BOOLEAN
    /\ LongitudinalButtonToggle \in BOOLEAN
    /\ LateralDisengageOnBrake \in BOOLEAN
    /\ LongitudinalDisengageOnBrake \in BOOLEAN
    /\ DisengageOnCancel \in BOOLEAN
    /\ LongitudinalOverrideOnGas \in BOOLEAN
    /\ MaxActiveSpeed \in Nat
    /\ MaxAbsSteeringAngle \in Nat

\* The constructor rejects timeouts that are not positive.
ASSUME TimeAssumption ==
    /\ CommandTimeout \in Nat \ {0}
    /\ PandaTimeout \in Nat \ {0}
    /\ SoftDisableTime \in Nat \ {0}

States == {"Disconnected", "Passive", "Armed", "Active", "Fault", "SoftDisabling"}
Buttons == {"lane_keep", "set", "cancel"}

\* Panda safety modes: HYUNDAI_CANFD (28) is the required one, NO_OUTPUT is 19.
SafetyModes == {"hyundai_canfd", "no_output", "other"}
RequiredMode == "hyundai_canfd"

\* LFA 0x12A carries steering; SCC_CONTROL 0x1A0 and FCA 0x160 are longitudinal.
LateralAddress == "0x12A"
LongitudinalAddresses == {"0x1A0", "0x160"}
ActuatorAddresses == {LateralAddress} \cup LongitudinalAddresses
Addresses == ActuatorAddresses \cup {"other"}

Vehicle == [brake_pressed : BOOLEAN, gas_pressed : BOOLEAN, eps_fault : BOOLEAN,
            acc_fault : BOOLEAN, valid : BOOLEAN, speed : Nat, steering_angle : Int]

FaultBits == {"ecan", "disabled_bus"}

PandaHealth ==
    [connected : BOOLEAN, stamped : BOOLEAN, age : Int,
     session_active : BOOLEAN, session_ready : BOOLEAN, session_blocked : BOOLEAN,
     ignition_on : BOOLEAN, lateral_selected : BOOLEAN, longitudinal_selected : BOOLEAN,
     controls_allowed : BOOLEAN, heartbeat_lost : BOOLEAN, rx_checks_invalid : BOOLEAN,
     bus_off : BOOLEAN, faults : SUBSET FaultBits, ignored_faults : SUBSET FaultBits,
     fault_status : BOOLEAN, harness_ok : BOOLEAN, safety_mode : SafetyModes,
     param_matches : BOOLEAN, tx_blocked_rose : BOOLEAN, last_rejected : Addresses]

Command == [stamped : BOOLEAN, age : Int, valid : BOOLEAN, enable : BOOLEAN]

Sample == [vehicle : Vehicle, panda : PandaHealth, command : Command]

Supervisor ==
    [state : States, arm_requested : BOOLEAN, lateral_enabled : BOOLEAN,
     longitudinal_enabled : BOOLEAN, longitudinal_latched_off : BOOLEAN, deadline : Nat]

Decision ==
    [state : States, lateral_allowed : BOOLEAN, longitudinal_allowed : BOOLEAN,
     lateral_armed : BOOLEAN, longitudinal_armed : BOOLEAN, use_vehicle_safety_mode : BOOLEAN,
     heartbeat_engaged : BOOLEAN, remaining : Nat, waiting_for_command : BOOLEAN]

InitialSupervisor ==
    [state |-> "Disconnected", arm_requested |-> FALSE, lateral_enabled |-> FALSE,
     longitudinal_enabled |-> FALSE, longitudinal_latched_off |-> FALSE, deadline |-> 0]

InitialDecision ==
    [state |-> "Disconnected", lateral_allowed |-> FALSE, longitudinal_allowed |-> FALSE,
     lateral_armed |-> FALSE, longitudinal_armed |-> FALSE, use_vehicle_safety_mode |-> FALSE,
     heartbeat_engaged |-> FALSE, remaining |-> 0, waiting_for_command |-> FALSE]

-----------------------------------------------------------------------------
(* Members shared by the operations *)

IsEngaged(state) == state \in {"Active", "SoftDisabling"}

\* Every state but SoftDisabling forgets the deadline.
Transition(s, next) ==
    [s EXCEPT !.state = next, !.deadline = IF next = "SoftDisabling" THEN @ ELSE 0]

MutantUnarmed(s, next) ==
    Transition([s EXCEPT !.arm_requested = FALSE, !.lateral_enabled = FALSE], next)

Unarmed(s, next) ==
    Transition([s EXCEPT !.arm_requested = FALSE, !.lateral_enabled = FALSE,
                         !.longitudinal_enabled = FALSE], next)

Disarmed(s) == Unarmed(s, "Passive")
Faulted(s) == Unarmed(s, "Fault")

\* request_arm(arm): its new state.  It answers FALSE exactly for ArmRefused.
ArmRefused(arm) == arm /\ ~AllowActuation

Acknowledged(s) == IF s.state = "Fault" THEN Transition(s, "Passive") ELSE s

Rearmed(s) ==
    IF s.arm_requested THEN s
    ELSE [s EXCEPT !.arm_requested = TRUE, !.lateral_enabled = FALSE,
                   !.longitudinal_enabled = FALSE, !.longitudinal_latched_off = FALSE]

RequestArmed(s, arm) ==
    CASE ArmRefused(arm) -> Transition(s, "Passive")
      [] arm /\ AllowActuation -> Rearmed(Acknowledged(s))
      [] ~arm -> Unarmed(s, IF s.state = "Disconnected" THEN "Disconnected" ELSE "Passive")

-----------------------------------------------------------------------------
(* update(): the stages in the order of the code *)

Fresh(sample, timeout) == sample.stamped /\ sample.age >= 0 /\ sample.age <= timeout
PandaFresh(p) == p.connected /\ Fresh(p, PandaTimeout)
CommandFresh(c) == Fresh(c, CommandTimeout)

MutantSessionSelection(s, v, p, set_event) ==
    [s EXCEPT !.longitudinal_latched_off = @ /\ ~set_event,
              !.lateral_enabled = p.lateral_selected,
              !.longitudinal_enabled = p.longitudinal_selected]

\* In the resume profile the firmware owns the selection; SET releases the brake latch.
SessionSelection(s, v, p, set_event) ==
    LET latched == /\ s.longitudinal_latched_off
                   /\ ~(set_event /\ ~v.brake_pressed /\ ~v.acc_fault)
    IN  [s EXCEPT !.longitudinal_latched_off = latched,
                  !.lateral_enabled = p.lateral_selected,
                  !.longitudinal_enabled = p.longitudinal_selected /\ ~latched]

LaneKeepTurnsOff(s) ==
    LateralButtonToggle /\ s.lateral_enabled /\ ~s.longitudinal_enabled
LaneKeepSelection(s) ==
    [s EXCEPT !.lateral_enabled = ~LaneKeepTurnsOff(s), !.longitudinal_enabled = FALSE]

SetTurnsOff(s) ==
    LongitudinalButtonToggle /\ s.lateral_enabled /\ s.longitudinal_enabled
SetSelection(s) ==
    [s EXCEPT !.lateral_enabled = ~SetTurnsOff(s), !.longitudinal_enabled = ~SetTurnsOff(s)]

\* Otherwise the host toggles: LDA first, then SET on what LDA left.
AfterLaneKeep(s, events) == IF "lane_keep" \in events THEN LaneKeepSelection(s) ELSE s
ToggledSelection(s, events) ==
    LET t == AfterLaneKeep(s, events)
    IN  IF "set" \in events THEN SetSelection(t) ELSE t

Selection(s, v, p, events) ==
    CASE ~s.arm_requested -> s
      [] s.arm_requested /\ ResumeOnCommandReturn -> SessionSelection(s, v, p, "set" \in events)
      [] s.arm_requested /\ ~ResumeOnCommandReturn -> ToggledSelection(s, events)

SelectedModeTurnedOff(s, p, events) ==
    /\ s.arm_requested
    /\ IF ResumeOnCommandReturn
       THEN /\ s.lateral_enabled \/ s.longitudinal_enabled
            /\ ~p.lateral_selected /\ ~p.longitudinal_selected
       ELSE \/ "set" \in events /\ SetTurnsOff(AfterLaneKeep(s, events))
            \/ "set" \notin events /\ "lane_keep" \in events /\ LaneKeepTurnsOff(s)

\* Brake and ACC fault take longitudinal away; the brake also latches it off.
BrakeDisengages(v) == v.brake_pressed /\ LongitudinalDisengageOnBrake
AccFaultDisengages(s, v) ==
    v.acc_fault /\ AllowLongitudinal /\ s.longitudinal_enabled /\ ~BrakeDisengages(v)

MutantIntervened(s, v) ==
    [s EXCEPT !.longitudinal_latched_off = @ \/ BrakeDisengages(v) \/ AccFaultDisengages(s, v)]

Intervened(s, v) ==
    [s EXCEPT !.longitudinal_latched_off =
                  @ \/ BrakeDisengages(v) \/ AccFaultDisengages(s, v),
              !.lateral_enabled = @ /\ ~(v.brake_pressed /\ LateralDisengageOnBrake),
              !.longitudinal_enabled = @ /\ ~BrakeDisengages(v) /\ ~AccFaultDisengages(s, v)]

\* Fault bits of the intentionally disabled controllers do not count.
OnlyIgnoredFaults(p) == p.faults # {} /\ p.faults \subseteq p.ignored_faults
HealthFault(p) ==
    \/ p.session_blocked \/ p.heartbeat_lost \/ p.rx_checks_invalid \/ p.bus_off
    \/ ~(p.faults \subseteq p.ignored_faults)
    \/ p.fault_status /\ ~OnlyIgnoredFaults(p)

\* A frame the firmware rejected while engaged: harmless after a button OFF, a lost
\* longitudinal channel when it can be pinned to it, a fault otherwise.
ButtonOffRejection(s, p, turned_off) ==
    /\ turned_off /\ ~s.lateral_enabled /\ ~s.longitudinal_enabled
    /\ p.last_rejected \in ActuatorAddresses
LongitudinalRejection(s, p, by_brake) ==
    (p.last_rejected \in LongitudinalAddresses \/ by_brake) /\ s.lateral_enabled

PandaChecked(s, p, turned_off, by_brake) ==
    IF HealthFault(p) THEN Faulted(s)
    ELSE IF ~(IsEngaged(s.state) /\ p.tx_blocked_rose) \/ ButtonOffRejection(s, p, turned_off)
    THEN s
    ELSE IF LongitudinalRejection(s, p, by_brake)
    THEN [s EXCEPT !.longitudinal_enabled = FALSE, !.longitudinal_latched_off = TRUE]
    ELSE Faulted(s)

\* Lines 92-179: everything an armed or unarmed supervisor does before it judges.
Prepared(s, v, p, events) ==
    LET selected == Selection(s, v, p, events)
    IN  PandaChecked(Intervened(selected, v), p, SelectedModeTurnedOff(s, p, events),
                     BrakeDisengages(v) /\ selected.longitudinal_enabled)

-----------------------------------------------------------------------------
(* Lines 181-326: the verdict.  Each alternative is one early return. *)

Verdict(s, lateral, longitudinal, mode, heartbeat, waiting) ==
    [to |-> s, lateral |-> lateral, longitudinal |-> longitudinal,
     mode |-> mode, heartbeat |-> heartbeat, waiting |-> waiting]

Quiet(s) == Verdict(s, FALSE, FALSE, FALSE, FALSE, FALSE)
Owning(s) == Verdict(Transition(s, "Armed"), FALSE, FALSE, TRUE, FALSE, FALSE)

LateralRequested(s) == s.lateral_enabled
LongitudinalRequested(s) == AllowLongitudinal /\ s.longitudinal_enabled
GasOverride(v) == LongitudinalOverrideOnGas /\ v.gas_pressed

MutantPausedLonger(s, v, now) ==
    IF v.eps_fault /\ IsEngaged(s.state)
    THEN [s EXCEPT !.state = "SoftDisabling", !.deadline = @ + now + SoftDisableTime] ELSE s
MutantPausedAgain(s, v, now) ==
    IF v.eps_fault /\ IsEngaged(s.state)
    THEN [s EXCEPT !.state = "SoftDisabling", !.deadline = now + SoftDisableTime] ELSE s

\* A temporary EPS fault pauses lateral for one fixed window counted from the first sample.
Paused(s, v, now) ==
    IF v.eps_fault /\ s.state = "Active"
    THEN [s EXCEPT !.state = "SoftDisabling", !.deadline = now + SoftDisableTime]
    ELSE s

ChannelsJudged(s, v, p, now) ==
    LET paused == Paused(s, v, now)
        longitudinal == LongitudinalRequested(s) /\ ~GasOverride(v)
    IN  IF v.eps_fault /\ ~IsEngaged(s.state) THEN Owning(s)
        ELSE IF paused.state = "SoftDisabling" /\ now >= paused.deadline
        THEN Quiet(Faulted(paused))
        ELSE IF paused.state = "SoftDisabling" /\ (v.eps_fault \/ ~p.controls_allowed)
        THEN Verdict(paused, FALSE, longitudinal /\ p.controls_allowed, TRUE, TRUE, FALSE)
        ELSE IF ~p.controls_allowed \/ ~(LateralRequested(s) \/ longitudinal) THEN Owning(s)
        ELSE Verdict(Transition(s, "Active"), LateralRequested(s), longitudinal, TRUE, TRUE, FALSE)

ConfiguredMode(p) == p.safety_mode = RequiredMode /\ p.param_matches
StandbyMode(p) ==
    ResumeOnCommandReturn /\ p.session_active /\ p.safety_mode = "no_output" /\ p.param_matches

\* No fresh command: keep the selection for its return, or fault, or give stock ADAS back.
CommandGap(s, v) ==
    IF ResumeOnCommandReturn /\ s.state # "SoftDisabling" /\ ~v.eps_fault
    THEN Verdict(Transition(s, "Passive"), FALSE, FALSE, FALSE, FALSE, TRUE)
    ELSE Quiet(IF IsEngaged(s.state) THEN Faulted(s) ELSE Disarmed(s))

CommandJudged(s, v, p, c, now) ==
    IF ~CommandFresh(c) THEN CommandGap(s, v)
    ELSE IF ~c.valid THEN Quiet(Faulted(s))
    ELSE IF ~c.enable THEN Owning(s)
    ELSE IF StandbyMode(p) THEN Quiet(Transition(s, "Armed"))
    ELSE IF ResumeOnCommandReturn /\ ~p.session_ready
    THEN IF IsEngaged(s.state) THEN Quiet(Faulted(s)) ELSE Owning(s)
    ELSE IF ~(LateralRequested(s) \/ LongitudinalRequested(s)) THEN Owning(s)
    ELSE ChannelsJudged(s, v, p, now)

PlatformFault(p) == ~p.harness_ok \/ (ResumeOnCommandReturn /\ ~p.ignition_on)
Abs(n) == IF n < 0 THEN -n ELSE n
VehicleFault(v) ==
    \/ ~v.valid
    \/ MaxActiveSpeed > 0 /\ v.speed > MaxActiveSpeed
    \/ MaxAbsSteeringAngle > 0 /\ Abs(v.steering_angle) >= MaxAbsSteeringAngle
MutantWrongMode(s, p) == ~ConfiguredMode(p) /\ IsEngaged(s.state)
WrongMode(s, p) == ~ConfiguredMode(p) /\ (~StandbyMode(p) \/ IsEngaged(s.state))

MutantResting(s) == Transition(s, "Passive")
Resting(s) == IF s.state = "Fault" THEN s ELSE Transition(s, "Passive")

Judged(s, v, p, c, events, now) ==
    IF ~s.arm_requested THEN Quiet(Resting(s))
    ELSE IF PlatformFault(p) THEN Quiet(Faulted(s))
    ELSE IF s.state = "Fault" THEN Quiet(s)
    ELSE IF VehicleFault(v) THEN Quiet(Faulted(s))
    ELSE IF DisengageOnCancel /\ "cancel" \in events THEN Quiet(Disarmed(s))
    ELSE IF WrongMode(s, p)
    THEN Quiet(IF IsEngaged(s.state) \/ ResumeOnCommandReturn THEN Faulted(s)
               ELSE Transition(s, "Armed"))
    ELSE CommandJudged(s, v, p, c, now)

\* Without a fresh Panda, or without permission to actuate, buttons stay unseen.
SamplesButtons(p) == PandaFresh(p) /\ AllowActuation

Updated(s, events, sample, now) ==
    IF ~PandaFresh(sample.panda) THEN Quiet(Unarmed(s, "Disconnected"))
    ELSE IF ~AllowActuation THEN Quiet(Unarmed(s, "Passive"))
    ELSE Judged(Prepared(s, sample.vehicle, sample.panda, events),
                sample.vehicle, sample.panda, sample.command, events, now)

\* The decision lambda, applied to a verdict.
DecisionOf(r, now) ==
    [state |-> r.to.state,
     lateral_allowed |-> r.lateral,
     longitudinal_allowed |-> r.longitudinal,
     lateral_armed |-> r.to.lateral_enabled,
     longitudinal_armed |-> LongitudinalRequested(r.to),
     use_vehicle_safety_mode |-> r.mode,
     heartbeat_engaged |-> r.heartbeat,
     remaining |-> IF r.to.state = "SoftDisabling" /\ now < r.to.deadline
                   THEN r.to.deadline - now ELSE 0,
     waiting_for_command |-> r.waiting]
=============================================================================
