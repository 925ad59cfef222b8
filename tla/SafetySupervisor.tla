--------------------------- MODULE SafetySupervisor ---------------------------
(***************************************************************************)
(* The safety supervisor as a state machine of its own: arm requests,      *)
(* updates, button edges and the clock in any order.  Every sample of the  *)
(* constant Samples may be the next one an update sees.                    *)
(***************************************************************************)
EXTENDS SupervisorLogic

CONSTANTS
    Samples,                 \* the [vehicle, panda, command] triples an update may see
    MaxTime                  \* bound on the clock

ASSUME SamplesAssumption == Samples \subseteq Sample
ASSUME MaxTimeAssumption == MaxTime \in Nat

VARIABLES
    sup,            \* the SafetySupervisor object
    unseen,         \* buttons whose event counter differs from the one last sampled
    decision,       \* what the last update returned
    now,            \* the steady clock
    braked,         \* history: brake seen since the last accepted SET or arming
    paused_since    \* history: when the current soft disable began

vars == <<sup, unseen, decision, now, braked, paused_since>>

TypeOK ==
    /\ sup \in Supervisor
    /\ sup.deadline <= MaxTime + SoftDisableTime
    /\ unseen \subseteq Buttons
    /\ decision \in Decision
    /\ now \in 0..MaxTime
    /\ braked \in BOOLEAN
    /\ paused_since \in 0..MaxTime

Init ==
    /\ sup = InitialSupervisor
    /\ unseen = {}
    /\ decision = InitialDecision
    /\ now = 0
    /\ braked = FALSE
    /\ paused_since = 0

\* request_arm(arm), called by the node for an operator, automatic or internal request.
RequestArm(arm) ==
    /\ sup' = RequestArmed(sup, arm)
    /\ braked' = (braked /\ ~(arm /\ AllowActuation /\ ~sup.arm_requested))
    /\ UNCHANGED <<unseen, decision, now, paused_since>>

\* Brake seen since the last SET accepted without brake, told from the samples alone.
BrakedAfter(v, p) ==
    LET released == "set" \in unseen /\ sup.arm_requested /\ ~v.brake_pressed /\ ~v.acc_fault
    IN  IF SamplesButtons(p) THEN (braked /\ ~released) \/ v.brake_pressed ELSE braked

Update(sample) ==
    LET r == Updated(sup, unseen, sample, now)
    IN  /\ sup' = r.to
        /\ decision' = DecisionOf(r, now)
        /\ unseen' = IF SamplesButtons(sample.panda) THEN {} ELSE unseen
        /\ braked' = BrakedAfter(sample.vehicle, sample.panda)
        /\ paused_since' = IF r.to.state # "SoftDisabling" THEN 0
                           ELSE IF sup.state = "Active" THEN now ELSE paused_since
        /\ UNCHANGED now

\* The parser counts a button edge (external to the supervisor).
Press(button) ==
    /\ unseen' = unseen \cup {button}
    /\ UNCHANGED <<sup, decision, now, braked, paused_since>>

Tick ==
    /\ now < MaxTime
    /\ now' = now + 1
    /\ UNCHANGED <<sup, unseen, decision, braked, paused_since>>

Next ==
    \/ \E arm \in BOOLEAN : RequestArm(arm)
    \/ \E sample \in Samples : Update(sample)
    \/ \E button \in Buttons : Press(button)
    \/ Tick

Spec == Init /\ [][Next]_vars

-----------------------------------------------------------------------------
(* Properties *)

\* request_arm and every early return of update keep the members in step: an unarmed
\* supervisor has nothing selected and is in none of the armed states, an engaged one has
\* a channel to drive, a latched fault is unarmed, and only a soft disable has a deadline.
ConsistentSupervisor ==
    /\ ~sup.arm_requested =>
          /\ ~sup.lateral_enabled /\ ~sup.longitudinal_enabled
          /\ sup.state \in {"Disconnected", "Passive", "Fault"}
    /\ sup.state = "Fault" => ~sup.arm_requested
    /\ IsEngaged(sup.state) => LateralRequested(sup) \/ LongitudinalRequested(sup)
    /\ (sup.deadline # 0) <=> (sup.state = "SoftDisabling")

\* Whatever sample comes next, update lets a channel transmit only for an armed supervisor
\* when every gate of the code holds in that one sample: fresh and healthy Panda in the
\* configured mode with controls_allowed, fresh valid enabled command, plausible vehicle;
\* and steering never during an EPS fault.
OutputAuthorised ==
    \A sample \in Samples :
        LET v == sample.vehicle
            p == sample.panda
            c == sample.command
            r == Updated(sup, unseen, sample, now)
        IN  r.lateral \/ r.longitudinal =>
                /\ sup.arm_requested /\ r.to.arm_requested /\ IsEngaged(r.to.state)
                /\ PandaFresh(p) /\ ~HealthFault(p) /\ p.harness_ok /\ p.controls_allowed
                /\ ConfiguredMode(p)
                /\ ResumeOnCommandReturn => p.ignition_on /\ p.session_ready
                /\ CommandFresh(c) /\ c.valid /\ c.enable
                /\ ~VehicleFault(v)
                /\ r.lateral => ~v.eps_fault
                /\ r.longitudinal => ~(v.brake_pressed /\ LongitudinalDisengageOnBrake)

\* Longitudinal stays off from the brake press until the driver presses SET without the
\* brake, or a new arming starts over: releasing the brake, LDA presses, command gaps and
\* Panda's own selection never bring it back.
BrakeLatchesLongitudinalOff ==
    braked /\ LongitudinalDisengageOnBrake =>
        ~decision.longitudinal_armed /\ ~decision.longitudinal_allowed

\* An EPS pause is never longer than kSoftDisableTime from the sample that began it, however
\* often the fault comes and goes in between: once the window is over no sample, not even a
\* late fault-clear one, leaves the supervisor engaged.
SoftDisableWindowIsFixed ==
    sup.state = "SoftDisabling" =>
        /\ sup.deadline = paused_since + SoftDisableTime
        /\ now >= paused_since + SoftDisableTime =>
              \A sample \in Samples : ~IsEngaged(Updated(sup, unseen, sample, now).to.state)

\* A latched fault is left only by an arm or disarm request, or by an update that finds no fresh
\* Panda: no button, command or recovered health sample clears it.  A request leaves the decision
\* as it was, so an update that went the same way would not pass for one.
FaultIsLatched ==
    [][sup.state = "Fault" /\ sup'.state # "Fault" =>
          \/ \E arm \in BOOLEAN : RequestArm(arm)
          \/ \E sample \in Samples : ~PandaFresh(sample.panda) /\ Update(sample)]_vars
=============================================================================
