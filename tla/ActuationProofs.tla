---------------------------- MODULE ActuationProofs ----------------------------
(***************************************************************************)
(* Proofs about the path from the command topic to the LFA frame, for      *)
(* every configuration of the adapter, every publisher and every set of    *)
(* samples.                                                                *)
(*                                                                         *)
(* The invariant has five parts, each kept by every step with the help of  *)
(* the others: the supervisor's own (SafetySupervisorProofs), the arm      *)
(* requests' (RequestsInStep), the gates' (GateInStep), the frames'        *)
(* (FramesInStep) and the publisher's (StreamInStep).                      *)
(***************************************************************************)
EXTENDS Actuation, SafetySupervisorProofs

\* Requests: arming is allowed where it is asked for; lost counter values and a request stored over
\* a recovery leave that recovery pending; and while frames could follow lost values, an internal
\* disarm comes before the next of them.
DisarmComes ==
    \/ node.at = "leave"
    \/ /\ ~node.requested_arm /\ node.newer
       /\ node.at \in {"top", "auto", "load"} \/ (node.at = "apply" /\ ~node.requested)
RequestsInStep ==
    /\ node.requested_arm \/ node.requested \/ node.calling \/ At({"arming"}) => AllowActuation
    /\ codec.lost \/ node.overtaken => node.recovery_pending
    /\ Driving /\ codec.lost /\ ~node.overtaken => DisarmComes

\* A decision that was published, or is about to be, is not left standing over a change of the
\* supervisor, and a sampled command that steers is not old.
GateInStep ==
    /\ published.longitudinal =>
          \/ At({"leave", "cleanup", "send"})
          \/ At({"recover", "judge"}) /\ ~Driving
          \/ SupervisorDrives
    /\ At({"cleanup", "send"}) /\ decision.longitudinal_allowed => SupervisorDrives
    /\ At({"send"}) /\ decision.lateral_allowed => ~node.old
    /\ node.vehicle_safety_mode /\ AllowLongitudinal => codec.template

\* How far the adapter has come in its cycle, as the bus has seen it.
RunOf(frames, requested, cut) ==
    /\ frames = 0 => requested = 0 /\ cut <= CutFrames
    /\ frames \in 1..ValidFrames => requested <= frames /\ cut = 0
    /\ frames > ValidFrames => requested = 0 /\ cut <= frames - ValidFrames

\* While frames may go out the adapter's count is what the bus has seen; afterwards the bounds stay.
FramesInStep ==
    /\ run \in [requested : Nat, cut : Nat]
    /\ RequestIsCutAtHighAngle
    /\ Driving /\ ~codec.lost => RunOf(adapter.frames, run.requested, run.cut)

\* What the publisher's history says of latest_command_: a refusal began no earlier than the last
\* message that was accepted, and last_sequence_ is that message's number.
StreamInStep ==
    /\ latest.received_at <= now
    /\ stream.refusing => latest.received_at <= stream.since /\ stream.since <= now
    /\ stream.accepted[1] => stream.restarted
    /\ latest.last_sequence # 0 =>
          \/ stream.restarted /\ ~stream.accepted[1]
          \/ /\ stream.accepted[1] = stream.restarted
             /\ stream.accepted[2] # 0
             /\ latest.last_sequence = SequenceOf(stream.accepted[2])

Supervised == Inductive /\ BrakeKept

\* What the threads of the node and the bus keep.
ControlInStep ==
    /\ RequestsInStep
    /\ GateInStep
    /\ FramesInStep
    /\ TorqueHasAuthority
    /\ CountersContinue

ActuationInductive == Supervised /\ ActuationTypeOK /\ ControlInStep /\ StreamInStep

-----------------------------------------------------------------------------
(* The operators of the adapter *)

\* clamp returns a value between its bounds.
LEMMA ClampFacts ==
    ASSUME NEW n \in Int, NEW low \in Int, NEW high \in Int, low <= high
    PROVE  /\ Clamp(n, low, high) \in low..high
           /\ low <= n /\ n <= high => Clamp(n, low, high) = n
  BY DEF Clamp

\* The rate limit never leaves the range that both the last and the desired torque lie in.
LEMMA SlewedFacts ==
    ASSUME NEW last \in -MaxTorque..MaxTorque, NEW desired \in -MaxTorque..MaxTorque
    PROVE  Slewed(last, desired) \in -MaxTorque..MaxTorque
  BY AdapterAssumption DEF Slewed, Clamp

\* The driver's torque narrows the range, whatever it is.
LEMMA DriverLimitedFacts ==
    ASSUME NEW desired \in -MaxTorque..MaxTorque, NEW driver \in Int
    PROVE  DriverLimited(desired, driver) \in -MaxTorque..MaxTorque
  <1> DEFINE turned == driver * DriverTorqueFactor
             high == MaxTorque + (DriverTorqueAllowance + turned) * DriverTorqueMultiplier
             low == -MaxTorque + (-DriverTorqueAllowance + turned) * DriverTorqueMultiplier
  <1>1. turned \in Int
    BY AdapterAssumption
  <1>2. high \in Int /\ low \in Int
    <2> HIDE DEF turned
    <2>1. /\ (DriverTorqueAllowance + turned) * DriverTorqueMultiplier \in Int
          /\ (-DriverTorqueAllowance + turned) * DriverTorqueMultiplier \in Int
      BY <1>1, AdapterAssumption
    <2>2. QED  BY <2>1, AdapterAssumption
  <1>3. DriverLimited(desired, driver) =
            Clamp(desired, Clamp(low, -MaxTorque, 0), Clamp(high, 0, MaxTorque))
    BY DEF DriverLimited
  <1> HIDE DEF high, low
  <1>4. MaxTorque \in Int /\ -MaxTorque \in Int /\ -MaxTorque <= 0 /\ 0 <= MaxTorque
    BY AdapterAssumption
  <1>5. Clamp(low, -MaxTorque, 0) \in -MaxTorque..0
    <2> HIDE DEF DriverLimited
    <2>1. 0 \in Int
      OBVIOUS
    <2>2. QED  BY <1>2, <1>4, <2>1, ClampFacts
  <1>6. Clamp(high, 0, MaxTorque) \in 0..MaxTorque
    <2>1. 0 \in Int
      OBVIOUS
    <2>2. QED  BY <1>2, <1>4, <2>1, ClampFacts
  <1> DEFINE bottom == Clamp(low, -MaxTorque, 0)
             top == Clamp(high, 0, MaxTorque)
  <1>7. bottom \in Int /\ top \in Int /\ bottom <= top /\ -MaxTorque <= bottom /\ top <= MaxTorque
    BY <1>4, <1>5, <1>6
  <1> HIDE DEF bottom, top
  <1>8. desired \in Int
    BY <1>4
  <1>9. Clamp(desired, bottom, top) \in bottom..top
    BY <1>7, <1>8, ClampFacts
  <1>10. Clamp(desired, bottom, top) \in -MaxTorque..MaxTorque
    BY <1>4, <1>7, <1>9
  <1>11. QED  BY <1>3, <1>10 DEF bottom, top

\* update never leaves +-max_torque, and without permission the torque is zero.
LEMMA TorqueAfterFacts ==
    ASSUME adapter.torque \in -MaxTorque..MaxTorque, NEW allowed \in BOOLEAN,
           NEW desired \in Int, NEW driver \in Int
    PROVE  /\ TorqueAfter(allowed, desired, driver) \in -MaxTorque..MaxTorque
           /\ ~allowed => TorqueAfter(allowed, desired, driver) = 0
  <1> DEFINE clamped == Clamp(desired, -MaxTorque, MaxTorque)
  <1>1. clamped \in -MaxTorque..MaxTorque
    <2>1. MaxTorque \in Int /\ -MaxTorque \in Int /\ -MaxTorque <= MaxTorque
      BY AdapterAssumption
    <2>2. QED  BY <2>1, ClampFacts
  <1> HIDE DEF clamped
  <1>2. Slewed(adapter.torque, DriverLimited(clamped, driver)) \in -MaxTorque..MaxTorque
    BY <1>1, DriverLimitedFacts, SlewedFacts
  <1>3. 0 \in -MaxTorque..MaxTorque
    BY AdapterAssumption
  <1>4. QED  BY <1>2, <1>3 DEF TorqueAfter, clamped

\* The counter of update_steering_request wraps at the cycle.
LEMMA RequestFramesFacts ==
    ASSUME adapter.frames \in 0..(Cycle - 1), NEW active \in BOOLEAN, NEW high \in BOOLEAN
    PROVE  /\ RequestFrames(active, high) \in 0..(Cycle - 1)
           /\ RequestFrames(active, high) =
                 IF active /\ high /\ adapter.frames + 1 < Cycle
                 THEN adapter.frames + 1 ELSE 0
  <1>1. Cycle \in Nat \ {0}
    BY AdapterAssumption DEF Cycle
  <1>2. \A n \in Nat \ {0} : \A f \in 0..(n - 1) : (f + 1) % n = IF f + 1 = n THEN 0 ELSE f + 1
    OBVIOUS
  <1>3. (adapter.frames + 1) % Cycle = IF adapter.frames + 1 = Cycle THEN 0 ELSE adapter.frames + 1
    BY <1>1, <1>2
  <1>4. QED  BY <1>1, <1>3 DEF RequestFrames

\* One more frame with the request fits a cycle that is not yet at its cut.
LEMMA RunOfRequested ==
    ASSUME NEW frames \in 0..(ValidFrames - 1), NEW requested \in Nat, NEW cut \in Nat,
           RunOf(frames, requested, cut)
    PROVE  RunOf(frames + 1, requested + 1, 0)
  <1>1. ValidFrames \in Nat \ {0}
    BY AdapterAssumption
  <1>2. CASE frames = 0
    BY <1>1, <1>2 DEF RunOf
  <1>3. CASE frames # 0
    BY <1>1, <1>3 DEF RunOf
  <1>4. QED  BY <1>2, <1>3

\* One more frame without the request fits the cut of the cycle, the last of which starts it again.
LEMMA RunOfCut ==
    ASSUME NEW frames \in ValidFrames..(Cycle - 1), NEW requested \in Nat, NEW cut \in Nat,
           RunOf(frames, requested, cut)
    PROVE  /\ frames + 1 < Cycle => RunOf(frames + 1, 0, cut + 1)
           /\ frames + 1 = Cycle => RunOf(0, 0, cut + 1)
  <1>1. ValidFrames \in Nat \ {0} /\ CutFrames \in Nat \ {0} /\ Cycle = ValidFrames + CutFrames
    BY AdapterAssumption DEF Cycle
  <1>2. frames \in Nat /\ cut <= frames - ValidFrames
    <2>1. CASE frames = ValidFrames
      BY <1>1, <2>1 DEF RunOf
    <2>2. CASE frames > ValidFrames
      BY <1>1, <2>2 DEF RunOf
    <2>3. QED  BY <1>1, <2>1, <2>2
  <1>3. RunOf(frames + 1, 0, cut + 1)
    BY <1>1, <1>2 DEF RunOf
  <1>4. frames + 1 = Cycle => RunOf(0, 0, cut + 1)
    BY <1>1, <1>2 DEF RunOf
  <1>5. QED  BY <1>3, <1>4

\* Whatever was seen of the cycle so far, one more frame of an enabled or disabled period is seen
\* as the adapter counts it.
LEMMA RunAfterFacts ==
    ASSUME NEW high \in BOOLEAN, NEW active \in BOOLEAN, NEW frame,
           adapter.frames \in 0..(Cycle - 1), run.requested \in Nat, run.cut \in Nat,
           RunOf(adapter.frames, run.requested, run.cut),
           frame.enabled <=> active, frame.request <=> SteeringRequest(active, high)
    PROVE  /\ RunAfter(high, frame) \in [requested : Nat, cut : Nat]
           /\ RunOf(RequestFrames(active, high), RunAfter(high, frame).requested,
                    RunAfter(high, frame).cut)
  <1>1. ValidFrames \in Nat \ {0} /\ CutFrames \in Nat \ {0} /\ Cycle = ValidFrames + CutFrames
    BY AdapterAssumption DEF Cycle
  <1>2. CASE ~(high /\ active)
    <2>1. RunAfter(high, frame) = [requested |-> 0, cut |-> 0] /\ RequestFrames(active, high) = 0
      BY <1>2 DEF RunAfter, RequestFrames, NoRun
    <2>2. RunOf(0, 0, 0)
      BY <1>1 DEF RunOf
    <2>3. QED  BY <2>1, <2>2
  <1>3. CASE high /\ active /\ adapter.frames < ValidFrames
    <2>1. RunAfter(high, frame) = [requested |-> run.requested + 1, cut |-> 0]
      BY <1>3 DEF RunAfter, SteeringRequest
    <2>2. adapter.frames \in 0..(ValidFrames - 1) /\ adapter.frames + 1 < Cycle
      BY <1>1, <1>3
    <2>3. RequestFrames(active, high) = adapter.frames + 1
      BY <1>3, <2>2, RequestFramesFacts
    <2>4. RunOf(adapter.frames + 1, run.requested + 1, 0)
      BY <2>2, RunOfRequested
    <2>5. QED  BY <2>1, <2>3, <2>4
  <1>4. CASE high /\ active /\ ~(adapter.frames < ValidFrames)
    <2>1. RunAfter(high, frame) = [requested |-> 0, cut |-> run.cut + 1]
      BY <1>1, <1>4 DEF RunAfter, SteeringRequest
    <2>2. adapter.frames \in ValidFrames..(Cycle - 1)
      BY <1>1, <1>4
    <2>3. /\ adapter.frames + 1 < Cycle => RunOf(adapter.frames + 1, 0, run.cut + 1)
          /\ adapter.frames + 1 = Cycle => RunOf(0, 0, run.cut + 1)
      BY <2>2, RunOfCut
    <2>4. adapter.frames + 1 < Cycle \/ adapter.frames + 1 = Cycle
      BY <1>1, <2>2
    <2>5. RequestFrames(active, high) = IF adapter.frames + 1 < Cycle THEN adapter.frames + 1 ELSE 0
      BY <1>4, RequestFramesFacts
    <2>6. CASE adapter.frames + 1 < Cycle
      BY <2>1, <2>3, <2>5, <2>6
    <2>7. CASE adapter.frames + 1 = Cycle
      <3>1. RequestFrames(active, high) = 0
        BY <1>1, <2>2, <2>5, <2>7
      <3>2. QED  BY <2>1, <2>3, <2>7, <3>1
    <2>8. QED  BY <2>4, <2>6, <2>7
  <1>5. QED  BY <1>2, <1>3, <1>4

\* A run that fits the cycle is within the bounds.
LEMMA RunOfIsBounded ==
    ASSUME NEW frames \in 0..(Cycle - 1), NEW requested \in Nat, NEW cut \in Nat,
           RunOf(frames, requested, cut)
    PROVE  requested <= ValidFrames /\ cut <= CutFrames
  BY AdapterAssumption DEF RunOf, Cycle

-----------------------------------------------------------------------------
(* The initial state *)

\* Nothing is armed, heard or sent.
LEMMA ActuationStarts == ActuationInit => ActuationInductive
  <1> SUFFICES ASSUME ActuationInit
               PROVE  ActuationInductive
    OBVIOUS
  <1>1. Inductive
    BY InductiveInit DEF ActuationInit
  <1>2. BrakeKept
    BY DEF ActuationInit, Init, BrakeKept
  <1>3. /\ 0 \in 0..MaxTime /\ 0 \in 0..(SequenceModulus - 1) /\ 0 \in 0..(Cycle - 1)
        /\ 0 \in -MaxTorque..MaxTorque /\ FirstMessage - 1 \in Nat
    BY AdapterAssumption, MaxTimeAssumption DEF Cycle
  <1>4. ActuationTypeOK
    BY <1>3 DEF ActuationInit, ActuationTypeOK, NoCounters, InitialNode, NodeState
  <1>5. RequestsInStep /\ GateInStep
    BY DEF ActuationInit, Init, RequestsInStep, GateInStep, InitialNode, NoCounters, At, Driving,
           InitialSupervisor, InitialDecision
  <1>6. FramesInStep
    BY AdapterAssumption
    DEF ActuationInit, FramesInStep, RequestIsCutAtHighAngle, NoRun, NoCounters, Driving,
        InitialNode
  <1>7. TorqueHasAuthority /\ CountersContinue
    BY DEF ActuationInit, TorqueHasAuthority, CountersContinue, NoFrame
  <1>8. StreamInStep
    BY DEF ActuationInit, Init, StreamInStep
  <1>9. QED
    BY <1>1, <1>2, <1>4, <1>5, <1>6, <1>7, <1>8 DEF ActuationInductive, Supervised, ControlInStep

-----------------------------------------------------------------------------
(* The supervisor inside the node *)


\* So is a judgement, on a sample that holds the latest command.
LEMMA JudgedSample ==
    ASSUME ActuationTypeOK, Inductive, NEW sample \in Samples
    PROVE  /\ [sample EXCEPT !.command = SampledCommand] \in Sample
           /\ [sample EXCEPT !.command = SampledCommand].command = SampledCommand
           /\ [sample EXCEPT !.command = SampledCommand].vehicle = sample.vehicle
  <1>1. sample \in Sample
    BY SamplesAssumption
  <1>2. now - latest.received_at \in Int
    BY MaxTimeAssumption DEF Inductive, TypeOK, ActuationTypeOK
  <1>3. SampledCommand \in Command
    BY <1>2 DEF ActuationTypeOK, SampledCommand, Command
  <1>4. QED  BY <1>1, <1>3 DEF Sample


\* What a judgement decides: permission only for an armed, engaged supervisor and a fresh command.
LEMMA JudgeFacts ==
    ASSUME ActuationTypeOK, Supervised, NEW sample \in Samples, Judge(sample)
    PROVE  /\ Supervised'
           /\ sup'.arm_requested => sup.arm_requested
           /\ decision'.lateral_allowed \/ decision'.longitudinal_allowed =>
                 sup'.arm_requested /\ IsEngaged(sup'.state) /\ CommandFresh(SampledCommand)
           /\ decision'.longitudinal_allowed => sup'.longitudinal_enabled
           /\ decision' \in Decision
  <1> DEFINE judged == [sample EXCEPT !.command = SampledCommand]
  <1>1. judged \in Sample /\ judged.command = SampledCommand
    BY JudgedSample DEF Supervised
  <1>2. Update(judged)
    BY DEF Judge
  <1> HIDE DEF judged
  <1>3. SupervisorStep
    BY <1>1, <1>2 DEF SupervisorStep
  <1>4. Supervised'
    BY <1>3, InductiveStep, BrakeKeptStep DEF Supervised
  <1> DEFINE r == Updated(sup, unseen, judged, now)
  <1>5. sup \in Supervisor /\ Coherent(sup) /\ now \in Nat
    BY MaxTimeAssumption DEF Supervised, Inductive, TypeOK
  <1>6. /\ r.to.arm_requested => sup.arm_requested
        /\ r.lateral \/ r.longitudinal => r.to.arm_requested /\ IsEngaged(r.to.state)
        /\ r.longitudinal => r.to.longitudinal_enabled
        /\ PassedCommandGates(judged.vehicle, judged.panda, judged.command, r)
    BY <1>1, <1>5, UpdatedFacts
  <1>7. sup' = r.to /\ decision' = DecisionOf(r, now)
    BY <1>2 DEF Update
  <1> HIDE DEF r
  <1>8. decision'.lateral_allowed = r.lateral /\ decision'.longitudinal_allowed = r.longitudinal
    BY <1>7 DEF DecisionOf
  <1>9. r.lateral \/ r.longitudinal => CommandFresh(SampledCommand)
    BY <1>1, <1>6 DEF PassedCommandGates
  <1>10. decision' \in Decision
    BY <1>4 DEF Supervised, Inductive, TypeOK
  <1>11. QED  BY <1>4, <1>6, <1>7, <1>8, <1>9, <1>10


\* Every step of the node keeps what is proved of the supervisor.
LEMMA SupervisedStep ==
    Supervised /\ ActuationTypeOK /\ [ActuationNext]_allVars => Supervised'
  <1> SUFFICES ASSUME Supervised, ActuationTypeOK, [ActuationNext]_allVars
               PROVE  Supervised'
    OBVIOUS
  <1>1. [SupervisorStep]_vars => Supervised'
    BY InductiveStep, BrakeKeptStep DEF Supervised
  <1>2. CASE UNCHANGED vars
    BY <1>1, <1>2
  <1>3. CASE ApplyArm \/ ApplyDisarm \/ TakeoverFails \/ LeaveFails
    BY <1>1, <1>3 DEF ApplyArm, ApplyDisarm, Apply, TakeoverFails, LeaveFails, SupervisorStep
  <1>4. CASE \E sample \in Samples : Judge(sample)
    BY <1>4, JudgeFacts
  <1>5. CASE Outside
    BY <1>1, <1>5, AdapterAssumption DEF Outside, Others, SupervisorStep
  <1>6. CASE Topic
    BY <1>2, <1>6 DEF Topic, CommandCallback, UnnumberedCallback, RestartPublisher
  <1>7. CASE Requests \/ Link
    BY <1>2, <1>7
    DEF Requests, ArmCall, ArmStore, DisarmCall, AutoArmReady, AutoArm, Link, LinkLost, Reconnect,
        ReceiveFails, ReceiveDisarm, ReceiveReset, NodeStep, Going
  <1>8. CASE \/ RecoverLater \/ Load \/ NothingToApply \/ TakeoverSkipped \/ AlreadyTaken
             \/ Recover \/ Takeover \/ Leave \/ CleanUp \/ CleanUpUnplugged
    BY <1>2, <1>8
    DEF RecoverLater, Load, NothingToApply, TakeoverSkipped, AlreadyTaken, NodeStep, Going,
        Recover, Takeover, Leave, CleanUp, CleanUpUnplugged
  <1>9. CASE \E desired \in Torques, driver \in DriverTorques : Send(desired, driver)
    BY <1>2, <1>9 DEF Send
  <1>10. CASE UNCHANGED allVars
    BY <1>2, <1>10 DEF allVars
  <1>11. QED
    BY <1>3, <1>4, <1>5, <1>6, <1>7, <1>8, <1>9, <1>10 DEF ActuationNext, Control

-----------------------------------------------------------------------------
(* The threads of the node and the bus *)

\* The types of what they own.
ControlTypeOK ==
    /\ node \in NodeState
    /\ published \in [lateral : BOOLEAN, longitudinal : BOOLEAN]
    /\ adapter \in [torque : -MaxTorque..MaxTorque, frames : 0..(Cycle - 1)]
    /\ codec \in [lost : BOOLEAN, template : BOOLEAN]

Controlled == ControlTypeOK /\ ControlInStep

\* A step that puts nothing on the bus needs no authority for it.
LEMMA SilentBus ==
    ASSUME lfa' = NoFrame
    PROVE  (TorqueHasAuthority /\ CountersContinue)'
  BY DEF TorqueHasAuthority, CountersContinue, NoFrame

\* Arming again is nothing to the supervisor.
LEMMA ArmFacts ==
    ASSUME NEW s \in Supervisor, Coherent(s), AllowActuation
    PROVE  /\ RequestArmed(s, TRUE).arm_requested
           /\ s.arm_requested => RequestArmed(s, TRUE) = s
  <1>1. RequestArmed(s, TRUE) = Rearmed(Acknowledged(s))
    BY DEF RequestArmed, ArmRefused
  <1>2. CASE s.arm_requested
    BY <1>1, <1>2 DEF Coherent, Acknowledged, Rearmed
  <1>3. CASE ~s.arm_requested
    <2>1. Acknowledged(s) \in Supervisor /\ ~Acknowledged(s).arm_requested
      BY <1>3, TransitionFacts DEF Acknowledged, States
    <2>2. QED  BY <1>1, <1>3, <2>1 DEF Rearmed, Supervisor
  <1>4. QED  BY <1>2, <1>3

\* A step that puts nothing on the bus, does not start to drive and forgets no overtaken recovery.
LEMMA QuietStepKeepsControl ==
    ASSUME Controlled, node' \in NodeState, RequestsInStep', GateInStep', lfa' = NoFrame,
           published' \in [lateral : BOOLEAN, longitudinal : BOOLEAN],
           UNCHANGED <<adapter, codec, run>>,
           Driving' => Driving, node.overtaken => node'.overtaken
    PROVE  Controlled'
  <1>1. (TorqueHasAuthority /\ CountersContinue)'
    BY SilentBus
  <1>2. ControlTypeOK'
    BY DEF Controlled, ControlTypeOK
  <1>3. FramesInStep'
    BY DEF Controlled, ControlInStep, FramesInStep, RequestIsCutAtHighAngle
  <1>4. QED  BY <1>1, <1>2, <1>3 DEF Controlled, ControlInStep

\* So does one that touches the node's atomics only.
LEMMA NodeStepKeepsControl ==
    ASSUME Controlled, NEW after \in NodeState, NodeStep(after), RequestsInStep', GateInStep',
           after.vehicle_safety_mode /\ after.connected => Driving,
           node.overtaken => after.overtaken
    PROVE  Controlled'
  <1>1. /\ node' = after /\ lfa' = NoFrame
        /\ UNCHANGED <<sup, decision, published, adapter, codec, run>>
    BY DEF NodeStep, vars
  <1>2. Driving' => Driving
    BY <1>1 DEF Driving
  <1>3. published' \in [lateral : BOOLEAN, longitudinal : BOOLEAN]
    BY <1>1 DEF Controlled, ControlTypeOK
  <1>4. QED  BY <1>1, <1>2, <1>3, QuietStepKeepsControl

\* An arm request: its check and its stores, by the service or by the control thread itself.
LEMMA RequestsKeepControl ==
    ASSUME Controlled, Requests
    PROVE  Controlled'
  <1>1. /\ node \in NodeState /\ codec.lost \in BOOLEAN /\ codec.template \in BOOLEAN
        /\ RequestsInStep /\ GateInStep
    BY DEF Controlled, ControlTypeOK, ControlInStep
  <1>2. CASE ArmCall
    <2> DEFINE after == [node EXCEPT !.calling = TRUE]
    <2>1. NodeStep(after) /\ AllowActuation /\ after \in NodeState
      BY <1>1, <1>2 DEF ArmCall, NodeState
    <2>2. RequestsInStep' /\ GateInStep'
      BY <1>1, <2>1
      DEF NodeStep, vars, RequestsInStep, GateInStep, DisarmComes, Driving, At,
          SupervisorDrives, NodeState
    <2>3. QED  BY <1>1, <2>1, <2>2, NodeStepKeepsControl DEF Driving, NodeState
  <1>3. CASE ArmStore
    <2> DEFINE after == [ArmStored(node) EXCEPT !.calling = FALSE]
    <2>1. NodeStep(after) /\ AllowActuation /\ after \in NodeState
      BY <1>1, <1>3, ZenonT(40) DEF ArmStore, ArmStored, NodeState, RequestsInStep
    <2>2. RequestsInStep' /\ GateInStep'
      BY <1>1, <2>1
      DEF NodeStep, vars, RequestsInStep, GateInStep, DisarmComes, Driving, At,
          SupervisorDrives, NodeState, ArmStored
    <2>3. QED  BY <1>1, <2>1, <2>2, NodeStepKeepsControl, ZenonT(40) DEF Driving, NodeState, ArmStored
  <1>4. CASE DisarmCall
    <2> DEFINE after == [node EXCEPT !.requested_arm = FALSE, !.newer = TRUE]
    <2>1. NodeStep(after) /\ after \in NodeState
      BY <1>1, <1>4 DEF DisarmCall, NodeState
    <2>2. RequestsInStep' /\ GateInStep'
      BY <1>1, <2>1
      DEF NodeStep, vars, RequestsInStep, GateInStep, DisarmComes, Driving, At,
          SupervisorDrives, NodeState
    <2>3. QED  BY <1>1, <2>1, <2>2, NodeStepKeepsControl DEF Driving, NodeState
  <1>5. CASE AutoArmReady
    <2> DEFINE after == [node EXCEPT !.at = "arming"]
    <2>1. /\ NodeStep(after) /\ after \in NodeState /\ AllowActuation
          /\ At({"top", "auto"}) /\ ~node.recovery_pending
      BY <1>1, <1>5 DEF AutoArmReady, Going, NodeState
    <2>2. RequestsInStep' /\ GateInStep'
      BY <1>1, <2>1
      DEF NodeStep, vars, RequestsInStep, GateInStep, DisarmComes, Driving, At,
          SupervisorDrives, NodeState
    <2>3. QED  BY <1>1, <2>1, <2>2, NodeStepKeepsControl DEF Driving, NodeState
  <1>6. CASE AutoArm
    <2> DEFINE after == [ArmStored(node) EXCEPT !.at = "load"]
    <2>1. /\ NodeStep(after) /\ AllowActuation /\ after \in NodeState /\ At({"arming"})
          /\ after.vehicle_safety_mode = node.vehicle_safety_mode
          /\ after.connected = node.connected /\ (node.overtaken => after.overtaken)
      BY <1>1, <1>6 DEF AutoArm, ArmStored, NodeState, RequestsInStep
    <2>2. RequestsInStep' /\ GateInStep'
      BY <1>1, <2>1
      DEF NodeStep, vars, RequestsInStep, GateInStep, DisarmComes, Driving, At,
          SupervisorDrives, NodeState, ArmStored
    <2> HIDE DEF after
    <2>3. QED  BY <1>1, <2>1, <2>2, NodeStepKeepsControl DEF Driving
  <1>7. QED  BY <1>2, <1>3, <1>4, <1>5, <1>6 DEF Requests

\* The link and the receive thread stop the driving and ask for a disarm.
LEMMA LinkKeepsControl ==
    ASSUME Controlled, Link
    PROVE  Controlled'
  <1>1. /\ node \in NodeState /\ codec.lost \in BOOLEAN /\ codec.template \in BOOLEAN
        /\ RequestsInStep /\ GateInStep
    BY DEF Controlled, ControlTypeOK, ControlInStep
  <1>2. CASE LinkLost
    <2> DEFINE after == [node EXCEPT !.connected = FALSE]
    <2>1. NodeStep(after) /\ after \in NodeState
      BY <1>1, <1>2 DEF LinkLost, NodeState
    <2>2. RequestsInStep' /\ GateInStep'
      BY <1>1, <2>1
      DEF NodeStep, vars, RequestsInStep, GateInStep, DisarmComes, Driving, At,
          SupervisorDrives, NodeState
    <2>3. QED  BY <1>1, <2>1, <2>2, NodeStepKeepsControl DEF Driving, NodeState
  <1>3. ASSUME NEW step \in {"poll", "restore"},
               NodeStep([node EXCEPT !.connected = TRUE, !.vehicle_safety_mode = FALSE,
                                     !.receive = step]),
               ~node.connected
        PROVE  Controlled'
    <2> DEFINE after == [node EXCEPT !.connected = TRUE, !.vehicle_safety_mode = FALSE,
                                     !.receive = step]
    <2>1. NodeStep(after) /\ after \in NodeState
      BY <1>1, <1>3 DEF NodeState
    <2>2. RequestsInStep' /\ GateInStep'
      BY <1>1, <1>3
      DEF NodeStep, vars, RequestsInStep, GateInStep, DisarmComes, Driving, At,
          SupervisorDrives, NodeState
    <2>3. QED  BY <1>1, <2>1, <2>2, NodeStepKeepsControl DEF Driving, NodeState
  <1>4. CASE ReceiveFails
    <2> DEFINE after == [node EXCEPT !.connected = FALSE, !.vehicle_safety_mode = FALSE,
                                     !.receive = "failed"]
    <2>1. NodeStep(after) /\ after \in NodeState
      BY <1>1, <1>4 DEF ReceiveFails, NodeState
    <2>2. RequestsInStep' /\ GateInStep'
      BY <1>1, <2>1
      DEF NodeStep, vars, RequestsInStep, GateInStep, DisarmComes, Driving, At,
          SupervisorDrives, NodeState
    <2>3. QED  BY <1>1, <2>1, <2>2, NodeStepKeepsControl DEF Driving, NodeState
  <1>5. CASE ReceiveDisarm
    <2> DEFINE after == [InternalDisarm(node) EXCEPT
                            !.receive = IF @ = "failed" THEN "reset" ELSE "poll"]
    <2>1. /\ NodeStep(after) /\ after \in NodeState
          /\ after.vehicle_safety_mode = node.vehicle_safety_mode
          /\ after.connected = node.connected /\ after.overtaken = node.overtaken
      BY <1>1, <1>5, ZenonT(40) DEF ReceiveDisarm, InternalDisarm, NodeState
    <2>2. RequestsInStep' /\ GateInStep'
      BY <1>1, <2>1
      DEF NodeStep, vars, RequestsInStep, GateInStep, DisarmComes, Driving, At,
          SupervisorDrives, NodeState, InternalDisarm
    <2> HIDE DEF after
    <2>3. QED  BY <1>1, <2>1, <2>2, NodeStepKeepsControl DEF Driving
  <1>6. CASE ReceiveReset
    <2> DEFINE after == [node EXCEPT !.applied_arm = FALSE, !.receive = "poll"]
    <2>1. NodeStep(after) /\ after \in NodeState
      BY <1>1, <1>6 DEF ReceiveReset, NodeState
    <2>2. RequestsInStep' /\ GateInStep'
      BY <1>1, <2>1
      DEF NodeStep, vars, RequestsInStep, GateInStep, DisarmComes, Driving, At,
          SupervisorDrives, NodeState
    <2>3. QED  BY <1>1, <2>1, <2>2, NodeStepKeepsControl DEF Driving, NodeState
  <1>7. QED  BY <1>2, <1>3, <1>4, <1>5, <1>6 DEF Link, Reconnect

\* The steps of the control thread between its loads and its judgement that change nothing else.
Walks == RecoverLater \/ Load \/ NothingToApply \/ TakeoverSkipped \/ AlreadyTaken
LEMMA WalksKeepControl ==
    ASSUME Controlled, Walks
    PROVE  Controlled'
  <1>1. /\ node \in NodeState /\ codec.lost \in BOOLEAN /\ codec.template \in BOOLEAN
        /\ RequestsInStep /\ GateInStep
    BY DEF Controlled, ControlTypeOK, ControlInStep
  <1>2. CASE RecoverLater
    <2> DEFINE after == [node EXCEPT !.at = "judge"]
    <2>1. NodeStep(after) /\ after \in NodeState /\ node.at = "recover"
      BY <1>1, <1>2 DEF RecoverLater, Going, At, NodeState
    <2>2. RequestsInStep' /\ GateInStep'
      BY <1>1, <2>1
      DEF NodeStep, vars, RequestsInStep, GateInStep, DisarmComes, Driving, At,
          SupervisorDrives, NodeState
    <2>3. QED  BY <1>1, <2>1, <2>2, NodeStepKeepsControl DEF Driving, NodeState
  <1>3. CASE Load
    <2> DEFINE after == [node EXCEPT !.at = "apply", !.requested = node.requested_arm]
    <2>1. NodeStep(after) /\ after \in NodeState /\ node.at \in {"top", "auto", "load"}
      BY <1>1, <1>3 DEF Load, At, NodeState
    <2>2. RequestsInStep' /\ GateInStep'
      BY <1>1, <2>1
      DEF NodeStep, vars, RequestsInStep, GateInStep, DisarmComes, Driving, At,
          SupervisorDrives, NodeState
    <2>3. QED  BY <1>1, <2>1, <2>2, NodeStepKeepsControl DEF Driving, NodeState
  <1>4. CASE NothingToApply
    <2> DEFINE after == [node EXCEPT !.at = "judge", !.requested = FALSE]
    <2>1. /\ NodeStep(after) /\ after \in NodeState /\ node.at = "apply"
          /\ ~node.newer \/ (node.requested /\ ~node.connected)
      BY <1>1, <1>4 DEF NothingToApply, At, NodeState
    <2>2. RequestsInStep' /\ GateInStep'
      BY <1>1, <2>1
      DEF NodeStep, vars, RequestsInStep, GateInStep, DisarmComes, Driving, At,
          SupervisorDrives, NodeState
    <2>3. QED  BY <1>1, <2>1, <2>2, NodeStepKeepsControl DEF Driving, NodeState
  <1>5. CASE TakeoverSkipped
    <2> DEFINE after == [node EXCEPT !.at = "judge"]
    <2>1. NodeStep(after) /\ after \in NodeState /\ node.at = "takeover" /\ ~node.connected
      BY <1>1, <1>5 DEF TakeoverSkipped, Going, At, NodeState
    <2>2. RequestsInStep' /\ GateInStep'
      BY <1>1, <2>1
      DEF NodeStep, vars, RequestsInStep, GateInStep, DisarmComes, Driving, At,
          SupervisorDrives, NodeState
    <2>3. QED  BY <1>1, <2>1, <2>2, NodeStepKeepsControl DEF Driving, NodeState
  <1>6. CASE AlreadyTaken
    <2> DEFINE after == [node EXCEPT !.at = "top"]
    <2>1. NodeStep(after) /\ after \in NodeState /\ node.at = "takeover"
      BY <1>1, <1>6 DEF AlreadyTaken, Going, At, NodeState
    <2>2. RequestsInStep' /\ GateInStep'
      BY <1>1, <2>1
      DEF NodeStep, vars, RequestsInStep, GateInStep, DisarmComes, Driving, At,
          SupervisorDrives, NodeState
    <2>3. QED  BY <1>1, <2>1, <2>2, NodeStepKeepsControl DEF Driving, NodeState
  <1>7. QED  BY <1>2, <1>3, <1>4, <1>5, <1>6 DEF Walks

\* An applied request: arming again changes nothing of a supervisor that drives, and a disarm goes
\* on to leave the vehicle mode.
LEMMA ApplyKeepsControl ==
    ASSUME Supervised, Controlled, ApplyArm \/ ApplyDisarm
    PROVE  Controlled'
  <1>1. /\ node \in NodeState /\ codec.lost \in BOOLEAN /\ codec.template \in BOOLEAN
        /\ published \in [lateral : BOOLEAN, longitudinal : BOOLEAN]
        /\ RequestsInStep /\ GateInStep
    BY DEF Controlled, ControlTypeOK, ControlInStep
  <1>2. CASE ApplyArm
    <2>1. /\ node.requested /\ node.at = "apply" /\ sup' = RequestArmed(sup, TRUE)
          /\ node' = [node EXCEPT !.newer = FALSE, !.applied_arm = TRUE, !.requested = FALSE,
                                  !.at = "takeover"]
          /\ lfa' = NoFrame /\ UNCHANGED <<decision, published, adapter, codec, run>>
      BY <1>2 DEF ApplyArm, Apply, RequestArm, At
    <2>2. sup.arm_requested => sup' = sup
      BY <1>1, <2>1, ArmFacts DEF RequestsInStep, Supervised, Inductive, TypeOK
    <2>3. node' \in NodeState /\ (Driving' => Driving) /\ (node.overtaken => node'.overtaken)
      BY <1>1, <2>1 DEF NodeState, Driving
    <2>4. RequestsInStep' /\ GateInStep'
      BY <1>1, <2>1, <2>2
      DEF RequestsInStep, GateInStep, DisarmComes, Driving, At, SupervisorDrives, NodeState
    <2>5. QED  BY <1>1, <2>1, <2>3, <2>4, QuietStepKeepsControl
  <1>3. CASE ApplyDisarm
    <2>1. /\ node.at = "apply" /\ ~node.requested /\ node.newer
          /\ node' = [node EXCEPT !.newer = FALSE, !.applied_arm = FALSE, !.requested = FALSE,
                                  !.at = AfterDisarm]
          /\ lfa' = NoFrame /\ UNCHANGED <<decision, published, adapter, codec, run>>
      BY <1>1, <1>3 DEF ApplyDisarm, Apply, RequestArm, At, NodeState
    <2>2. node' \in NodeState /\ (Driving' => Driving) /\ (node.overtaken => node'.overtaken)
      <3>1. \A step \in {"judge", "recover", "leave"} :
                [node EXCEPT !.newer = FALSE, !.applied_arm = FALSE, !.requested = FALSE,
                             !.at = step] \in NodeState
        BY <1>1 DEF NodeState
      <3>2. AfterDisarm \in {"judge", "recover", "leave"}
        BY DEF AfterDisarm
      <3>3. node' \in NodeState
        BY <2>1, <3>1, <3>2
      <3>4. QED  BY <1>1, <2>1, <3>3 DEF NodeState, Driving
    <2>3. RequestsInStep' /\ GateInStep'
      BY <1>1, <2>1
      DEF RequestsInStep, GateInStep, DisarmComes, Driving, At, SupervisorDrives, NodeState,
          AfterDisarm
    <2>4. QED  BY <1>1, <2>1, <2>2, <2>3, QuietStepKeepsControl
  <1>4. QED  BY <1>2, <1>3

\* Where the frame counters start again, so does what the bus has seen of the cycle.
LEMMA RestartKeepsControl ==
    ASSUME Controlled, node' \in NodeState, RequestsInStep', GateInStep', lfa' = NoFrame,
           published' \in [lateral : BOOLEAN, longitudinal : BOOLEAN],
           codec' \in [lost : BOOLEAN, template : BOOLEAN],
           adapter' = adapter, run' = NoRun
    PROVE  Controlled'
  <1>1. (TorqueHasAuthority /\ CountersContinue)'
    BY SilentBus
  <1>2. ControlTypeOK'
    BY DEF Controlled, ControlTypeOK
  <1>3. /\ adapter.frames \in Int /\ ValidFrames \in Nat \ {0} /\ CutFrames \in Nat
        /\ 0 <= ValidFrames /\ 0 <= CutFrames
    BY AdapterAssumption DEF Controlled, ControlTypeOK, Cycle
  <1>4. run' \in [requested : Nat, cut : Nat] /\ run'.requested = 0 /\ run'.cut = 0
    BY DEF NoRun
  <1>5. RunOf(adapter'.frames, run'.requested, run'.cut)
    BY <1>3, <1>4 DEF RunOf
  <1>6. FramesInStep'
    BY <1>3, <1>4, <1>5 DEF FramesInStep, RequestIsCutAtHighAngle
  <1>7. QED  BY <1>1, <1>2, <1>6 DEF Controlled, ControlInStep

\* A takeover, and the ways out of the vehicle mode.
LEMMA TransitionsKeepControl ==
    ASSUME Controlled, Recover \/ Takeover \/ TakeoverFails \/ Leave \/ LeaveFails
    PROVE  Controlled'
  <1>1. /\ node \in NodeState /\ codec \in [lost : BOOLEAN, template : BOOLEAN]
        /\ published \in [lateral : BOOLEAN, longitudinal : BOOLEAN]
        /\ RequestsInStep /\ GateInStep
    BY DEF Controlled, ControlTypeOK, ControlInStep
  <1>2. NoCounters \in [lost : BOOLEAN, template : BOOLEAN] /\ ~NoCounters.lost
    BY DEF NoCounters
  <1>3. /\ TakenOver \in [lost : BOOLEAN, template : BOOLEAN]
        /\ ~TakenOver.lost /\ TakenOver.template = AllowLongitudinal
    BY ConfigAssumption DEF TakenOver, NoCounters
  <1>4. ASSUME NEW confirmed \in BOOLEAN, At({"top", "recover"}), ~node.vehicle_safety_mode,
               node' = [NoOutput(node, confirmed) EXCEPT
                           !.at = IF @ = "top" THEN "auto" ELSE "judge"],
               RestartCounters, lfa' = NoFrame, UNCHANGED <<vars, published, adapter>>
        PROVE  Controlled'
    <2>1. node' \in NodeState
      <3>1. NoOutput(node, confirmed) \in NodeState
        BY <1>1 DEF NoOutput, NodeState
      <3>2. (IF NoOutput(node, confirmed).at = "top" THEN "auto" ELSE "judge") \in {"auto", "judge"}
        OBVIOUS
      <3>3. QED  BY <1>4, <3>1, <3>2 DEF NodeState
    <2>2. RequestsInStep' /\ GateInStep'
      BY <1>1, <1>2, <1>4
      DEF RequestsInStep, GateInStep, Driving, At, SupervisorDrives, NodeState, NoOutput,
          RestartCounters, vars
    <2>3. QED  BY <1>1, <1>2, <1>4, <2>1, <2>2, RestartKeepsControl DEF RestartCounters
  <1>5. CASE Recover
    BY <1>4, <1>5 DEF Recover
  <1>6. CASE Takeover
    <2>1. /\ node' = [node EXCEPT !.vehicle_safety_mode = TRUE, !.at = "top"]
          /\ ~node.recovery_pending /\ node.at = "takeover"
          /\ codec' = TakenOver /\ run' = NoRun /\ lfa' = NoFrame
          /\ UNCHANGED <<sup, decision, published, adapter>>
      BY <1>6 DEF Takeover, At, vars
    <2>2. node' \in NodeState
      BY <1>1, <2>1 DEF NodeState
    <2>3. RequestsInStep' /\ GateInStep'
      BY <1>1, <1>3, <2>1
      DEF RequestsInStep, GateInStep, Driving, At, SupervisorDrives, NodeState
    <2>4. QED  BY <1>1, <1>3, <2>1, <2>2, <2>3, RestartKeepsControl
  <1>7. CASE TakeoverFails
    <2>1. /\ node' = Abandoned(node) /\ node.at = "takeover" /\ ~node.vehicle_safety_mode
          /\ codec' \in {codec, TakenOver} /\ lfa' = NoFrame
          /\ UNCHANGED <<decision, published, adapter, run>>
      BY <1>7 DEF TakeoverFails, RequestArm, At
    <2>2. /\ node' \in NodeState /\ ~Driving' /\ node'.overtaken = node.overtaken
          /\ node'.recovery_pending /\ ~node'.vehicle_safety_mode /\ node'.at = "recover"
          /\ ~node'.requested_arm /\ node'.requested = node.requested
          /\ node'.calling = node.calling
      BY <1>1, <2>1 DEF Abandoned, InternalDisarm, NodeState, Driving
    <2>3. codec' \in [lost : BOOLEAN, template : BOOLEAN]
      BY <1>1, <1>3, <2>1
    <2>4. RequestsInStep' /\ GateInStep'
      BY <1>1, <2>1, <2>2 DEF RequestsInStep, GateInStep, At, SupervisorDrives
    <2>5. (TorqueHasAuthority /\ CountersContinue)'
      BY <2>1, SilentBus
    <2>6. ControlTypeOK'
      BY <1>1, <2>1, <2>2, <2>3 DEF Controlled, ControlTypeOK
    <2>7. FramesInStep'
      BY <2>1, <2>2 DEF Controlled, ControlInStep, FramesInStep, RequestIsCutAtHighAngle
    <2>8. QED  BY <2>4, <2>5, <2>6, <2>7 DEF Controlled, ControlInStep
  <1>8. CASE Leave
    <2>1. /\ node' = [NoOutput(node, TRUE) EXCEPT !.at = "judge"]
          /\ RestartCounters /\ lfa' = NoFrame
          /\ UNCHANGED <<sup, decision, published, adapter>>
      BY <1>8 DEF Leave, vars
    <2>2. node' \in NodeState
      BY <1>1, <2>1, ZenonT(40) DEF NoOutput, NodeState
    <2>3. RequestsInStep' /\ GateInStep'
      BY <1>1, <1>2, <2>1
      DEF RequestsInStep, GateInStep, Driving, At, SupervisorDrives, NodeState, NoOutput,
          RestartCounters
    <2>4. QED  BY <1>1, <1>2, <2>1, <2>2, <2>3, RestartKeepsControl DEF RestartCounters
  <1>9. CASE LeaveFails
    <2>1. /\ node' = Abandoned(NoOutput(node, FALSE))
          /\ RestartCounters /\ lfa' = NoFrame
          /\ UNCHANGED <<decision, published, adapter>>
      BY <1>9 DEF LeaveFails, RequestArm
    <2>2. node' \in NodeState
      <3>1. NoOutput(node, FALSE) \in NodeState
        BY <1>1 DEF NoOutput, NodeState
      <3>2. QED  BY <2>1, <3>1 DEF Abandoned, InternalDisarm, NodeState
    <2>3. RequestsInStep' /\ GateInStep'
      BY <1>1, <1>2, <2>1
      DEF RequestsInStep, GateInStep, Driving, At, SupervisorDrives, NodeState, NoOutput,
          Abandoned, InternalDisarm, RestartCounters
    <2>4. QED  BY <1>1, <1>2, <2>1, <2>2, <2>3, RestartKeepsControl DEF RestartCounters
  <1>10. QED  BY <1>5, <1>6, <1>7, <1>8, <1>9

\* A judgement decides; nothing of it is published or sent yet.
LEMMA JudgeKeepsControl ==
    ASSUME ActuationTypeOK, Supervised, Controlled, NEW sample \in Samples, Judge(sample)
    PROVE  Controlled'
  <1>1. /\ node \in NodeState /\ codec.lost \in BOOLEAN /\ codec.template \in BOOLEAN
        /\ published \in [lateral : BOOLEAN, longitudinal : BOOLEAN]
        /\ RequestsInStep /\ GateInStep
    BY DEF Controlled, ControlTypeOK, ControlInStep
  <1>2. /\ decision'.longitudinal_allowed => SupervisorDrives'
        /\ decision'.lateral_allowed => CommandFresh(SampledCommand)
    BY JudgeFacts DEF SupervisorDrives
  <1>3. CommandFresh(SampledCommand) => SampledCommand.age \in 0..CommandTimeout
    <2>1. SampledCommand.age \in Int /\ CommandTimeout \in Nat
      BY MaxTimeAssumption, TimeAssumption
      DEF Supervised, Inductive, TypeOK, ActuationTypeOK, SampledCommand
    <2>2. QED  BY <2>1 DEF CommandFresh, Fresh
  <1>4. HighAngle(sample.vehicle) \in BOOLEAN
    BY DEF HighAngle
  <1>5. /\ node.at = "judge" /\ lfa' = NoFrame /\ UNCHANGED <<published, adapter, codec, run>>
        /\ \/ node' = [InternalDisarm(node) EXCEPT !.newer = FALSE, !.applied_arm = FALSE,
                                                   !.at = "cleanup"]
           \/ node' = [node EXCEPT !.at = "send", !.high_angle = HighAngle(sample.vehicle),
                                   !.old = SampledCommand.age \notin 0..CommandTimeout]
    BY DEF Judge, At
  <1> DEFINE Judges(after) ==
                 /\ after \in NodeState /\ after.at \in {"cleanup", "send"}
                 /\ after.at = "send" => after.old = (SampledCommand.age \notin 0..CommandTimeout)
                 /\ after.vehicle_safety_mode = node.vehicle_safety_mode
                 /\ after.connected = node.connected /\ after.overtaken = node.overtaken
                 /\ node.recovery_pending => after.recovery_pending
                 /\ after.requested_arm => node.requested_arm
                 /\ after.requested = node.requested /\ after.calling = node.calling
  <1>6. Judges(node')
    <2>1. Judges([InternalDisarm(node) EXCEPT !.newer = FALSE, !.applied_arm = FALSE,
                                              !.at = "cleanup"])
      BY <1>1, ZenonT(40) DEF InternalDisarm, NodeState
    <2>2. Judges([node EXCEPT !.at = "send", !.high_angle = HighAngle(sample.vehicle),
                              !.old = SampledCommand.age \notin 0..CommandTimeout])
      BY <1>1, <1>4, ZenonT(40) DEF NodeState
    <2>3. QED  BY <1>5, <2>1, <2>2
  <1>7. RequestsInStep'
    BY <1>1, <1>5, <1>6 DEF RequestsInStep, DisarmComes, At, Driving
  <1>8. GateInStep'
    BY <1>1, <1>2, <1>3, <1>5, <1>6 DEF GateInStep, At
  <1>9. QED  BY <1>1, <1>5, <1>6, <1>7, <1>8, QuietStepKeepsControl DEF Driving

\* After a supervisor that gave up: the vehicle mode is left, or Panda is gone; the decision that
\* allows nothing is published.
LEMMA CleanUpKeepsControl ==
    ASSUME Supervised, Controlled, CleanUp \/ CleanUpUnplugged
    PROVE  Controlled'
  <1>1. /\ node \in NodeState /\ codec \in [lost : BOOLEAN, template : BOOLEAN]
        /\ RequestsInStep /\ GateInStep /\ decision \in Decision
    BY DEF Controlled, ControlTypeOK, ControlInStep, Supervised, Inductive, TypeOK
  <1>2. /\ node.at = "cleanup" /\ lfa' = NoFrame /\ UNCHANGED <<sup, decision, adapter>>
        /\ published' = [lateral |-> decision.lateral_allowed,
                         longitudinal |-> decision.longitudinal_allowed]
    BY DEF CleanUp, CleanUpUnplugged, Publish, At, vars
  <1>3. published' \in [lateral : BOOLEAN, longitudinal : BOOLEAN]
    BY <1>1, <1>2 DEF Decision
  <1>4. CASE CleanUp
    <2>1. PICK confirmed \in BOOLEAN :
              node' = [NoOutput(node, confirmed) EXCEPT !.at = "top"] /\ RestartCounters
      BY <1>4 DEF CleanUp
    <2>2. node' \in NodeState
      BY <1>1, <2>1, ZenonT(40) DEF NoOutput, NodeState
    <2>3. RequestsInStep' /\ GateInStep'
      BY <1>1, <1>2, <2>1
      DEF RequestsInStep, GateInStep, Driving, At, SupervisorDrives, NodeState, NoOutput,
          RestartCounters, NoCounters
    <2>4. NoCounters \in [lost : BOOLEAN, template : BOOLEAN]
      BY DEF NoCounters
    <2>5. QED  BY <1>2, <1>3, <2>1, <2>2, <2>3, <2>4, RestartKeepsControl DEF RestartCounters
  <1>5. CASE CleanUpUnplugged
    <2>1. /\ node' = [node EXCEPT !.at = "top"] /\ ~node.connected /\ UNCHANGED <<codec, run>>
      BY <1>5 DEF CleanUpUnplugged
    <2>2. node' \in NodeState /\ (Driving' => Driving) /\ (node.overtaken => node'.overtaken)
      BY <1>1, <2>1 DEF NodeState, Driving
    <2>3. RequestsInStep' /\ GateInStep'
      BY <1>1, <1>2, <2>1
      DEF RequestsInStep, GateInStep, Driving, At, SupervisorDrives, NodeState
    <2>4. QED  BY <1>2, <1>3, <2>1, <2>2, <2>3, QuietStepKeepsControl
  <1>6. QED  BY <1>4, <1>5

\* A frame of a period that drives: its authority, what the bus sees of the cycle, and its counter.
LEMMA FrameFacts ==
    ASSUME Controlled, NEW allowed \in BOOLEAN, NEW torque, ~allowed => torque = 0,
           allowed => ~node.old, Driving, At({"send"})
    PROVE  LET frame == LfaFrame(torque, allowed, SteeringRequest(allowed, node.high_angle))
               seen == RunAfter(node.high_angle, frame)
           IN  /\ frame.steers \/ frame.request => frame.enabled
               /\ frame.enabled => ~frame.old
               /\ frame.lost => node.overtaken
               /\ seen \in [requested : Nat, cut : Nat]
               /\ ~node.overtaken => seen.requested <= ValidFrames /\ seen.cut <= CutFrames
               /\ ~codec.lost =>
                     RunOf(RequestFrames(allowed, node.high_angle), seen.requested, seen.cut)
  <1> DEFINE high == node.high_angle
             frame == LfaFrame(torque, allowed, SteeringRequest(allowed, high))
             seen == RunAfter(high, frame)
  <1>1. /\ frame.enabled = allowed /\ (frame.request <=> SteeringRequest(allowed, high))
        /\ frame.steers <=> torque # 0
        /\ frame.old = node.old /\ frame.lost = codec.lost
    BY DEF LfaFrame
  <1> HIDE DEF frame
  <1>2. high \in BOOLEAN /\ codec.lost \in BOOLEAN
    BY DEF Controlled, ControlTypeOK, NodeState
  <1>3. frame.steers \/ frame.request => frame.enabled
    BY <1>1 DEF SteeringRequest
  <1>4. codec.lost => node.overtaken
    BY DEF Controlled, ControlInStep, RequestsInStep, DisarmComes, At
  <1>5. adapter.frames \in 0..(Cycle - 1) /\ run.requested \in Nat /\ run.cut \in Nat
    BY DEF Controlled, ControlTypeOK, ControlInStep, FramesInStep
  <1>6. seen \in [requested : Nat, cut : Nat]
    BY <1>5 DEF RunAfter, NoRun
  <1>7. ~codec.lost => RunOf(RequestFrames(allowed, high), seen.requested, seen.cut)
    <2> SUFFICES ASSUME ~codec.lost
                 PROVE  RunOf(RequestFrames(allowed, high), seen.requested, seen.cut)
      OBVIOUS
    <2>1. RunOf(adapter.frames, run.requested, run.cut)
      BY DEF Controlled, ControlInStep, FramesInStep
    <2> HIDE DEF high
    <2>2. QED  BY <1>1, <1>2, <1>5, <2>1, RunAfterFacts
  <1> HIDE DEF seen
  <1>8. RequestFrames(allowed, high) \in 0..(Cycle - 1)
    BY <1>2, <1>5, RequestFramesFacts
  <1>9. ~node.overtaken => seen.requested <= ValidFrames /\ seen.cut <= CutFrames
    BY <1>4, <1>6, <1>7, <1>8, RunOfIsBounded
  <1>10. QED  BY <1>1, <1>3, <1>4, <1>6, <1>7, <1>9 DEF frame, seen

\* The period ends: the decision is published, and in the vehicle mode a frame goes out whole, in
\* part or not at all.
LEMMA SendKeepsControl ==
    ASSUME Supervised, Controlled, NEW desired \in Torques, NEW driver \in DriverTorques,
           Send(desired, driver)
    PROVE  Controlled'
  <1> DEFINE high == node.high_angle
             allowed == decision.lateral_allowed
             torque == TorqueAfter(allowed, desired, driver)
             frame == LfaFrame(torque, allowed, SteeringRequest(allowed, high))
             done == [node EXCEPT !.at = "top", !.high_angle = FALSE, !.old = FALSE]
  <1>1. /\ node \in NodeState /\ codec \in [lost : BOOLEAN, template : BOOLEAN]
        /\ RequestsInStep /\ GateInStep /\ decision \in Decision /\ high \in BOOLEAN
        /\ run \in [requested : Nat, cut : Nat]
    BY DEF Controlled, ControlTypeOK, ControlInStep, Supervised, Inductive, TypeOK, NodeState,
           FramesInStep
  <1>2. allowed \in BOOLEAN
    BY <1>1 DEF Decision
  <1>3. /\ At({"send"}) /\ UNCHANGED <<sup, decision>>
        /\ adapter' = [torque |-> torque, frames |-> RequestFrames(allowed, high)]
        /\ published' = [lateral |-> decision.lateral_allowed,
                         longitudinal |-> decision.longitudinal_allowed]
        /\ IF Driving THEN Transmit(frame, done)
           ELSE node' = done /\ lfa' = NoFrame /\ UNCHANGED <<codec, run>>
    BY DEF Send, Publish, vars
  <1>4. torque \in -MaxTorque..MaxTorque /\ (~allowed => torque = 0)
        /\ RequestFrames(allowed, high) \in 0..(Cycle - 1)
    <2>1. /\ adapter.torque \in -MaxTorque..MaxTorque /\ adapter.frames \in 0..(Cycle - 1)
          /\ desired \in Int /\ driver \in Int
      BY AdapterAssumption DEF Controlled, ControlTypeOK
    <2> HIDE DEF allowed, high
    <2>2. QED  BY <1>1, <1>2, <2>1, TorqueAfterFacts, RequestFramesFacts
  <1>5. /\ adapter' \in [torque : -MaxTorque..MaxTorque, frames : 0..(Cycle - 1)]
        /\ adapter'.frames = RequestFrames(allowed, high)
        /\ published' \in [lateral : BOOLEAN, longitudinal : BOOLEAN]
        /\ published'.longitudinal => SupervisorDrives'
    <2> HIDE DEF torque
    <2>1. QED
      BY <1>1, <1>3, <1>4 DEF Decision, GateInStep, At, SupervisorDrives
  <1>6. /\ done \in NodeState /\ done.at = "top"
        /\ done.requested_arm = node.requested_arm /\ done.requested = node.requested
        /\ done.calling = node.calling /\ done.recovery_pending = node.recovery_pending
        /\ done.overtaken = node.overtaken /\ done.newer = node.newer
        /\ done.vehicle_safety_mode = node.vehicle_safety_mode
        /\ done.connected = node.connected
    BY <1>1 DEF NodeState
  <1> HIDE DEF done
  <1>7. CASE ~Driving
    <2>1. node' = done /\ lfa' = NoFrame /\ UNCHANGED <<codec, run>>
      BY <1>3, <1>7
    <2>2. ~Driving'
      BY <1>6, <1>7, <2>1 DEF Driving
    <2>3. (TorqueHasAuthority /\ CountersContinue)'
      BY <2>1, SilentBus
    <2>4. ControlTypeOK'
      BY <1>1, <1>5, <1>6, <2>1 DEF ControlTypeOK
    <2>5. RequestsInStep'
      BY <1>1, <1>6, <2>1, <2>2 DEF RequestsInStep, At
    <2>6. GateInStep'
      BY <1>1, <1>5, <1>6, <2>1 DEF GateInStep, At
    <2>7. FramesInStep'
      BY <1>6, <2>1, <2>2 DEF Controlled, ControlInStep, FramesInStep, RequestIsCutAtHighAngle
    <2>8. QED  BY <2>3, <2>4, <2>5, <2>6, <2>7 DEF Controlled, ControlInStep
  <1>8. CASE Driving
    <2>1. PICK sent \in {"all", "some", "nothing"}, failed \in BOOLEAN :
              /\ sent # "all" => failed
              /\ node' = IF failed THEN InternalDisarm(done) ELSE done
              /\ codec' = [codec EXCEPT !.lost = @ \/ sent # "all"]
              /\ lfa' = IF sent = "nothing" THEN NoFrame ELSE frame
              /\ run' = IF sent = "nothing" THEN run ELSE RunAfter(high, frame)
      BY <1>3, <1>8 DEF Transmit
    <2>2. /\ frame.steers \/ frame.request => frame.enabled
          /\ frame.enabled => ~frame.old
          /\ frame.lost => node.overtaken
          /\ RunAfter(high, frame) \in [requested : Nat, cut : Nat]
          /\ ~node.overtaken => /\ RunAfter(high, frame).requested <= ValidFrames
                                /\ RunAfter(high, frame).cut <= CutFrames
          /\ ~codec.lost => RunOf(RequestFrames(allowed, high), RunAfter(high, frame).requested,
                                  RunAfter(high, frame).cut)
      <3>1. allowed => ~node.old
        BY <1>1, <1>3 DEF GateInStep
      <3> HIDE DEF torque, allowed
      <3>2. QED  BY <1>2, <1>3, <1>4, <1>8, <3>1, FrameFacts
    <2> HIDE DEF frame, torque, allowed, high
    <2>3. /\ codec' \in [lost : BOOLEAN, template : BOOLEAN] /\ codec'.template = codec.template
          /\ codec'.lost <=> codec.lost \/ sent # "all"
      BY <1>1, <2>1
    <2>4. /\ node' \in NodeState /\ node'.at = "top" /\ node'.overtaken = node.overtaken
          /\ node'.requested_arm => node.requested_arm
          /\ node'.requested = node.requested /\ node'.calling = node.calling
          /\ node'.vehicle_safety_mode = node.vehicle_safety_mode
          /\ node.recovery_pending => node'.recovery_pending
          /\ failed => node'.recovery_pending /\ ~node'.requested_arm /\ node'.newer
      BY <1>1, <1>6, <2>1, ZenonT(40) DEF InternalDisarm, NodeState
    <2>5. (TorqueHasAuthority /\ CountersContinue)'
      <3>1. CASE sent = "nothing"
        BY <2>1, <3>1, SilentBus
      <3>2. CASE sent # "nothing"
        BY <2>1, <2>2, <2>4, <3>2 DEF TorqueHasAuthority, CountersContinue
      <3>3. QED  BY <3>1, <3>2
    <2>6. ControlTypeOK'
      BY <1>5, <2>3, <2>4 DEF ControlTypeOK
    <2>7. codec.lost => node.overtaken
      BY <1>1, <1>3, <1>8 DEF RequestsInStep, DisarmComes, At
    <2>8. RequestsInStep'
      BY <1>1, <2>1, <2>3, <2>4, <2>7 DEF RequestsInStep, DisarmComes, At
    <2>9. GateInStep'
      BY <1>1, <1>5, <2>3, <2>4 DEF GateInStep, At
    <2>10. FramesInStep'
      <3>1. CASE sent = "nothing"
        BY <2>1, <2>3, <2>4, <3>1
        DEF Controlled, ControlInStep, FramesInStep, RequestIsCutAtHighAngle
      <3>2. CASE sent # "nothing"
        <4>1. run' = RunAfter(high, frame)
          BY <2>1, <3>2
        <4>2. ~codec'.lost => ~codec.lost
          BY <1>1, <2>3
        <4>3. QED
          BY <1>5, <2>2, <2>4, <4>1, <4>2 DEF FramesInStep, RequestIsCutAtHighAngle
      <3>3. QED  BY <3>1, <3>2
    <2>11. QED  BY <2>5, <2>6, <2>8, <2>9, <2>10 DEF Controlled, ControlInStep
  <1>9. QED  BY <1>7, <1>8

\* Callbacks, the driver and time touch nothing of the node's threads.
LEMMA SurroundingsKeepControl ==
    ASSUME Controlled, Topic \/ Outside \/ UNCHANGED allVars
    PROVE  Controlled'
  <1>1. /\ lfa' \in {lfa, NoFrame}
        /\ UNCHANGED <<sup, decision, node, published, adapter, codec, run>>
    BY DEF Topic, CommandCallback, UnnumberedCallback, RestartPublisher, Outside, Others, Press,
           Tick, allVars, vars
  <1>2. (TorqueHasAuthority /\ CountersContinue)'
    <2>1. CASE lfa' = NoFrame
      BY <2>1, SilentBus
    <2>2. CASE lfa' = lfa
      BY <1>1, <2>2 DEF Controlled, ControlInStep, TorqueHasAuthority, CountersContinue
    <2>3. QED  BY <1>1, <2>1, <2>2
  <1>3. ControlTypeOK'
    BY <1>1 DEF Controlled, ControlTypeOK
  <1>4. RequestsInStep' /\ GateInStep'
    BY <1>1
    DEF Controlled, ControlInStep, RequestsInStep, GateInStep, DisarmComes, Driving, At,
        SupervisorDrives
  <1>5. FramesInStep'
    BY <1>1
    DEF Controlled, ControlInStep, FramesInStep, RequestIsCutAtHighAngle, Driving
  <1>6. QED  BY <1>2, <1>3, <1>4, <1>5 DEF Controlled, ControlInStep

\* Every step keeps what the threads and the bus keep.
LEMMA ControlledStep ==
    ActuationTypeOK /\ Supervised /\ ControlInStep /\ [ActuationNext]_allVars => Controlled'
  <1> SUFFICES ASSUME ActuationTypeOK, Supervised, Controlled, [ActuationNext]_allVars
               PROVE  Controlled'
    BY DEF Controlled, ControlTypeOK, ActuationTypeOK
  <1>1. CASE Topic \/ Outside \/ UNCHANGED allVars
    BY <1>1, SurroundingsKeepControl
  <1>2. CASE Requests
    BY <1>2, RequestsKeepControl
  <1>3. CASE Link
    BY <1>3, LinkKeepsControl
  <1>4. CASE Walks
    BY <1>4, WalksKeepControl
  <1>5. CASE ApplyArm \/ ApplyDisarm
    BY <1>5, ApplyKeepsControl
  <1>6. CASE Recover \/ Takeover \/ TakeoverFails \/ Leave \/ LeaveFails
    BY <1>6, TransitionsKeepControl
  <1>7. CASE \E sample \in Samples : Judge(sample)
    BY <1>7, JudgeKeepsControl
  <1>8. CASE CleanUp \/ CleanUpUnplugged
    BY <1>8, CleanUpKeepsControl
  <1>9. CASE \E desired \in Torques, driver \in DriverTorques : Send(desired, driver)
    BY <1>9, SendKeepsControl
  <1>10. QED
    BY <1>1, <1>2, <1>3, <1>4, <1>5, <1>6, <1>7, <1>8, <1>9 DEF ActuationNext, Control, Walks

-----------------------------------------------------------------------------
(* The publisher's numbers *)

\* Multiplication by a natural number is monotonic.
LEMMA ProductIsMonotonic ==
    ASSUME NEW n \in Nat, NEW a \in Int, NEW b \in Int, a <= b
    PROVE  n * a <= n * b
  <1>1. n * (b - a) >= 0
    OBVIOUS
  <1>2. n * (b - a) = n * b - n * a
    OBVIOUS
  <1>3. n * b \in Int /\ n * a \in Int
    OBVIOUS
  <1>4. QED  BY <1>1, <1>2, <1>3

\* A remainder is unique.
LEMMA RemainderIsUnique ==
    ASSUME NEW n \in Nat \ {0}, NEW p \in Int, NEW q \in Int,
           NEW r \in 0..(n - 1), NEW s \in 0..(n - 1), n * p + r = n * q + s
    PROVE  r = s
  <1>1. /\ n * p \in Int /\ n * q \in Int
        /\ n * (p + 1) = n * p + n /\ n * (q + 1) = n * q + n
    OBVIOUS
  <1>2. CASE p + 1 <= q
    <2>1. n * (p + 1) <= n * q
      BY <1>2, ProductIsMonotonic
    <2>2. QED  BY <1>1, <2>1
  <1>3. CASE q + 1 <= p
    <2>1. n * (q + 1) <= n * p
      BY <1>3, ProductIsMonotonic
    <2>2. QED  BY <1>1, <2>1
  <1>4. CASE p = q
    BY <1>1, <1>4
  <1>5. QED  BY <1>2, <1>3, <1>4

\* The remainder of the next number: one more, or zero after the last.
LEMMA NextRemainder ==
    ASSUME NEW n \in Nat \ {0, 1}, NEW a \in Nat
    PROVE  /\ a % n \in 0..(n - 1)
           /\ (a + 1) % n = IF a % n = n - 1 THEN 0 ELSE (a % n) + 1
  <1> DEFINE p == a \div n
             q == (a + 1) \div n
             r == a % n
             s == (a + 1) % n
  <1>1. r \in 0..(n - 1) /\ s \in 0..(n - 1)
    OBVIOUS
  <1>2. p \in Int
    OBVIOUS
  <1>3. q \in Int
    OBVIOUS
  <1>4. a = n * p + r
    OBVIOUS
  <1>5. a + 1 = n * q + s
    OBVIOUS
  <1> HIDE DEF p, q, r, s
  <1>6. CASE r = n - 1
    <2>1. n * (p + 1) + 0 = n * p + n
      BY <1>2
    <2>2. n * (p + 1) + 0 = n * q + s
      BY <1>1, <1>2, <1>3, <1>4, <1>5, <1>6, <2>1
    <2>3. s = 0
      BY <1>1, <1>2, <1>3, <2>2, RemainderIsUnique
    <2>4. QED  BY <1>1, <1>6, <2>3 DEF r, s
  <1>7. CASE r # n - 1
    <2>1. n * p + (r + 1) = n * q + s
      BY <1>1, <1>2, <1>3, <1>4, <1>5
    <2>2. s = r + 1
      BY <1>1, <1>2, <1>3, <1>7, <2>1, RemainderIsUnique
    <2>3. QED  BY <1>1, <1>7, <2>2 DEF r, s
  <1>8. QED  BY <1>6, <1>7

\* Message i + 1 is numbered one more than message i, or 1 after the last number.
LEMMA SequenceOfFacts ==
    ASSUME NEW i \in Nat \ {0}
    PROVE  /\ SequenceOf(i) \in 1..(SequenceModulus - 1)
           /\ SequenceOf(i + 1) = IF SequenceOf(i) = SequenceModulus - 1 THEN 1
                                  ELSE SequenceOf(i) + 1
  <1>1. SequenceModulus \in Nat /\ SequenceModulus >= 8
    BY AdapterAssumption
  <1> DEFINE n == SequenceModulus - 1
             a == i - 1
  <1>2. n \in Nat \ {0, 1} /\ a \in Nat /\ SequenceModulus = n + 1
    BY <1>1
  <1>3. SequenceOf(i) = (a % n) + 1 /\ SequenceOf(i + 1) = ((a + 1) % n) + 1
    BY DEF SequenceOf
  <1> HIDE DEF n, a
  <1>4. a % n \in 0..(n - 1) /\ (a + 1) % n = IF a % n = n - 1 THEN 0 ELSE (a % n) + 1
    BY <1>2, NextRemainder
  <1>5. QED  BY <1>2, <1>3, <1>4

\* So a message is never newer than the one after it, also across the wrap: sequence_is_newer sees
\* the whole range but one or two, which is more than half of it.
LEMMA EarlierIsNotNewer ==
    ASSUME NEW i \in Nat \ {0}
    PROVE  ~SequenceIsNewer(SequenceOf(i), SequenceOf(i + 1))
  <1> DEFINE a == SequenceOf(i)
             b == SequenceOf(i + 1)
             m == SequenceModulus
  <1>1. m \in Nat /\ m >= 8
    BY AdapterAssumption
  <1>2. a \in 1..(m - 1) /\ b = IF a = m - 1 THEN 1 ELSE a + 1
    BY SequenceOfFacts
  <1> HIDE DEF a, b
  <1>3. a \in Int /\ b \in Int /\ a # 0 /\ b # 0 /\ a - b \in {-1, m - 2}
    BY <1>1, <1>2
  <1> HIDE DEF m
  <1>4. (-1) % m = m - 1
    BY <1>1
  <1>5. (m - 2) % m = m - 2
    BY <1>1
  <1>6. m \div 2 \in Int /\ m \div 2 <= m - 2
    BY <1>1
  <1>7. ~((a - b) % m < m \div 2)
    BY <1>1, <1>3, <1>4, <1>5, <1>6
  <1>8. QED  BY <1>3, <1>7 DEF SequenceIsNewer, a, b, m

-----------------------------------------------------------------------------
(* The command topic *)

StreamTypeOK ==
    /\ latest \in [stamped : BOOLEAN, received_at : 0..MaxTime, valid : BOOLEAN,
                   enable : BOOLEAN, last_sequence : 0..(SequenceModulus - 1)]
    /\ stream \in [restarted : BOOLEAN, accepted : BOOLEAN \X Nat,
                   refusing : BOOLEAN, since : 0..MaxTime]

Streamed == StreamTypeOK /\ StreamInStep

\* Only messages that the publisher numbered arrive.
LEMMA ArrivingFacts ==
    ASSUME StreamTypeOK, NEW i \in Arriving
    PROVE  /\ i \in Nat \ {0}
           /\ (stream.restarted /\ ~stream.accepted[1]) \/ i >= stream.accepted[2] - 1
  <1>1. stream.accepted[2] \in Nat
    BY DEF StreamTypeOK
  <1>2. CASE stream.restarted /\ ~stream.accepted[1]
    BY <1>2 DEF Arriving
  <1>3. CASE ~(stream.restarted /\ ~stream.accepted[1])
    <2> DEFINE bound == IF stream.restarted THEN MaxMessages ELSE FirstMessage - 1 + MaxMessages
    <2>1. bound \in Int
      BY AdapterAssumption
    <2>2. i \in stream.accepted[2] - 1 .. stream.accepted[2] + 2 /\ i \in 1..bound
      BY <1>3 DEF Arriving
    <2> HIDE DEF bound
    <2>3. QED  BY <1>1, <2>1, <2>2
  <1>4. QED  BY <1>2, <1>3

\* A message that is taken is stamped now; a number is remembered only with a finite value.
LEMMA ReceivedFacts ==
    ASSUME StreamTypeOK, now \in 0..MaxTime, NEW sequence \in 0..(SequenceModulus - 1),
           NEW finite \in BOOLEAN, NEW enable \in BOOLEAN, ~Discarded(sequence)
    PROVE  /\ Received(sequence, finite, enable) \in
                 [stamped : BOOLEAN, received_at : 0..MaxTime, valid : BOOLEAN,
                  enable : BOOLEAN, last_sequence : 0..(SequenceModulus - 1)]
           /\ Received(sequence, finite, enable).received_at = now
           /\ Received(sequence, finite, enable).last_sequence =
                 IF finite /\ sequence # 0 THEN sequence ELSE latest.last_sequence
  <1> DEFINE taken == finite /\ (~UseEnableField \/ enable)
             number == IF finite /\ sequence # 0 THEN sequence ELSE latest.last_sequence
  <1>1. taken \in BOOLEAN /\ number \in 0..(SequenceModulus - 1)
    BY AdapterAssumption DEF StreamTypeOK
  <1>2. Received(sequence, finite, enable) =
            [latest EXCEPT !.stamped = TRUE, !.received_at = now, !.valid = finite,
                           !.enable = taken, !.last_sequence = number]
    BY DEF Received, StreamTypeOK
  <1> HIDE DEF taken, number
  <1>3. QED  BY <1>1, <1>2 DEF StreamTypeOK, number

\* What is heard of the publisher ends a refusal.
LEMMA HeardFacts ==
    ASSUME StreamTypeOK, MaxTime \in Nat
    PROVE  /\ Heard \in [restarted : BOOLEAN, accepted : BOOLEAN \X Nat,
                         refusing : BOOLEAN, since : 0..MaxTime]
           /\ ~Heard.refusing /\ Heard.restarted = stream.restarted
           /\ Heard.accepted = stream.accepted
  <1>1. 0 \in 0..MaxTime
    OBVIOUS
  <1> DEFINE Accepted == BOOLEAN \X Nat
             Times == 0..MaxTime
  <1>2. stream \in [restarted : BOOLEAN, accepted : Accepted, refusing : BOOLEAN, since : Times]
    BY DEF StreamTypeOK
  <1> HIDE DEF Accepted, Times
  <1>3. /\ Heard \in [restarted : BOOLEAN, accepted : Accepted, refusing : BOOLEAN, since : Times]
        /\ ~Heard.refusing /\ Heard.restarted = stream.restarted
        /\ Heard.accepted = stream.accepted
    BY <1>1, <1>2 DEF Heard, Times
  <1>4. QED  BY <1>3 DEF Accepted, Times

\* A discarded message leaves the last one as it is, and a refusal begins no earlier than it.
LEMMA CommandCallbackKeepsStream ==
    ASSUME Streamed, now \in 0..MaxTime, MaxTime \in Nat, NEW i \in Arriving,
           NEW finite \in BOOLEAN, NEW enable \in BOOLEAN, CommandCallback(i, finite, enable)
    PROVE  Streamed'
  <1>1. i \in Nat \ {0}
    BY ArrivingFacts DEF Streamed
  <1>2. SequenceOf(i) \in 1..(SequenceModulus - 1) /\ SequenceModulus \in Nat
    BY <1>1, SequenceOfFacts, AdapterAssumption
  <1>3. now' = now
    BY DEF CommandCallback, vars
  <1>4. CASE Discarded(SequenceOf(i))
    <2>1. latest' = latest
      BY <1>4 DEF CommandCallback, Received
    <2>2. /\ stream'.refusing /\ stream'.since = IF stream.refusing THEN stream.since ELSE now
          /\ stream'.restarted = stream.restarted /\ stream'.accepted = stream.accepted
          /\ stream' \in [restarted : BOOLEAN, accepted : BOOLEAN \X Nat,
                          refusing : BOOLEAN, since : 0..MaxTime]
      BY <1>4 DEF CommandCallback, Refused, Streamed, StreamTypeOK
    <2>3. StreamTypeOK'
      BY <2>1, <2>2 DEF Streamed, StreamTypeOK
    <2>4. StreamInStep'
      BY <1>3, <2>1, <2>2 DEF Streamed, StreamInStep
    <2>5. QED  BY <2>3, <2>4 DEF Streamed
  <1>5. CASE ~Discarded(SequenceOf(i))
    <2>1. /\ latest' \in [stamped : BOOLEAN, received_at : 0..MaxTime, valid : BOOLEAN,
                          enable : BOOLEAN, last_sequence : 0..(SequenceModulus - 1)]
          /\ latest'.received_at = now
          /\ latest'.last_sequence = IF finite THEN SequenceOf(i) ELSE latest.last_sequence
      <3>1. latest' = Received(SequenceOf(i), finite, enable) /\ SequenceOf(i) # 0
            /\ SequenceOf(i) \in 0..(SequenceModulus - 1)
        BY <1>2 DEF CommandCallback
      <3>2. QED  BY <1>5, <3>1, ReceivedFacts DEF Streamed
    <2>2. /\ ~stream'.refusing /\ stream'.restarted = stream.restarted
          /\ stream'.accepted = IF finite THEN <<stream.restarted, i>> ELSE stream.accepted
          /\ stream' \in [restarted : BOOLEAN, accepted : BOOLEAN \X Nat,
                          refusing : BOOLEAN, since : 0..MaxTime]
      <3>1. stream' = [Heard EXCEPT !.accepted = IF finite THEN <<stream.restarted, i>> ELSE @]
        BY <1>5 DEF CommandCallback
      <3>2. <<stream.restarted, i>> \in BOOLEAN \X Nat
        BY <1>1 DEF Streamed, StreamTypeOK
      <3>3. QED  BY <3>1, <3>2, HeardFacts DEF Streamed
    <2>3. StreamTypeOK'
      BY <2>1, <2>2 DEF StreamTypeOK
    <2>4. CASE finite
      BY <1>1, <1>3, <2>1, <2>2, <2>4 DEF Streamed, StreamTypeOK, StreamInStep
    <2>5. CASE ~finite
      BY <1>3, <2>1, <2>2, <2>5 DEF Streamed, StreamTypeOK, StreamInStep
    <2>6. QED  BY <2>3, <2>4, <2>5 DEF Streamed
  <1>6. QED  BY <1>4, <1>5

\* Nothing but the callbacks touches the topic.
\* Nothing but the callbacks touches the topic, and nothing but Tick the clock.
LEMMA StreamUntouched ==
    ASSUME Outside \/ Requests \/ Link \/ Control \/ UNCHANGED allVars
    PROVE  UNCHANGED <<latest, stream>> /\ now' \in {now, now + 1}
  <1>1. CASE Outside
    BY <1>1 DEF Outside, Others, Press, Tick
  <1>2. CASE Requests \/ Link
    BY <1>2
    DEF Requests, ArmCall, ArmStore, DisarmCall, AutoArmReady, AutoArm, Link, LinkLost, Reconnect,
        ReceiveFails, ReceiveDisarm, ReceiveReset, NodeStep, Going, vars
  <1>3. CASE \/ RecoverLater \/ Load \/ NothingToApply \/ TakeoverSkipped \/ AlreadyTaken
             \/ Recover \/ Takeover \/ Leave \/ CleanUp \/ CleanUpUnplugged
    BY <1>3
    DEF RecoverLater, Load, NothingToApply, TakeoverSkipped, AlreadyTaken, NodeStep, Going,
        Recover, Takeover, Leave, CleanUp, CleanUpUnplugged, vars
  <1>4. CASE ApplyArm \/ ApplyDisarm \/ TakeoverFails \/ LeaveFails
    BY <1>4 DEF ApplyArm, ApplyDisarm, Apply, TakeoverFails, LeaveFails, RequestArm
  <1>5. CASE \E sample \in Samples : Judge(sample)
    BY <1>5 DEF Judge, Update
  <1>6. CASE \E desired \in Torques, driver \in DriverTorques : Send(desired, driver)
    BY <1>6 DEF Send, vars
  <1>7. CASE UNCHANGED allVars
    BY <1>7 DEF allVars, vars
  <1>8. QED  BY <1>1, <1>2, <1>3, <1>4, <1>5, <1>6, <1>7 DEF Control

\* So every step keeps the publisher's part.
LEMMA StreamedStep ==
    Inductive /\ StreamTypeOK /\ StreamInStep /\ [ActuationNext]_allVars => Streamed'
  <1> SUFFICES ASSUME Inductive, Streamed, [ActuationNext]_allVars
               PROVE  Streamed'
    BY DEF Streamed
  <1>1. now \in 0..MaxTime /\ MaxTime \in Nat
    BY MaxTimeAssumption DEF Inductive, TypeOK
  <1>2. CASE \E i \in Arriving, finite, enable \in BOOLEAN : CommandCallback(i, finite, enable)
    BY <1>1, <1>2, CommandCallbackKeepsStream
  <1>3. ASSUME NEW enable \in BOOLEAN, UnnumberedCallback(enable)
        PROVE  Streamed'
    <2>1. ~Discarded(0) /\ 0 \in 0..(SequenceModulus - 1)
      BY AdapterAssumption DEF Discarded
    <2>2. /\ latest' \in [stamped : BOOLEAN, received_at : 0..MaxTime, valid : BOOLEAN,
                          enable : BOOLEAN, last_sequence : 0..(SequenceModulus - 1)]
          /\ latest'.received_at = now /\ latest'.last_sequence = latest.last_sequence
      <3>1. /\ Received(0, TRUE, enable) \in
                  [stamped : BOOLEAN, received_at : 0..MaxTime, valid : BOOLEAN,
                   enable : BOOLEAN, last_sequence : 0..(SequenceModulus - 1)]
            /\ Received(0, TRUE, enable).received_at = now
            /\ Received(0, TRUE, enable).last_sequence =
                  IF TRUE /\ 0 # 0 THEN 0 ELSE latest.last_sequence
        BY <1>1, <1>3, <2>1, ReceivedFacts, ZenonT(40) DEF Streamed
      <3>2. QED  BY <1>3, <3>1 DEF UnnumberedCallback
    <2>3. /\ ~stream'.refusing /\ stream'.restarted = stream.restarted
          /\ stream'.accepted = stream.accepted
          /\ stream' \in [restarted : BOOLEAN, accepted : BOOLEAN \X Nat,
                          refusing : BOOLEAN, since : 0..MaxTime]
      BY <1>1, <1>3, HeardFacts DEF UnnumberedCallback, Streamed
    <2>4. now' = now
      BY <1>3 DEF UnnumberedCallback, vars
    <2>5. QED  BY <1>1, <2>2, <2>3, <2>4 DEF Streamed, StreamTypeOK, StreamInStep
  <1>4. CASE RestartPublisher
    <2>1. /\ stream'.restarted /\ ~stream.restarted /\ stream'.accepted = stream.accepted
          /\ stream'.refusing = stream.refusing /\ stream'.since = stream.since
          /\ stream' \in [restarted : BOOLEAN, accepted : BOOLEAN \X Nat,
                          refusing : BOOLEAN, since : 0..MaxTime]
      BY <1>4 DEF RestartPublisher, Streamed, StreamTypeOK
    <2>2. latest' = latest /\ now' = now
      BY <1>4 DEF RestartPublisher, vars
    <2>3. QED  BY <2>1, <2>2 DEF Streamed, StreamTypeOK, StreamInStep
  <1>5. CASE UNCHANGED <<latest, stream>> /\ now' \in {now, now + 1}
    <2>1. StreamTypeOK'
      BY <1>5 DEF Streamed, StreamTypeOK
    <2>2. latest.received_at \in Nat /\ stream.since \in Nat /\ now \in Nat
      BY <1>1 DEF Streamed, StreamTypeOK
    <2>3. StreamInStep'
      BY <1>5, <2>2 DEF Streamed, StreamInStep
    <2>4. QED  BY <2>1, <2>3 DEF Streamed
  <1>6. QED  BY <1>2, <1>3, <1>4, <1>5, StreamUntouched DEF ActuationNext, Topic

-----------------------------------------------------------------------------
(* The theorems *)

\* The invariant is kept by every step.
LEMMA ActuationStep == ActuationInductive /\ [ActuationNext]_allVars => ActuationInductive'
  <1> SUFFICES ASSUME ActuationInductive, [ActuationNext]_allVars
               PROVE  ActuationInductive'
    OBVIOUS
  <1>1. /\ Supervised /\ Inductive /\ ActuationTypeOK /\ ControlInStep
        /\ StreamTypeOK /\ StreamInStep
    BY DEF ActuationInductive, Supervised, ControlInStep, ActuationTypeOK, StreamTypeOK
  <1>2. Supervised'
    BY <1>1, SupervisedStep
  <1>3. Controlled'
    BY <1>1, ControlledStep
  <1>4. Streamed'
    BY <1>1, StreamedStep
  <1>5. QED
    BY <1>2, <1>3, <1>4
    DEF ActuationInductive, ActuationTypeOK, Controlled, ControlTypeOK, Streamed, StreamTypeOK

\* So it holds in every reachable state, for every configuration, publisher and set of samples.
THEOREM ActuationInvariant == ActuationSpec => []ActuationInductive
  BY ActuationStarts, ActuationStep, PTL DEF ActuationSpec

\* Every variable of the node keeps its type; in particular the torque that the adapter carries
\* from period to period never leaves +-max_torque, and its counter never leaves the cycle.
THEOREM ActuationTypeCorrect == ActuationSpec => []ActuationTypeOK
  <1>1. ActuationInductive => ActuationTypeOK
    BY DEF ActuationInductive
  <1>2. QED  BY <1>1, ActuationInvariant, PTL

\* The bus never sees more requests in a row at a high angle than steer_request_valid_frames, nor
\* a longer cut than steer_request_cut_frames while lateral is permitted, unless an arm request
\* was stored over a pending recovery.
THEOREM RequestCut == ActuationSpec => []RequestIsCutAtHighAngle
  <1>1. ActuationInductive => RequestIsCutAtHighAngle
    BY DEF ActuationInductive, ControlInStep, FramesInStep
  <1>2. QED  BY <1>1, ActuationInvariant, PTL

\* Torque and request reach the bus only with permission and from a command that is not old.
THEOREM TorqueAuthority == ActuationSpec => []TorqueHasAuthority
  <1>1. ActuationInductive => TorqueHasAuthority
    BY DEF ActuationInductive, ControlInStep
  <1>2. QED  BY <1>1, ActuationInvariant, PTL

\* After a transfer that lost counter values no frame follows until they start again, unless an arm
\* request was stored over the recovery.
THEOREM CounterContinuity == ActuationSpec => []CountersContinue
  <1>1. ActuationInductive => CountersContinue
    BY DEF ActuationInductive, ControlInStep
  <1>2. QED  BY <1>1, ActuationInvariant, PTL

\* Once the control thread has left the vehicle mode or stored the new decision, the raw gate is
\* not open for a supervisor that is disarmed, faulted or without longitudinal.
THEOREM RawGate == ActuationSpec => []RawGateFollowsSupervisor
  <1>1. ActuationInductive => RawGateFollowsSupervisor
    BY DEF ActuationInductive, ControlInStep, GateInStep, RawGateFollowsSupervisor, RawGateOpen,
           Driving, At
  <1>2. QED  BY <1>1, ActuationInvariant, PTL

\* A publisher whose numbers look old is never refused for longer than the command timeout.
THEOREM NotLockedOut == ActuationSpec => []PublisherNotLockedOut
  <1>1. ActuationInductive => PublisherNotLockedOut
    <2> SUFFICES ASSUME ActuationInductive, stream.refusing, now - stream.since > CommandTimeout,
                        NEW sequence \in 1..SequenceModulus - 1
                 PROVE  ~Discarded(sequence)
      BY DEF PublisherNotLockedOut
    <2>1. /\ latest.received_at \in Nat /\ stream.since \in Nat /\ now \in Nat
          /\ latest.received_at <= stream.since /\ CommandTimeout \in Nat
      BY MaxTimeAssumption, TimeAssumption
      DEF ActuationInductive, ActuationTypeOK, Supervised, Inductive, TypeOK, StreamInStep
    <2>2. ~(now - latest.received_at <= CommandTimeout)
      BY <2>1
    <2>3. ~LatestFresh(latest)
      BY <2>2 DEF LatestFresh, Fresh
    <2>4. QED  BY <2>3 DEF Discarded
  <1>2. QED  BY <1>1, ActuationInvariant, PTL

\* While commands keep coming, none of them is replaced by an older one of the same publisher run.
THEOREM StreamOrder == ActuationSpec => StreamInOrder
  <1> DEFINE Ordered ==
          LET before == stream.accepted
              after == stream'.accepted
          IN  after # before /\ latest.last_sequence # 0 /\ LatestFresh(latest) =>
                  \/ after[1] /\ ~before[1]
                  \/ after[1] = before[1] /\ after[2] > before[2]
  <1>1. ActuationInductive /\ [ActuationNext]_allVars => [Ordered]_allVars
    <2> SUFFICES ASSUME ActuationInductive, ActuationNext, stream'.accepted # stream.accepted,
                        latest.last_sequence # 0, LatestFresh(latest)
                 PROVE  \/ stream'.accepted[1] /\ ~stream.accepted[1]
                        \/ /\ stream'.accepted[1] = stream.accepted[1]
                           /\ stream'.accepted[2] > stream.accepted[2]
      OBVIOUS
    <2>1. StreamTypeOK /\ StreamInStep
      BY DEF ActuationInductive, ActuationTypeOK, StreamTypeOK
    <2>2. ASSUME NEW i \in Arriving, NEW finite \in BOOLEAN, NEW enable \in BOOLEAN,
                 CommandCallback(i, finite, enable)
          PROVE  \/ stream'.accepted[1] /\ ~stream.accepted[1]
                 \/ /\ stream'.accepted[1] = stream.accepted[1]
                    /\ stream'.accepted[2] > stream.accepted[2]
      <3>1. ~Discarded(SequenceOf(i)) /\ stream'.accepted = <<stream.restarted, i>>
        <4>1. CASE Discarded(SequenceOf(i))
          <5>1. stream'.accepted = stream.accepted
            BY <2>1, <2>2, <4>1 DEF CommandCallback, Refused, StreamTypeOK
          <5>2. QED  BY <5>1
        <4>2. CASE ~Discarded(SequenceOf(i))
          <5>1. stream' = [Heard EXCEPT !.accepted = IF finite THEN <<stream.restarted, i>> ELSE @]
            BY <2>2, <4>2 DEF CommandCallback
          <5>2. Heard.accepted = stream.accepted
            BY <2>1, MaxTimeAssumption, HeardFacts
          <5>3. stream'.accepted = IF finite THEN <<stream.restarted, i>> ELSE Heard.accepted
            BY <2>1, <5>1, MaxTimeAssumption, HeardFacts
          <5>4. stream'.accepted = <<stream.restarted, i>>
            BY <5>2, <5>3
          <5>5. QED  BY <4>2, <5>4
        <4>3. QED  BY <4>1, <4>2
      <3>2. CASE stream.restarted /\ ~stream.accepted[1]
        <4>1. stream'.accepted[1] = stream.restarted
          BY <3>1
        <4>2. stream'.accepted[1]
          BY <3>2, <4>1, Zenon
        <4>3. QED  BY <3>2, <4>2
      <3>3. CASE ~(stream.restarted /\ ~stream.accepted[1])
        <4> DEFINE k == stream.accepted[2]
        <4>1. /\ stream.accepted[1] = stream.restarted /\ k # 0 /\ k \in Nat
              /\ latest.last_sequence = SequenceOf(k)
          BY <2>1, <3>3 DEF StreamInStep, StreamTypeOK
        <4>2. i \in Nat \ {0} /\ i >= k - 1
          BY <2>1, <3>3, ArrivingFacts
        <4>3. i # k
          <5>1. stream.accepted = <<stream.accepted[1], stream.accepted[2]>>
            BY <2>1 DEF StreamTypeOK
          <5>2. QED  BY <3>1, <4>1, <5>1
        <4>4. SequenceOf(i) # 0
          BY <4>2, SequenceOfFacts, AdapterAssumption
        <4>5. SequenceIsNewer(SequenceOf(i), SequenceOf(k))
          BY <3>1, <4>1, <4>4 DEF Discarded
        <4> HIDE DEF k
        <4>6. k # i + 1
          BY <4>2, <4>5, EarlierIsNotNewer
        <4>7. i > k
          BY <4>1, <4>2, <4>3, <4>6
        <4>8. QED  BY <3>1, <4>1, <4>7 DEF k
      <3>4. QED  BY <3>2, <3>3
    <2>3. CASE \E enable \in BOOLEAN : UnnumberedCallback(enable)
      BY <2>1, <2>3 DEF UnnumberedCallback, Heard, StreamTypeOK
    <2>4. CASE RestartPublisher
      BY <2>1, <2>4 DEF RestartPublisher, StreamTypeOK
    <2>5. CASE Outside \/ Requests \/ Link \/ Control
      BY <2>5, StreamUntouched
    <2>6. QED  BY <2>2, <2>3, <2>4, <2>5 DEF ActuationNext, Topic
  <1>2. QED  BY <1>1, ActuationInvariant, PTL DEF ActuationSpec, StreamInOrder

\* Inside the node, too, the supervisor keeps its members in step, authorises every channel and
\* keeps the brake latch: the node's calls, its failed takeovers included, are the supervisor's.
THEOREM SupervisorInNode ==
    ActuationSpec => [](ConsistentSupervisor /\ OutputAuthorised /\ BrakeLatchesLongitudinalOff)
  <1>1. ActuationInductive => ConsistentSupervisor
    BY DEF ActuationInductive, Supervised, Inductive, ConsistentSupervisor, Coherent, Driven
  <1>2. ActuationInductive => OutputAuthorised
    BY InductiveAuthorises DEF ActuationInductive, Supervised
  <1>3. ActuationInductive => BrakeLatchesLongitudinalOff
    BY DEF ActuationInductive, Supervised, BrakeKept, BrakeLatchesLongitudinalOff
  <1>4. QED  BY <1>1, <1>2, <1>3, ActuationInvariant, PTL
=============================================================================
