------------------------ MODULE SafetySupervisorProofs ------------------------
(***************************************************************************)
(* Proofs that SafetySupervisor keeps its invariants for every             *)
(* configuration, every set of samples and every clock bound.  What the    *)
(* operations return is in SupervisorLogicProofs.                          *)
(***************************************************************************)
EXTENDS SafetySupervisor, SupervisorLogicProofs

\* What holds in every reachable state and is kept by every step.
Inductive == TypeOK /\ Coherent(sup) /\ Driven(sup)

\* A newly constructed supervisor satisfies it.
LEMMA InductiveInit == Init => Inductive
  <1>1. InitialSupervisor \in Supervisor
    BY DEF InitialSupervisor, Supervisor, States
  <1>2. InitialDecision \in Decision
    BY DEF InitialDecision, Decision, States
  <1>3. InitialSupervisor.deadline <= MaxTime + SoftDisableTime /\ 0 \in 0..MaxTime
    BY MaxTimeAssumption, TimeAssumption DEF InitialSupervisor
  <1>4. Coherent(InitialSupervisor) /\ Driven(InitialSupervisor)
    BY DEF InitialSupervisor, Coherent, Driven, IsEngaged
  <1>5. QED  BY <1>1, <1>2, <1>3, <1>4 DEF Init, Inductive, TypeOK

\* The operations with any well-formed sample, so that a module with samples of its own can use
\* what is proved of a step.
SupervisorStep ==
    \/ \E arm \in BOOLEAN : RequestArm(arm)
    \/ \E sample \in Sample : Update(sample)
    \/ \E button \in Buttons : Press(button)
    \/ Tick

\* The steps of this module are among them.
LEMMA NextIsStep == Next => SupervisorStep
  BY SamplesAssumption DEF Next, SupervisorStep

\* Every operation, on any sample, keeps it.
LEMMA InductiveStep == Inductive /\ [SupervisorStep]_vars => Inductive'
  <1> SUFFICES ASSUME Inductive, [SupervisorStep]_vars
               PROVE  Inductive'
    OBVIOUS
  <1> USE DEF Inductive
  <1>1. /\ sup \in Supervisor /\ sup.deadline <= MaxTime + SoftDisableTime /\ sup.deadline \in Nat
        /\ unseen \subseteq Buttons /\ decision \in Decision /\ now \in 0..MaxTime
        /\ braked \in BOOLEAN /\ paused_since \in 0..MaxTime /\ now \in Nat
        /\ MaxTime \in Nat /\ SoftDisableTime \in Nat
    BY MaxTimeAssumption, TimeAssumption DEF TypeOK, Supervisor
  <1>2. ASSUME NEW arm \in BOOLEAN, RequestArm(arm)
        PROVE  Inductive'
    <2>1. /\ sup' \in Supervisor /\ sup'.deadline \in {0, sup.deadline}
          /\ Coherent(sup') /\ Driven(sup')
      BY <1>1, <1>2, RequestArmedFacts DEF RequestArm
    <2>2. braked' \in BOOLEAN
      BY <1>2 DEF RequestArm
    <2>3. UNCHANGED <<unseen, decision, now, paused_since>>
      BY <1>2 DEF RequestArm
    <2>4. QED  BY <1>1, <2>1, <2>2, <2>3 DEF TypeOK
  <1>3. ASSUME NEW sample \in Sample, Update(sample)
        PROVE  Inductive'
    <2> DEFINE r == Updated(sup, unseen, sample, now)
    <2>1. /\ r \in Verdicts /\ Coherent(r.to) /\ Driven(r.to)
          /\ r.to.state = "SoftDisabling" =>
                \/ r.to.deadline = now + SoftDisableTime
                \/ r.to.deadline = sup.deadline
      BY <1>1, UpdatedFacts
    <2>2. /\ sup' = r.to /\ decision' = DecisionOf(r, now) /\ now' = now
          /\ unseen' \in {{}, unseen}
          /\ braked' = BrakedAfter(sample.vehicle, sample.panda)
          /\ paused_since' \in {0, now, paused_since}
      BY <1>3 DEF Update
    <2> HIDE DEF r
    <2>3. sup' \in Supervisor
      BY <2>1, <2>2 DEF Verdicts
    <2>4. sup'.deadline <= MaxTime + SoftDisableTime
      <3>1. CASE sup'.state = "SoftDisabling"
        BY <1>1, <2>1, <2>2, <3>1
      <3>2. CASE sup'.state # "SoftDisabling"
        <4>1. sup'.deadline = 0
          BY <2>1, <2>2, <3>2 DEF Coherent
        <4>2. QED  BY <1>1, <4>1
      <3>3. QED  BY <3>1, <3>2
    <2>5. decision' \in Decision
      BY <1>1, <2>1, <2>2, DecisionIsTyped
    <2>6. braked' \in BOOLEAN
      <3>1. sample.vehicle.brake_pressed \in BOOLEAN
        BY DEF Sample, Vehicle
      <3>2. QED  BY <1>1, <2>2, <3>1 DEF BrakedAfter
    <2>7. unseen' \subseteq Buttons /\ paused_since' \in 0..MaxTime
      BY <1>1, <2>2
    <2>8. QED  BY <1>1, <2>1, <2>2, <2>3, <2>4, <2>5, <2>6, <2>7 DEF TypeOK
  <1>4. ASSUME NEW button \in Buttons, Press(button)
        PROVE  Inductive'
    BY <1>1, <1>4 DEF Press, TypeOK
  <1>5. CASE Tick
    BY <1>1, <1>5 DEF Tick, TypeOK
  <1>6. CASE UNCHANGED vars
    BY <1>1, <1>6 DEF vars, TypeOK
  <1>7. QED  BY <1>2, <1>3, <1>4, <1>5, <1>6 DEF SupervisorStep

\* So it holds in every reachable state of the supervisor.
THEOREM InductiveInvariant == Spec => []Inductive
  BY InductiveInit, InductiveStep, NextIsStep, PTL DEF Spec

\* Every variable keeps its type; in particular no pause reaches beyond the clock's bound plus
\* one soft-disable window.
THEOREM TypeCorrect == Spec => []TypeOK
  <1>1. Inductive => TypeOK
    BY DEF Inductive
  <1>2. QED  BY <1>1, InductiveInvariant, PTL

\* request_arm and every early return of update keep the members in step.
THEOREM Consistency == Spec => []ConsistentSupervisor
  <1>1. Inductive => ConsistentSupervisor
    BY DEF Inductive, ConsistentSupervisor, Coherent, Driven
  <1>2. QED  BY <1>1, InductiveInvariant, PTL

\* In a state that satisfies it, whatever sample comes next, every gate stands behind a channel
\* that transmits.
LEMMA InductiveAuthorises == Inductive => OutputAuthorised
  <1> SUFFICES ASSUME Inductive, NEW sample \in Samples
               PROVE  LET v == sample.vehicle
                          p == sample.panda
                          c == sample.command
                          r == Updated(sup, unseen, sample, now)
                      IN  r.lateral \/ r.longitudinal =>
                            /\ sup.arm_requested /\ r.to.arm_requested /\ IsEngaged(r.to.state)
                            /\ PandaFresh(p) /\ ~HealthFault(p) /\ p.harness_ok
                            /\ p.controls_allowed /\ ConfiguredMode(p)
                            /\ ResumeOnCommandReturn => p.ignition_on /\ p.session_ready
                            /\ CommandFresh(c) /\ c.valid /\ c.enable
                            /\ ~VehicleFault(v)
                            /\ r.lateral => ~v.eps_fault
                            /\ r.longitudinal =>
                                  ~(v.brake_pressed /\ LongitudinalDisengageOnBrake)
    BY DEF OutputAuthorised
  <1> DEFINE r == Updated(sup, unseen, sample, now)
  <1>1. sample \in Sample /\ now \in Nat /\ sup \in Supervisor /\ Coherent(sup)
    BY SamplesAssumption, MaxTimeAssumption DEF Inductive, TypeOK
  <1>2. /\ r.lateral \/ r.longitudinal =>
              /\ sup.arm_requested /\ r.to.arm_requested /\ IsEngaged(r.to.state)
              /\ PandaFresh(sample.panda) /\ ~HealthFault(sample.panda)
              /\ ~PlatformFault(sample.panda) /\ ~VehicleFault(sample.vehicle)
              /\ ConfiguredMode(sample.panda)
        /\ r.longitudinal => ~BrakeDisengages(sample.vehicle)
        /\ PassedCommandGates(sample.vehicle, sample.panda, sample.command, r)
    BY <1>1, UpdatedFacts
  <1> HIDE DEF r
  <1>3. QED
    BY <1>2 DEF r, PassedCommandGates, PlatformFault, BrakeDisengages

\* update lets a channel transmit only when every gate of the code holds in that one sample.
THEOREM Authorisation == Spec => []OutputAuthorised
  BY InductiveAuthorises, InductiveInvariant, PTL

-----------------------------------------------------------------------------
(* The fault latch *)

\* A supervisor that may not actuate is never faulted: update disarms it before it judges.
FaultNeedsActuation == sup.state = "Fault" => AllowActuation

\* A latched fault is left only by an arm or disarm request, or by an update without a fresh Panda:
\* no button, command or recovered health sample clears it.
THEOREM FaultLatch == Spec => FaultIsLatched
  <1>1. Init => FaultNeedsActuation
    BY DEF Init, FaultNeedsActuation, InitialSupervisor
  <1>2. Inductive /\ FaultNeedsActuation /\ [Next]_vars => FaultNeedsActuation'
    <2> SUFFICES ASSUME Inductive, FaultNeedsActuation, [Next]_vars, sup'.state = "Fault"
                 PROVE  AllowActuation
      BY DEF FaultNeedsActuation
    <2>1. sup \in Supervisor /\ Coherent(sup) /\ Driven(sup) /\ now \in Nat
      BY MaxTimeAssumption DEF Inductive, TypeOK
    <2>2. CASE \E arm \in BOOLEAN : RequestArm(arm)
      BY <2>1, <2>2, RequestArmedFacts DEF RequestArm
    <2>3. CASE \E sample \in Samples : Update(sample)
      BY <2>1, <2>3, SamplesAssumption, UpdatedFacts DEF Update
    <2>4. CASE (\E button \in Buttons : Press(button)) \/ Tick \/ UNCHANGED vars
      BY <2>4 DEF Press, Tick, vars, FaultNeedsActuation
    <2>5. QED  BY <2>2, <2>3, <2>4 DEF Next
  <1>3. Inductive /\ FaultNeedsActuation /\ [Next]_vars =>
            [sup.state = "Fault" /\ sup'.state # "Fault" =>
                \/ \E arm \in BOOLEAN : RequestArm(arm)
                \/ \E sample \in Samples : ~PandaFresh(sample.panda) /\ Update(sample)]_vars
    <2> SUFFICES ASSUME Inductive, FaultNeedsActuation, Next,
                        sup.state = "Fault", sup'.state # "Fault"
                 PROVE  \/ \E arm \in BOOLEAN : RequestArm(arm)
                        \/ \E sample \in Samples : ~PandaFresh(sample.panda) /\ Update(sample)
      OBVIOUS
    <2>1. ASSUME NEW sample \in Samples, Update(sample)
          PROVE  ~PandaFresh(sample.panda)
      <3>1. sample \in Sample /\ now \in Nat /\ sup \in Supervisor /\ Coherent(sup)
        BY SamplesAssumption, MaxTimeAssumption DEF Inductive, TypeOK
      <3>2. SamplesButtons(sample.panda) =>
                Updated(sup, unseen, sample, now).to.state = "Fault"
        BY <3>1, UpdatedFacts
      <3>3. ~SamplesButtons(sample.panda)
        BY <2>1, <3>2 DEF Update
      <3>4. QED  BY <3>3 DEF SamplesButtons, FaultNeedsActuation
    <2>2. CASE (\E button \in Buttons : Press(button)) \/ Tick
      BY <2>2 DEF Press, Tick
    <2>3. QED  BY <2>1, <2>2 DEF Next
  <1>4. QED  BY <1>1, <1>2, <1>3, InductiveInvariant, PTL DEF Spec, FaultIsLatched

-----------------------------------------------------------------------------
(* The soft-disable window *)

\* The deadline is set once, when the pause begins, and only counted from there.
WindowKept == sup.state = "SoftDisabling" => sup.deadline = paused_since + SoftDisableTime

\* An EPS pause is never longer than kSoftDisableTime: the deadline never moves, and past it no
\* sample leaves the supervisor engaged.
THEOREM FixedWindow == Spec => []SoftDisableWindowIsFixed
  <1>1. Init => WindowKept
    BY DEF Init, WindowKept, InitialSupervisor
  <1>2. Inductive /\ WindowKept /\ [Next]_vars => WindowKept'
    <2> SUFFICES ASSUME Inductive, WindowKept, [Next]_vars
                 PROVE  WindowKept'
      OBVIOUS
    <2>1. sup \in Supervisor /\ Coherent(sup) /\ Driven(sup) /\ now \in Nat
      BY MaxTimeAssumption DEF Inductive, TypeOK
    <2>2. ASSUME NEW arm \in BOOLEAN, RequestArm(arm)
          PROVE  WindowKept'
      <3>1. sup'.deadline \in {0, sup.deadline} /\ Coherent(sup') /\ paused_since' = paused_since
        BY <2>1, <2>2, RequestArmedFacts DEF RequestArm
      <3>2. sup'.state = "SoftDisabling" => sup'.deadline = sup.deadline /\ sup.deadline # 0
        BY <3>1 DEF Coherent
      <3>3. QED  BY <2>1, <3>1, <3>2 DEF Coherent, WindowKept
    <2>3. ASSUME NEW sample \in Samples, Update(sample)
          PROVE  WindowKept'
      <3> DEFINE r == Updated(sup, unseen, sample, now)
      <3>1. r.to.state = "SoftDisabling" =>
                \/ sup.state = "Active" /\ r.to.deadline = now + SoftDisableTime
                \/ sup.state = "SoftDisabling" /\ r.to.deadline = sup.deadline
        BY <2>1, SamplesAssumption, UpdatedFacts
      <3>2. /\ sup' = r.to
            /\ paused_since' = IF r.to.state # "SoftDisabling" THEN 0
                               ELSE IF sup.state = "Active" THEN now ELSE paused_since
        BY <2>3 DEF Update
      <3> HIDE DEF r
      <3>3. QED  BY <3>1, <3>2 DEF WindowKept
    <2>4. CASE (\E button \in Buttons : Press(button)) \/ Tick \/ UNCHANGED vars
      BY <2>4 DEF Press, Tick, vars, WindowKept
    <2>5. QED  BY <2>2, <2>3, <2>4 DEF Next
  <1>3. Inductive /\ WindowKept => SoftDisableWindowIsFixed
    <2> SUFFICES ASSUME Inductive, WindowKept, sup.state = "SoftDisabling",
                        now >= paused_since + SoftDisableTime, NEW sample \in Samples
                 PROVE  ~IsEngaged(Updated(sup, unseen, sample, now).to.state)
      BY DEF SoftDisableWindowIsFixed, WindowKept
    <2> DEFINE r == Updated(sup, unseen, sample, now)
    <2>1. sup \in Supervisor /\ Coherent(sup) /\ now \in Nat /\ paused_since \in Nat
      BY MaxTimeAssumption DEF Inductive, TypeOK
    <2>2. r.to.state = "SoftDisabling" \/ r.to.state = "Active" => now < sup.deadline
      BY <2>1, SamplesAssumption, UpdatedFacts
    <2>3. ~(now < sup.deadline)
      BY <2>1, TimeAssumption DEF WindowKept
    <2> HIDE DEF r
    <2>4. ~IsEngaged(r.to.state)
      BY <2>2, <2>3 DEF IsEngaged
    <2>5. QED  BY <2>4 DEF r
  <1>4. QED  BY <1>1, <1>2, <1>3, InductiveInvariant, PTL DEF Spec

-----------------------------------------------------------------------------
(* The brake latch *)

\* In the resume profile the firmware may keep longitudinal selected after the brake, so the
\* latch has to be there too; otherwise the cleared selection is enough.
LongitudinalLost(s) ==
    ~LongitudinalRequested(s) /\ (ResumeOnCommandReturn => s.longitudinal_latched_off)

BrakeKept ==
    braked /\ LongitudinalDisengageOnBrake =>
        /\ LongitudinalLost(sup)
        /\ ~decision.longitudinal_armed /\ ~decision.longitudinal_allowed

\* request_arm never selects longitudinal, and clears the latch only when it arms anew.
LEMMA RequestKeepsLost ==
    ASSUME NEW s \in Supervisor, NEW arm \in BOOLEAN, LongitudinalLost(s),
           ~(arm /\ AllowActuation /\ ~s.arm_requested)
    PROVE  LongitudinalLost(RequestArmed(s, arm))
  <1>1. CASE ~arm
    <2>1. RequestArmed(s, arm) = Unarmed(s, IF s.state = "Disconnected" THEN "Disconnected" ELSE "Passive")
      BY <1>1 DEF RequestArmed, ArmRefused
    <2>2. QED  BY <2>1, UnarmedFacts DEF LongitudinalLost, LongitudinalRequested
  <1>2. CASE arm /\ ~AllowActuation
    <2>1. RequestArmed(s, arm) = Transition(s, "Passive")
      BY <1>2 DEF RequestArmed, ArmRefused
    <2>2. QED  BY <2>1, TransitionFacts DEF LongitudinalLost, LongitudinalRequested, States
  <1>3. CASE arm /\ AllowActuation
    <2>1. RequestArmed(s, arm) = Rearmed(Acknowledged(s))
      BY <1>3 DEF RequestArmed, ArmRefused
    <2>2. /\ Acknowledged(s).arm_requested
          /\ Acknowledged(s).longitudinal_enabled = s.longitudinal_enabled
          /\ Acknowledged(s).longitudinal_latched_off = s.longitudinal_latched_off
      BY <1>3, TransitionFacts DEF Acknowledged, States
    <2>3. QED  BY <2>1, <2>2 DEF Rearmed, LongitudinalLost, LongitudinalRequested
  <1>4. QED  BY <1>1, <1>2, <1>3, ConfigAssumption

\* Selection and intervention: a pressed brake takes longitudinal, and without an accepted SET
\* nothing brings it back.
LEMMA PreparedKeepsLost ==
    ASSUME NEW s \in Supervisor, NEW v \in Vehicle, NEW p \in PandaHealth, NEW events, Coherent(s),
           LongitudinalDisengageOnBrake,
           \/ v.brake_pressed
           \/ /\ LongitudinalLost(s)
              /\ ~("set" \in events /\ s.arm_requested /\ ~v.brake_pressed /\ ~v.acc_fault)
    PROVE  LongitudinalLost(Prepared(s, v, p, events))
  <1> DEFINE sel == Selection(s, v, p, events)
             i == Intervened(sel, v)
             t == Prepared(s, v, p, events)
  <1>1. sel \in Supervisor /\ Coherent(sel)
    BY SelectionFacts DEF SameStage
  <1>2. /\ i.longitudinal_enabled => sel.longitudinal_enabled /\ ~BrakeDisengages(v)
        /\ i.longitudinal_latched_off =
              (sel.longitudinal_latched_off \/ BrakeDisengages(v) \/ AccFaultDisengages(sel, v))
        /\ AccFaultDisengages(sel, v) => ~i.longitudinal_enabled
    BY <1>1, IntervenedFacts
  <1>3. /\ t.longitudinal_enabled => i.longitudinal_enabled
        /\ i.longitudinal_latched_off => t.longitudinal_latched_off
    BY PreparedFacts
  <1>4. LongitudinalLost(i)
    <2>1. CASE v.brake_pressed
      BY <1>2, <2>1 DEF BrakeDisengages, LongitudinalLost, LongitudinalRequested
    <2>2. CASE ~v.brake_pressed /\ ~s.arm_requested
      <3>1. sel = s /\ LongitudinalLost(s)
        BY <2>2 DEF Selection
      <3>2. QED  BY <1>2, <3>1 DEF LongitudinalLost, LongitudinalRequested
    <2>3. CASE ~v.brake_pressed /\ s.arm_requested /\ ResumeOnCommandReturn
      <3>1. sel = SessionSelection(s, v, p, "set" \in events)
        BY <2>3 DEF Selection
      <3>2. sel.longitudinal_latched_off /\ ~sel.longitudinal_enabled
        BY <2>3, <3>1 DEF SessionSelection, LongitudinalLost, Supervisor
      <3>3. QED  BY <1>2, <3>2 DEF LongitudinalLost, LongitudinalRequested
    <2>4. CASE ~v.brake_pressed /\ s.arm_requested /\ ~ResumeOnCommandReturn /\ "set" \notin events
      <3>1. sel = AfterLaneKeep(s, events) /\ LongitudinalLost(s)
        BY <2>4 DEF Selection, ToggledSelection
      <3>2. sel.longitudinal_enabled => s.longitudinal_enabled
        BY <3>1 DEF AfterLaneKeep, LaneKeepSelection, Supervisor
      <3>3. QED  BY <1>2, <2>4, <3>1, <3>2 DEF LongitudinalLost, LongitudinalRequested
    <2>5. CASE ~v.brake_pressed /\ s.arm_requested /\ ~ResumeOnCommandReturn /\ "set" \in events
      <3>1. v.acc_fault /\ ~BrakeDisengages(v)
        BY <2>5 DEF BrakeDisengages
      <3>2. AllowLongitudinal => ~i.longitudinal_enabled
        BY <1>2, <3>1 DEF AccFaultDisengages
      <3>3. QED  BY <2>5, <3>2 DEF LongitudinalLost, LongitudinalRequested
    <2>6. v.brake_pressed \in BOOLEAN
      BY DEF Vehicle
    <2>7. QED  BY <2>1, <2>2, <2>3, <2>4, <2>5, <2>6
  <1>5. QED  BY <1>3, <1>4 DEF LongitudinalLost, LongitudinalRequested

\* The verdict never adds longitudinal to what the first part of update left.
LEMMA UpdatedKeepsLost ==
    ASSUME NEW s \in Supervisor, NEW events, NEW sample \in Sample, NEW at \in Nat, Coherent(s),
           IF SamplesButtons(sample.panda)
           THEN LongitudinalLost(Prepared(s, sample.vehicle, sample.panda, events))
           ELSE LongitudinalLost(s)
    PROVE  LET r == Updated(s, events, sample, at)
           IN  LongitudinalLost(r.to) /\ ~r.longitudinal
  <1> DEFINE p == sample.panda
             r == Updated(s, events, sample, at)
             t == Prepared(s, sample.vehicle, p, events)
  <1>1. sample.vehicle \in Vehicle /\ p \in PandaHealth /\ sample.command \in Command
    BY DEF Sample
  <1>2. CASE ~SamplesButtons(p)
    <2>1. r = Quiet(Unarmed(s, "Disconnected")) \/ r = Quiet(Unarmed(s, "Passive"))
      BY <1>2 DEF Updated, SamplesButtons
    <2>2. ASSUME NEW next \in {"Disconnected", "Passive"}
          PROVE  LongitudinalLost(Unarmed(s, next))
      BY <1>2, UnarmedFacts DEF LongitudinalLost, LongitudinalRequested
    <2>3. QED  BY <2>1, <2>2 DEF Quiet, Verdict
  <1>3. CASE SamplesButtons(p)
    <2>1. r = Judged(t, sample.vehicle, p, sample.command, events, at)
      BY <1>3 DEF Updated, SamplesButtons
    <2>2. t \in Supervisor /\ Coherent(t)
      BY <1>1, PreparedFacts
    <2>3. SoundVerdict(t, r, at)
      BY <1>1, <2>1, <2>2, JudgedIsSound
    <2>4. LongitudinalLost(t)
      BY <1>3
    <2> HIDE DEF r, t
    <2>5. LongitudinalLost(r.to) /\ ~r.longitudinal
      BY <2>3, <2>4 DEF SoundVerdict, LongitudinalLost
    <2>6. QED  BY <2>5 DEF r
  <1>4. QED  BY <1>2, <1>3

\* No step of the supervisor gives longitudinal back while the brake is remembered.
LEMMA BrakeKeptStep == Inductive /\ BrakeKept /\ [SupervisorStep]_vars => BrakeKept'
  <1> SUFFICES ASSUME Inductive, BrakeKept, [SupervisorStep]_vars, braked', LongitudinalDisengageOnBrake
               PROVE  /\ LongitudinalLost(sup')
                      /\ ~decision'.longitudinal_armed /\ ~decision'.longitudinal_allowed
    BY DEF BrakeKept
  <1>1. sup \in Supervisor /\ Coherent(sup) /\ now \in Nat
    BY MaxTimeAssumption DEF Inductive, TypeOK
  <1>2. CASE \E arm \in BOOLEAN : RequestArm(arm)
    <2>1. PICK arm \in BOOLEAN : RequestArm(arm)
      BY <1>2
    <2>2. braked /\ ~(arm /\ AllowActuation /\ ~sup.arm_requested)
      BY <2>1 DEF RequestArm
    <2>3. sup' = RequestArmed(sup, arm) /\ decision' = decision
      BY <2>1 DEF RequestArm
    <2>4. QED  BY <1>1, <2>2, <2>3, RequestKeepsLost DEF BrakeKept
  <1>3. ASSUME NEW sample \in Sample, Update(sample)
        PROVE  /\ LongitudinalLost(sup')
               /\ ~decision'.longitudinal_armed /\ ~decision'.longitudinal_allowed
    <2> DEFINE r == Updated(sup, unseen, sample, now)
               v == sample.vehicle
    <2>1. sample \in Sample /\ v \in Vehicle /\ sample.panda \in PandaHealth
      BY DEF Sample
    <2>2. BrakedAfter(v, sample.panda)
      BY <1>3 DEF Update
    <2>3. CASE SamplesButtons(sample.panda)
      <3>1. \/ v.brake_pressed
            \/ /\ LongitudinalLost(sup)
               /\ ~("set" \in unseen /\ sup.arm_requested /\ ~v.brake_pressed /\ ~v.acc_fault)
        BY <2>2, <2>3 DEF BrakedAfter, BrakeKept
      <3>2. LongitudinalLost(Prepared(sup, v, sample.panda, unseen))
        BY <1>1, <2>1, <3>1, PreparedKeepsLost
      <3>3. LongitudinalLost(r.to) /\ ~r.longitudinal
        BY <1>1, <2>1, <2>3, <3>2, UpdatedKeepsLost
      <3>4. QED  BY <1>3, <3>3 DEF Update, DecisionOf, LongitudinalLost
    <2>4. CASE ~SamplesButtons(sample.panda)
      <3>1. LongitudinalLost(sup)
        BY <2>2, <2>4 DEF BrakedAfter, BrakeKept
      <3>2. LongitudinalLost(r.to) /\ ~r.longitudinal
        BY <1>1, <2>1, <2>4, <3>1, UpdatedKeepsLost
      <3>3. QED  BY <1>3, <3>2 DEF Update, DecisionOf, LongitudinalLost
    <2>5. QED  BY <2>3, <2>4
  <1>4. CASE (\E button \in Buttons : Press(button)) \/ Tick \/ UNCHANGED vars
    BY <1>4 DEF Press, Tick, vars, BrakeKept
  <1>5. QED  BY <1>2, <1>3, <1>4 DEF SupervisorStep

\* Longitudinal stays off from the brake press until an accepted SET or a new arming.
THEOREM BrakeLatch == Spec => []BrakeLatchesLongitudinalOff
  <1>1. Init => BrakeKept
    BY DEF Init, BrakeKept
  <1>2. BrakeKept => BrakeLatchesLongitudinalOff
    BY DEF BrakeKept, BrakeLatchesLongitudinalOff
  <1>3. QED  BY <1>1, <1>2, BrakeKeptStep, NextIsStep, InductiveInvariant, PTL DEF Spec
=============================================================================
