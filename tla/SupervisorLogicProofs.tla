-------------------------- MODULE SupervisorLogicProofs --------------------------
(***************************************************************************)
(* What request_arm and update return, for every configuration and every   *)
(* sample: the lemmas that the proofs about the state machines which call  *)
(* them rest on.                                                           *)
(*                                                                         *)
(* update() is a pipeline: select channels, intervene, check the Panda,    *)
(* judge.  Coherent is what holds between its stages; ConsistentSupervisor *)
(* is Coherent and, again at the end, a channel for an engaged state.      *)
(***************************************************************************)
EXTENDS SupervisorLogic, TLAPS

Coherent(s) ==
    /\ ~s.arm_requested =>
          /\ ~s.lateral_enabled /\ ~s.longitudinal_enabled
          /\ s.state \in {"Disconnected", "Passive", "Fault"}
    /\ s.state = "Fault" => ~s.arm_requested
    /\ (s.deadline # 0) <=> (s.state = "SoftDisabling")

Driven(s) == IsEngaged(s.state) => LateralRequested(s) \/ LongitudinalRequested(s)

\* t differs from s at most in the selection and the brake latch.
SameStage(s, t) ==
    /\ t \in Supervisor
    /\ t.state = s.state /\ t.arm_requested = s.arm_requested /\ t.deadline = s.deadline

-----------------------------------------------------------------------------
(* The operators *)

\* transition() sets the state and keeps a deadline only for SoftDisabling.
LEMMA TransitionFacts ==
    ASSUME NEW s \in Supervisor, NEW next \in States
    PROVE  /\ Transition(s, next) \in Supervisor
           /\ Transition(s, next).state = next
           /\ Transition(s, next).deadline = IF next = "SoftDisabling" THEN s.deadline ELSE 0
           /\ Transition(s, next).arm_requested = s.arm_requested
           /\ Transition(s, next).lateral_enabled = s.lateral_enabled
           /\ Transition(s, next).longitudinal_enabled = s.longitudinal_enabled
           /\ Transition(s, next).longitudinal_latched_off = s.longitudinal_latched_off
  BY DEF Transition, Supervisor

\* disarm(), fault() and the OFF branches clear the request, the selection and the deadline.
LEMMA UnarmedFacts ==
    ASSUME NEW s \in Supervisor, NEW next \in {"Disconnected", "Passive", "Fault"}
    PROVE  /\ Unarmed(s, next) \in Supervisor
           /\ Unarmed(s, next).state = next
           /\ Unarmed(s, next).deadline = 0
           /\ ~Unarmed(s, next).arm_requested
           /\ ~Unarmed(s, next).lateral_enabled
           /\ ~Unarmed(s, next).longitudinal_enabled
           /\ Unarmed(s, next).longitudinal_latched_off = s.longitudinal_latched_off
  BY DEF Unarmed, Transition, Supervisor, States

\* So what they leave is consistent.
LEMMA UnarmedIsConsistent ==
    ASSUME NEW s \in Supervisor, NEW next \in {"Disconnected", "Passive", "Fault"}
    PROVE  Coherent(Unarmed(s, next)) /\ Driven(Unarmed(s, next))
  BY UnarmedFacts DEF Coherent, Driven, IsEngaged

\* request_arm keeps the members in step.
LEMMA RequestArmedFacts ==
    ASSUME NEW s \in Supervisor, NEW arm \in BOOLEAN, Coherent(s), Driven(s)
    PROVE  /\ RequestArmed(s, arm) \in Supervisor
           /\ RequestArmed(s, arm).deadline \in {0, s.deadline}
           /\ Coherent(RequestArmed(s, arm)) /\ Driven(RequestArmed(s, arm))
           /\ RequestArmed(s, arm).state = "Fault" => AllowActuation
  <1>1. CASE ~arm
    <2>1. RequestArmed(s, arm) = Unarmed(s, IF s.state = "Disconnected" THEN "Disconnected" ELSE "Passive")
      BY <1>1 DEF RequestArmed, ArmRefused
    <2>2. QED  BY <2>1, UnarmedFacts, UnarmedIsConsistent
  <1>2. CASE arm /\ ~AllowActuation
    <2>1. RequestArmed(s, arm) = Transition(s, "Passive")
      BY <1>2 DEF RequestArmed, ArmRefused
    <2>2. QED  BY <2>1, TransitionFacts DEF Coherent, Driven, IsEngaged, States
  <1>3. CASE arm /\ AllowActuation
    <2>1. RequestArmed(s, arm) = Rearmed(Acknowledged(s))
      BY <1>3 DEF RequestArmed, ArmRefused
    <2>2. /\ Acknowledged(s) \in Supervisor /\ Coherent(Acknowledged(s)) /\ Driven(Acknowledged(s))
          /\ Acknowledged(s).deadline \in {0, s.deadline} /\ Acknowledged(s).state # "Fault"
      BY TransitionFacts DEF Acknowledged, Coherent, Driven, IsEngaged, States
    <2>3. QED
      BY <2>1, <2>2 DEF Rearmed, Coherent, Driven, IsEngaged, Supervisor
  <1>4. QED  BY <1>1, <1>2, <1>3, ConfigAssumption

-----------------------------------------------------------------------------
(* update(), lines 92-179: selection, intervention, Panda checks *)

\* The button selection changes nothing but the selection and the latch, and nothing at all
\* without an arm request.
LEMMA SelectionFacts ==
    ASSUME NEW s \in Supervisor, NEW v \in Vehicle, NEW p \in PandaHealth, NEW events,
           Coherent(s)
    PROVE  LET t == Selection(s, v, p, events)
           IN  SameStage(s, t) /\ Coherent(t)
  <1>1. CASE ~s.arm_requested
    BY <1>1 DEF Selection, SameStage
  <1>2. CASE s.arm_requested /\ ResumeOnCommandReturn
    <2>1. Selection(s, v, p, events) = SessionSelection(s, v, p, "set" \in events)
      BY <1>2 DEF Selection
    <2>2. QED  BY <1>2, <2>1, ZenonT(40) DEF SessionSelection, SameStage, Coherent, Supervisor, PandaHealth
  <1>3. CASE s.arm_requested /\ ~ResumeOnCommandReturn
    <2>1. Selection(s, v, p, events) = ToggledSelection(s, events)
      BY <1>3 DEF Selection
    <2>2. SameStage(s, AfterLaneKeep(s, events))
      BY DEF AfterLaneKeep, LaneKeepSelection, LaneKeepTurnsOff, SameStage, Supervisor
    <2>3. SameStage(s, ToggledSelection(s, events))
      BY <2>2 DEF ToggledSelection, SetSelection, SetTurnsOff, SameStage, Supervisor
    <2>4. QED  BY <1>3, <2>1, <2>3 DEF SameStage, Coherent
  <1>4. QED  BY <1>1, <1>2, <1>3, ConfigAssumption

\* Brake and ACC fault only take channels away.
LEMMA IntervenedFacts ==
    ASSUME NEW s \in Supervisor, NEW v \in Vehicle, Coherent(s)
    PROVE  LET t == Intervened(s, v)
           IN  /\ SameStage(s, t) /\ Coherent(t)
               /\ t.longitudinal_enabled => s.longitudinal_enabled /\ ~BrakeDisengages(v)
               /\ t.longitudinal_latched_off =
                     (s.longitudinal_latched_off \/ BrakeDisengages(v) \/ AccFaultDisengages(s, v))
               /\ AccFaultDisengages(s, v) => ~t.longitudinal_enabled
  BY ConfigAssumption, ZenonT(40)
  DEF Intervened, SameStage, Coherent, Supervisor, Vehicle, BrakeDisengages, AccFaultDisengages

\* The Panda checks fault, or at most take longitudinal away and latch it off.
LEMMA PandaCheckedFacts ==
    ASSUME NEW s \in Supervisor, NEW p \in PandaHealth, NEW turned_off, NEW by_brake, Coherent(s)
    PROVE  LET t == PandaChecked(s, p, turned_off, by_brake)
           IN  /\ t \in Supervisor /\ Coherent(t)
               /\ t = Faulted(s) \/ (SameStage(s, t) /\ ~HealthFault(p))
               /\ t.longitudinal_enabled => s.longitudinal_enabled
               /\ s.longitudinal_latched_off => t.longitudinal_latched_off
  <1>1. /\ Faulted(s) \in Supervisor /\ Coherent(Faulted(s))
        /\ ~Faulted(s).longitudinal_enabled
        /\ Faulted(s).longitudinal_latched_off = s.longitudinal_latched_off
    BY UnarmedFacts, UnarmedIsConsistent DEF Faulted
  <1>2. DEFINE lost == [s EXCEPT !.longitudinal_enabled = FALSE, !.longitudinal_latched_off = TRUE]
  <1>3. /\ lost \in Supervisor /\ Coherent(lost) /\ SameStage(s, lost)
        /\ ~lost.longitudinal_enabled /\ lost.longitudinal_latched_off
    BY DEF Supervisor, Coherent, SameStage
  <1>4. SameStage(s, s)
    BY DEF SameStage
  <1>5. \/ PandaChecked(s, p, turned_off, by_brake) = Faulted(s)
        \/ PandaChecked(s, p, turned_off, by_brake) = s /\ ~HealthFault(p)
        \/ PandaChecked(s, p, turned_off, by_brake) = lost /\ ~HealthFault(p)
    BY DEF PandaChecked
  <1>6. QED  BY <1>1, <1>3, <1>4, <1>5

\* The whole first part of update().
LEMMA PreparedFacts ==
    ASSUME NEW s \in Supervisor, NEW v \in Vehicle, NEW p \in PandaHealth, NEW events,
           Coherent(s)
    PROVE  LET t == Prepared(s, v, p, events)
               i == Intervened(Selection(s, v, p, events), v)
           IN  /\ t \in Supervisor /\ Coherent(t)
               /\ t = Faulted(i) \/ (SameStage(s, t) /\ ~HealthFault(p))
               /\ t.longitudinal_enabled => i.longitudinal_enabled /\ ~BrakeDisengages(v)
               /\ i.longitudinal_latched_off => t.longitudinal_latched_off
  <1> DEFINE sel == Selection(s, v, p, events)
             i == Intervened(sel, v)
             turned_off == SelectedModeTurnedOff(s, p, events)
             by_brake == BrakeDisengages(v) /\ sel.longitudinal_enabled
  <1>1. SameStage(s, sel) /\ Coherent(sel)
    BY SelectionFacts
  <1>2. sel \in Supervisor
    BY <1>1 DEF SameStage
  <1>3. /\ SameStage(sel, i) /\ Coherent(i)
        /\ i.longitudinal_enabled => ~BrakeDisengages(v)
    BY <1>1, <1>2, IntervenedFacts
  <1>4. i \in Supervisor
    BY <1>3 DEF SameStage
  <1>5. LET t == PandaChecked(i, p, turned_off, by_brake)
        IN  /\ t \in Supervisor /\ Coherent(t)
            /\ t = Faulted(i) \/ (SameStage(i, t) /\ ~HealthFault(p))
            /\ t.longitudinal_enabled => i.longitudinal_enabled
            /\ i.longitudinal_latched_off => t.longitudinal_latched_off
    BY <1>3, <1>4, PandaCheckedFacts
  <1>6. Prepared(s, v, p, events) = PandaChecked(i, p, turned_off, by_brake)
    BY DEF Prepared
  <1>7. QED  BY <1>1, <1>3, <1>5, <1>6 DEF SameStage

-----------------------------------------------------------------------------
(* update(), lines 181-326: the verdict *)

Verdicts == [to : Supervisor, lateral : BOOLEAN, longitudinal : BOOLEAN,
             mode : BOOLEAN, heartbeat : BOOLEAN, waiting : BOOLEAN]

\* What every early return guarantees about its verdict r on the prepared supervisor s.
SoundVerdict(s, r, at) ==
    /\ r \in Verdicts /\ Coherent(r.to) /\ Driven(r.to)
    /\ r.to.longitudinal_latched_off = s.longitudinal_latched_off
    /\ r.longitudinal \/ LongitudinalRequested(r.to) => LongitudinalRequested(s)
    /\ r.longitudinal => r.to.longitudinal_enabled
    /\ r.to.arm_requested => s.arm_requested
    /\ s.state = "Fault" => r.to.state = "Fault"
    /\ r.to.state = "SoftDisabling" =>
          \/ s.state = "Active" /\ r.to.deadline = at + SoftDisableTime
          \/ s.state = "SoftDisabling" /\ r.to.deadline = s.deadline /\ at < s.deadline
    /\ r.to.state = "Active" /\ s.state = "SoftDisabling" => at < s.deadline
    /\ r.lateral \/ r.longitudinal => IsEngaged(r.to.state) /\ r.to.arm_requested

\* A quiet return to a state that is not engaged.
LEMMA QuietIsSound ==
    ASSUME NEW s \in Supervisor, NEW t \in Supervisor, NEW at, Coherent(t), ~IsEngaged(t.state),
           t.longitudinal_latched_off = s.longitudinal_latched_off,
           LongitudinalRequested(t) => LongitudinalRequested(s),
           t.arm_requested => s.arm_requested,
           s.state = "Fault" => t.state = "Fault"
    PROVE  SoundVerdict(s, Quiet(t), at)
  BY DEF SoundVerdict, Quiet, Verdict, Verdicts, Driven, IsEngaged

\* A return through fault().
LEMMA FaultedIsSound ==
    ASSUME NEW s \in Supervisor, NEW t \in Supervisor, NEW at,
           t.longitudinal_latched_off = s.longitudinal_latched_off
    PROVE  SoundVerdict(s, Quiet(Faulted(t)), at)
  <1>1. /\ Faulted(t) \in Supervisor /\ Coherent(Faulted(t)) /\ ~IsEngaged(Faulted(t).state)
        /\ Faulted(t).longitudinal_latched_off = s.longitudinal_latched_off
        /\ ~LongitudinalRequested(Faulted(t)) /\ Faulted(t).state = "Fault"
        /\ ~Faulted(t).arm_requested
    BY UnarmedFacts, UnarmedIsConsistent DEF Faulted, IsEngaged, LongitudinalRequested
  <1>2. QED  BY <1>1, QuietIsSound

\* A return through disarm().
LEMMA DisarmedIsSound ==
    ASSUME NEW s \in Supervisor, NEW at, s.state # "Fault"
    PROVE  SoundVerdict(s, Quiet(Disarmed(s)), at)
  <1>1. /\ Disarmed(s) \in Supervisor /\ Coherent(Disarmed(s)) /\ ~IsEngaged(Disarmed(s).state)
        /\ Disarmed(s).longitudinal_latched_off = s.longitudinal_latched_off
        /\ ~LongitudinalRequested(Disarmed(s)) /\ ~Disarmed(s).arm_requested
    BY UnarmedFacts, UnarmedIsConsistent DEF Disarmed, IsEngaged, LongitudinalRequested
  <1>2. QED  BY <1>1, QuietIsSound

\* A return to Armed or Passive that keeps the request and the selection.
LEMMA MovedFacts ==
    ASSUME NEW s \in Supervisor, NEW next \in {"Armed", "Passive"}, s.arm_requested
    PROVE  /\ Transition(s, next) \in Supervisor
           /\ Coherent(Transition(s, next)) /\ ~IsEngaged(Transition(s, next).state)
           /\ Transition(s, next).longitudinal_latched_off = s.longitudinal_latched_off
           /\ LongitudinalRequested(Transition(s, next)) => LongitudinalRequested(s)
  BY TransitionFacts DEF Coherent, IsEngaged, LongitudinalRequested, States

\* A return that holds the vehicle mode in Armed and drives nothing.
LEMMA OwningIsSound ==
    ASSUME NEW s \in Supervisor, NEW at, Coherent(s), s.arm_requested
    PROVE  SoundVerdict(s, Owning(s), at)
  BY MovedFacts DEF SoundVerdict, Owning, Verdict, Verdicts, Driven, IsEngaged, Coherent

\* A return that keeps the supervisor engaged, with the selection of s.
LEMMA EngagedIsSound ==
    ASSUME NEW s \in Supervisor, NEW t \in Supervisor, NEW at,
           NEW lateral \in BOOLEAN, NEW longitudinal \in BOOLEAN,
           Coherent(t), IsEngaged(t.state), t.arm_requested, s.arm_requested, s.state # "Fault",
           t.lateral_enabled = s.lateral_enabled,
           t.longitudinal_enabled = s.longitudinal_enabled,
           t.longitudinal_latched_off = s.longitudinal_latched_off,
           LateralRequested(s) \/ LongitudinalRequested(s),
           longitudinal => LongitudinalRequested(s),
           t.state = "SoftDisabling" =>
              \/ s.state = "Active" /\ t.deadline = at + SoftDisableTime
              \/ s.state = "SoftDisabling" /\ t.deadline = s.deadline /\ at < s.deadline,
           t.state = "Active" /\ s.state = "SoftDisabling" => at < s.deadline
    PROVE  LET r == Verdict(t, lateral, longitudinal, TRUE, TRUE, FALSE)
           IN  SoundVerdict(s, r, at) /\ r.lateral = lateral /\ r.longitudinal = longitudinal
  <1> DEFINE r == Verdict(t, lateral, longitudinal, TRUE, TRUE, FALSE)
  <1>1. /\ r \in Verdicts /\ r.to = t
        /\ r.lateral = lateral /\ r.longitudinal = longitudinal
    BY DEF Verdict, Verdicts
  <1>2. Driven(t) /\ (LongitudinalRequested(t) => LongitudinalRequested(s))
    BY DEF Driven, LateralRequested, LongitudinalRequested
  <1> HIDE DEF r
  <1>3. r.to.longitudinal_latched_off = s.longitudinal_latched_off
    BY <1>1
  <1>4. r.longitudinal \/ LongitudinalRequested(r.to) => LongitudinalRequested(s)
    BY <1>1, <1>2
  <1>5. r.longitudinal => r.to.longitudinal_enabled
    BY <1>1 DEF LongitudinalRequested
  <1>6. /\ r.to.state = "SoftDisabling" =>
              \/ s.state = "Active" /\ r.to.deadline = at + SoftDisableTime
              \/ s.state = "SoftDisabling" /\ r.to.deadline = s.deadline /\ at < s.deadline
        /\ r.to.state = "Active" /\ s.state = "SoftDisabling" => at < s.deadline
    BY <1>1
  <1>7. SoundVerdict(s, r, at)
    BY <1>1, <1>2, <1>3, <1>4, <1>5, <1>6 DEF SoundVerdict
  <1>8. QED  BY <1>1, <1>7 DEF r

\* The EPS pause and the channels, with at least one channel requested.
LEMMA ChannelsAreSound ==
    ASSUME NEW s \in Supervisor, NEW v \in Vehicle, NEW p \in PandaHealth, NEW at \in Nat,
           Coherent(s), s.arm_requested, LateralRequested(s) \/ LongitudinalRequested(s)
    PROVE  LET r == ChannelsJudged(s, v, p, at)
           IN  /\ SoundVerdict(s, r, at)
               /\ r.lateral \/ r.longitudinal => p.controls_allowed
               /\ r.lateral => ~v.eps_fault
  <1> DEFINE paused == Paused(s, v, at)
             longitudinal == LongitudinalRequested(s) /\ ~GasOverride(v)
             r == ChannelsJudged(s, v, p, at)
  <1>1. /\ paused \in Supervisor /\ Coherent(paused) /\ paused.arm_requested
        /\ paused.lateral_enabled = s.lateral_enabled
        /\ paused.longitudinal_enabled = s.longitudinal_enabled
        /\ paused.longitudinal_latched_off = s.longitudinal_latched_off
        /\ paused = s \/ /\ s.state = "Active" /\ paused.state = "SoftDisabling"
                         /\ paused.deadline = at + SoftDisableTime
    <2>1. CASE v.eps_fault /\ s.state = "Active"
      <3> DEFINE t == [s EXCEPT !.state = "SoftDisabling", !.deadline = at + SoftDisableTime]
      <3>1. paused = t
        BY <2>1 DEF Paused
      <3>2. /\ t \in Supervisor /\ t.state = "SoftDisabling"
            /\ t.deadline = at + SoftDisableTime /\ t.deadline # 0
            /\ t.arm_requested = s.arm_requested
            /\ t.lateral_enabled = s.lateral_enabled
            /\ t.longitudinal_enabled = s.longitudinal_enabled
            /\ t.longitudinal_latched_off = s.longitudinal_latched_off
        <4>1. at + SoftDisableTime \in Nat /\ at + SoftDisableTime # 0
          BY TimeAssumption
        <4>2. QED  BY <4>1 DEF Supervisor, States
      <3>3. Coherent(t)
        BY <3>2 DEF Coherent
      <3>4. QED  BY <2>1, <3>1, <3>2, <3>3
    <2>2. CASE ~(v.eps_fault /\ s.state = "Active")
      BY <2>2 DEF Paused
    <2>3. QED  BY <2>1, <2>2
  <1>2. longitudinal \in BOOLEAN /\ p.controls_allowed \in BOOLEAN /\ v.eps_fault \in BOOLEAN
        /\ s.lateral_enabled \in BOOLEAN
    BY ConfigAssumption DEF LongitudinalRequested, GasOverride, PandaHealth, Vehicle, Supervisor
  <1>3. CASE v.eps_fault /\ ~IsEngaged(s.state)
    BY <1>3, OwningIsSound DEF ChannelsJudged, Owning, Verdict
  <1>4. CASE /\ ~(v.eps_fault /\ ~IsEngaged(s.state))
             /\ paused.state = "SoftDisabling" /\ at >= paused.deadline
    <2>1. r = Quiet(Faulted(paused))
      BY <1>4 DEF ChannelsJudged
    <2>2. SoundVerdict(s, r, at)
      BY <1>1, <2>1, FaultedIsSound
    <2>3. QED  BY <2>1, <2>2 DEF Quiet, Verdict
  <1>5. CASE /\ ~(v.eps_fault /\ ~IsEngaged(s.state))
             /\ paused.state = "SoftDisabling" /\ ~(at >= paused.deadline)
             /\ v.eps_fault \/ ~p.controls_allowed
    <2>1. r = Verdict(paused, FALSE, longitudinal /\ p.controls_allowed, TRUE, TRUE, FALSE)
      BY <1>5 DEF ChannelsJudged
    <2>2. at < paused.deadline
      BY <1>1, <1>5 DEF Supervisor
    <2>3. /\ paused.state = "SoftDisabling" => \/ /\ s.state = "Active"
                                                 /\ paused.deadline = at + SoftDisableTime
                                              \/ /\ s.state = "SoftDisabling"
                                                 /\ paused.deadline = s.deadline
                                                 /\ at < s.deadline
          /\ s.state # "Fault"
      BY <1>1, <1>5, <2>2 DEF Coherent
    <2>4. (longitudinal /\ p.controls_allowed) \in BOOLEAN
      OBVIOUS
    <2>5. IsEngaged(paused.state) /\ paused.state # "Active"
      BY <1>5 DEF IsEngaged
    <2> HIDE DEF r
    <2>6. /\ SoundVerdict(s, r, at) /\ r.lateral = FALSE
          /\ r.longitudinal = (longitudinal /\ p.controls_allowed)
      BY <1>1, <2>1, <2>3, <2>4, <2>5, EngagedIsSound, ZenonT(40)
    <2>7. QED  BY <2>6 DEF r
  <1>6. CASE /\ ~(v.eps_fault /\ ~IsEngaged(s.state))
             /\ ~(paused.state = "SoftDisabling" /\ at >= paused.deadline)
             /\ ~(paused.state = "SoftDisabling" /\ (v.eps_fault \/ ~p.controls_allowed))
             /\ ~p.controls_allowed \/ ~(LateralRequested(s) \/ longitudinal)
    <2>1. r = Owning(s)
      BY <1>6 DEF ChannelsJudged
    <2>2. QED  BY <2>1, OwningIsSound DEF Owning, Verdict
  <1>7. CASE /\ ~(v.eps_fault /\ ~IsEngaged(s.state))
             /\ ~(paused.state = "SoftDisabling" /\ at >= paused.deadline)
             /\ ~(paused.state = "SoftDisabling" /\ (v.eps_fault \/ ~p.controls_allowed))
             /\ p.controls_allowed /\ (LateralRequested(s) \/ longitudinal)
    <2> DEFINE t == Transition(s, "Active")
    <2>1. r = Verdict(t, LateralRequested(s), longitudinal, TRUE, TRUE, FALSE)
      BY <1>7 DEF ChannelsJudged
    <2>2. /\ t \in Supervisor /\ t.state = "Active" /\ t.deadline = 0
          /\ t.arm_requested /\ t.lateral_enabled = s.lateral_enabled
          /\ t.longitudinal_enabled = s.longitudinal_enabled
          /\ t.longitudinal_latched_off = s.longitudinal_latched_off
      BY TransitionFacts DEF States
    <2>3. s.state = "SoftDisabling" => at < s.deadline
      BY <1>1, <1>7 DEF Supervisor
    <2>4. ~v.eps_fault
      BY <1>1, <1>7 DEF IsEngaged, Paused, Supervisor
    <2>5. Coherent(t) /\ s.state # "Fault" /\ IsEngaged(t.state)
      BY <2>2 DEF Coherent, IsEngaged
    <2> DEFINE lateral == LateralRequested(s)
    <2>6. lateral \in BOOLEAN /\ (longitudinal => LongitudinalRequested(s))
      BY <1>2 DEF LateralRequested
    <2>7. r = Verdict(t, lateral, longitudinal, TRUE, TRUE, FALSE)
      BY <2>1
    <2> HIDE DEF r, t, longitudinal, lateral
    <2>8. SoundVerdict(s, r, at) /\ r.lateral = lateral /\ r.longitudinal = longitudinal
      <3>1. longitudinal \in BOOLEAN /\ lateral \in BOOLEAN /\ t \in Supervisor
        BY <1>2, <2>2, <2>6
      <3>2. /\ t.state = "SoftDisabling" =>
                  \/ s.state = "Active" /\ t.deadline = at + SoftDisableTime
                  \/ s.state = "SoftDisabling" /\ t.deadline = s.deadline /\ at < s.deadline
            /\ t.state = "Active" /\ s.state = "SoftDisabling" => at < s.deadline
        BY <2>2, <2>3
      <3>3. LET q == Verdict(t, lateral, longitudinal, TRUE, TRUE, FALSE)
            IN  SoundVerdict(s, q, at) /\ q.lateral = lateral /\ q.longitudinal = longitudinal
        BY <2>2, <2>5, <2>6, <3>1, <3>2, EngagedIsSound, ZenonT(40)
      <3>4. QED  BY <2>7, <3>3
    <2>9. QED  BY <1>7, <2>4, <2>8 DEF r
  <1>8. QED  BY <1>2, <1>3, <1>4, <1>5, <1>6, <1>7

\* Lines 233-326 let a channel transmit only past the command, session and Panda gates.
PassedCommandGates(v, p, c, r) ==
    /\ r.lateral \/ r.longitudinal =>
          /\ CommandFresh(c) /\ c.valid /\ c.enable
          /\ ResumeOnCommandReturn => p.session_ready
          /\ ~StandbyMode(p) /\ p.controls_allowed
    /\ r.lateral => ~v.eps_fault

\* A quiet or owning return drives nothing, so it passes every gate.
LEMMA SilentPassesGates ==
    ASSUME NEW v, NEW p, NEW c, NEW t
    PROVE  /\ PassedCommandGates(v, p, c, Quiet(t))
           /\ PassedCommandGates(v, p, c, Owning(t))
           /\ \A waiting : PassedCommandGates(v, p, c, Verdict(t, FALSE, FALSE, FALSE, FALSE, waiting))
  BY DEF PassedCommandGates, Quiet, Owning, Verdict

\* The command gap keeps the selection in Passive, faults or disarms.
LEMMA CommandGapIsSound ==
    ASSUME NEW s \in Supervisor, NEW v, NEW p, NEW c, NEW at, Coherent(s), s.arm_requested
    PROVE  LET r == CommandGap(s, v)
           IN  SoundVerdict(s, r, at) /\ PassedCommandGates(v, p, c, r)
  <1>1. s.state # "Fault"
    BY DEF Coherent
  <1>2. CASE ResumeOnCommandReturn /\ s.state # "SoftDisabling" /\ ~v.eps_fault
    <2> DEFINE t == Transition(s, "Passive")
    <2>1. CommandGap(s, v) = Verdict(t, FALSE, FALSE, FALSE, FALSE, TRUE)
      BY <1>2 DEF CommandGap
    <2>2. SoundVerdict(s, Quiet(t), at)
      BY <1>1, MovedFacts, QuietIsSound
    <2>3. SoundVerdict(s, Verdict(t, FALSE, FALSE, FALSE, FALSE, TRUE), at)
      BY <2>2 DEF SoundVerdict, Quiet, Verdict, Verdicts
    <2>4. QED  BY <2>1, <2>3, SilentPassesGates
  <1>3. CASE ~(ResumeOnCommandReturn /\ s.state # "SoftDisabling" /\ ~v.eps_fault)
    <2>1. \/ CommandGap(s, v) = Quiet(Faulted(s))
          \/ CommandGap(s, v) = Quiet(Disarmed(s))
      BY <1>3 DEF CommandGap
    <2>2. QED  BY <1>1, <2>1, FaultedIsSound, DisarmedIsSound, SilentPassesGates
  <1>4. QED  BY <1>2, <1>3

\* Everything after the mode check.
LEMMA CommandJudgedIsSound ==
    ASSUME NEW s \in Supervisor, NEW v \in Vehicle, NEW p \in PandaHealth, NEW c \in Command,
           NEW at \in Nat, Coherent(s), s.arm_requested
    PROVE  LET r == CommandJudged(s, v, p, c, at)
           IN  SoundVerdict(s, r, at) /\ PassedCommandGates(v, p, c, r)
  <1> DEFINE r == CommandJudged(s, v, p, c, at)
             Good(q) == SoundVerdict(s, q, at) /\ PassedCommandGates(v, p, c, q)
  <1>1. Good(CommandGap(s, v))
    BY CommandGapIsSound
  <1>2. Good(Quiet(Faulted(s)))
    BY FaultedIsSound, SilentPassesGates
  <1>3. Good(Owning(s))
    BY OwningIsSound, SilentPassesGates
  <1>4. Good(Quiet(Transition(s, "Armed")))
    <2>1. s.state # "Fault"
      BY DEF Coherent
    <2>2. QED  BY <2>1, MovedFacts, QuietIsSound, SilentPassesGates
  <1>5. CASE /\ CommandFresh(c) /\ c.valid /\ c.enable /\ ~StandbyMode(p)
             /\ ~(ResumeOnCommandReturn /\ ~p.session_ready)
             /\ LateralRequested(s) \/ LongitudinalRequested(s)
    <2>1. r = ChannelsJudged(s, v, p, at)
      BY <1>5 DEF CommandJudged
    <2>2. QED  BY <1>5, <2>1, ChannelsAreSound DEF PassedCommandGates
  <1>6. CASE ~(/\ CommandFresh(c) /\ c.valid /\ c.enable /\ ~StandbyMode(p)
               /\ ~(ResumeOnCommandReturn /\ ~p.session_ready)
               /\ LateralRequested(s) \/ LongitudinalRequested(s))
    <2>1. \/ r = CommandGap(s, v) \/ r = Quiet(Faulted(s)) \/ r = Owning(s)
          \/ r = Quiet(Transition(s, "Armed"))
      BY <1>6 DEF CommandJudged
    <2> HIDE DEF r
    <2>2. Good(r)
      BY <1>1, <1>2, <1>3, <1>4, <2>1
    <2>3. QED  BY <2>2 DEF r
  <1>7. QED  BY <1>5, <1>6

\* Lines 181-231 before it: nothing drives without an arm request, a sound platform, a
\* plausible vehicle and the configured mode.
LEMMA JudgedIsSound ==
    ASSUME NEW s \in Supervisor, NEW v \in Vehicle, NEW p \in PandaHealth, NEW c \in Command,
           NEW events, NEW at \in Nat, Coherent(s)
    PROVE  LET r == Judged(s, v, p, c, events, at)
           IN  /\ SoundVerdict(s, r, at) /\ PassedCommandGates(v, p, c, r)
               /\ r.lateral \/ r.longitudinal =>
                     /\ s.arm_requested /\ ~PlatformFault(p) /\ ~VehicleFault(v)
                     /\ ConfiguredMode(p)
  <1> DEFINE r == Judged(s, v, p, c, events, at)
             Silent(q) == SoundVerdict(s, q, at) /\ PassedCommandGates(v, p, c, q)
                          /\ ~q.lateral /\ ~q.longitudinal
  <1>1. \A t : ~Quiet(t).lateral /\ ~Quiet(t).longitudinal
    BY DEF Quiet, Verdict
  <1>2. Silent(Quiet(Faulted(s)))
    BY <1>1, FaultedIsSound, SilentPassesGates
  <1>3. CASE ~s.arm_requested
    <2>1. r = Quiet(Resting(s))
      BY <1>3 DEF Judged
    <2>2. SoundVerdict(s, Quiet(Resting(s)), at)
      <3>1. s.state \in {"Disconnected", "Passive", "Fault"} /\ s.deadline = 0
            /\ ~s.lateral_enabled /\ ~s.longitudinal_enabled
        BY <1>3 DEF Coherent
      <3>2. CASE s.state = "Fault"
        BY <3>1, <3>2, QuietIsSound DEF Resting, IsEngaged
      <3>3. CASE s.state # "Fault"
        <4>1. /\ Transition(s, "Passive") \in Supervisor
              /\ Transition(s, "Passive").state = "Passive"
              /\ Transition(s, "Passive").deadline = 0
              /\ Transition(s, "Passive").arm_requested = s.arm_requested
              /\ Transition(s, "Passive").lateral_enabled = s.lateral_enabled
              /\ Transition(s, "Passive").longitudinal_enabled = s.longitudinal_enabled
              /\ Transition(s, "Passive").longitudinal_latched_off = s.longitudinal_latched_off
          BY TransitionFacts DEF States
        <4>2. /\ Coherent(Transition(s, "Passive")) /\ ~IsEngaged(Transition(s, "Passive").state)
              /\ ~LongitudinalRequested(Transition(s, "Passive"))
              /\ ~Transition(s, "Passive").arm_requested
          BY <1>3, <3>1, <4>1 DEF Coherent, IsEngaged, LongitudinalRequested
        <4>3. QED  BY <3>3, <4>1, <4>2, QuietIsSound DEF Resting
      <3>4. QED  BY <3>2, <3>3
    <2>3. QED  BY <1>1, <2>1, <2>2, SilentPassesGates
  <1>4. CASE s.arm_requested
    <2>1. s.state # "Fault"
      BY <1>4 DEF Coherent
    <2>2. Silent(Quiet(Disarmed(s)))
      BY <1>1, <2>1, DisarmedIsSound, SilentPassesGates
    <2>3. Silent(Quiet(Transition(s, "Armed")))
      BY <1>1, <1>4, <2>1, MovedFacts, QuietIsSound, SilentPassesGates
    <2>4. CASE /\ ~PlatformFault(p) /\ ~VehicleFault(v) /\ ~WrongMode(s, p)
               /\ ~(DisengageOnCancel /\ "cancel" \in events)
      <3>1. r = CommandJudged(s, v, p, c, at)
        BY <1>4, <2>1, <2>4 DEF Judged
      <3>2. SoundVerdict(s, r, at) /\ PassedCommandGates(v, p, c, r)
        BY <1>4, <3>1, CommandJudgedIsSound
      <3>3. ConfiguredMode(p) \/ StandbyMode(p)
        BY <2>4 DEF WrongMode
      <3> HIDE DEF r
      <3>4. QED  BY <1>4, <2>4, <3>2, <3>3 DEF PassedCommandGates, r
    <2>5. CASE ~(/\ ~PlatformFault(p) /\ ~VehicleFault(v) /\ ~WrongMode(s, p)
                 /\ ~(DisengageOnCancel /\ "cancel" \in events))
      <3>1. \/ r = Quiet(Faulted(s)) \/ r = Quiet(Disarmed(s))
            \/ r = Quiet(Transition(s, "Armed"))
        BY <1>4, <2>1, <2>5 DEF Judged
      <3> HIDE DEF r
      <3>2. Silent(r)
        BY <1>2, <2>2, <2>3, <3>1
      <3>3. QED  BY <3>2 DEF r
    <2>6. QED  BY <2>4, <2>5
  <1>5. QED  BY <1>3, <1>4 DEF Supervisor

\* update() as a whole, on any sample: a well-formed supervisor, the deadline of a pause, and
\* every gate behind a channel that transmits.
LEMMA UpdatedFacts ==
    ASSUME NEW s \in Supervisor, NEW events, NEW sample \in Sample, NEW at \in Nat, Coherent(s)
    PROVE  LET r == Updated(s, events, sample, at)
               v == sample.vehicle
               p == sample.panda
           IN  /\ r \in Verdicts /\ Coherent(r.to) /\ Driven(r.to)
               /\ r.to.arm_requested => s.arm_requested
               /\ r.to.state = "SoftDisabling" =>
                     \/ s.state = "Active" /\ r.to.deadline = at + SoftDisableTime
                     \/ s.state = "SoftDisabling" /\ r.to.deadline = s.deadline /\ at < s.deadline
               /\ r.to.state = "Active" /\ s.state = "SoftDisabling" => at < s.deadline
               /\ r.lateral \/ r.longitudinal =>
                     /\ s.arm_requested /\ r.to.arm_requested /\ IsEngaged(r.to.state)
                     /\ PandaFresh(p) /\ ~HealthFault(p)
                     /\ ~PlatformFault(p) /\ ~VehicleFault(v) /\ ConfiguredMode(p)
               /\ r.longitudinal => ~BrakeDisengages(v) /\ r.to.longitudinal_enabled
               /\ PassedCommandGates(v, p, sample.command, r)
               /\ s.state = "Fault" /\ SamplesButtons(p) => r.to.state = "Fault"
               /\ r.to.state = "Fault" => AllowActuation
  <1> DEFINE v == sample.vehicle
             p == sample.panda
             c == sample.command
             r == Updated(s, events, sample, at)
             t == Prepared(s, v, p, events)
             i == Intervened(Selection(s, v, p, events), v)
  <1>1. v \in Vehicle /\ p \in PandaHealth /\ c \in Command
    BY DEF Sample
  <1>2. ASSUME NEW next \in {"Disconnected", "Passive"}
        PROVE  /\ Quiet(Unarmed(s, next)) \in Verdicts
               /\ Coherent(Unarmed(s, next)) /\ Driven(Unarmed(s, next))
               /\ Quiet(Unarmed(s, next)).to = Unarmed(s, next)
               /\ Unarmed(s, next).state = next /\ ~Unarmed(s, next).arm_requested
               /\ ~Quiet(Unarmed(s, next)).lateral /\ ~Quiet(Unarmed(s, next)).longitudinal
    BY UnarmedFacts, UnarmedIsConsistent DEF Quiet, Verdict, Verdicts
  <1>3. CASE ~PandaFresh(p)
    <2>1. r = Quiet(Unarmed(s, "Disconnected"))
      BY <1>3 DEF Updated
    <2>2. QED  BY <1>2, <1>3, <2>1 DEF PassedCommandGates, SamplesButtons
  <1>4. CASE PandaFresh(p) /\ ~AllowActuation
    <2>1. r = Quiet(Unarmed(s, "Passive"))
      BY <1>4 DEF Updated
    <2>2. QED  BY <1>2, <1>4, <2>1 DEF PassedCommandGates, SamplesButtons
  <1>5. CASE PandaFresh(p) /\ AllowActuation
    <2>1. r = Judged(t, v, p, c, events, at)
      BY <1>5 DEF Updated
    <2>2. /\ t \in Supervisor /\ Coherent(t)
          /\ t = Faulted(i) \/ (SameStage(s, t) /\ ~HealthFault(p))
          /\ t.longitudinal_enabled => ~BrakeDisengages(v)
      BY <1>1, PreparedFacts
    <2>3. /\ SoundVerdict(t, r, at) /\ PassedCommandGates(v, p, c, r)
          /\ r.lateral \/ r.longitudinal =>
                /\ t.arm_requested /\ ~PlatformFault(p) /\ ~VehicleFault(v)
                /\ ConfiguredMode(p)
      BY <1>1, <2>1, <2>2, JudgedIsSound
    <2>4. t.arm_requested \/ t.state # "Fault" => SameStage(s, t) /\ ~HealthFault(p)
      <3>1. i \in Supervisor
        BY <1>1, SelectionFacts, IntervenedFacts DEF SameStage
      <3>2. ~Faulted(i).arm_requested /\ Faulted(i).state = "Fault"
        BY <3>1, UnarmedFacts DEF Faulted
      <3>3. QED  BY <2>2, <3>2
    <2> HIDE DEF r, t, i
    <2>5. r \in Verdicts /\ Coherent(r.to) /\ Driven(r.to)
      BY <2>3 DEF SoundVerdict
    <2>6. t.state = "Fault" => r.to.state = "Fault"
      BY <2>3 DEF SoundVerdict
    <2>7. IsEngaged(r.to.state) =>
              /\ t.state = s.state /\ t.deadline = s.deadline
              /\ t.arm_requested = s.arm_requested /\ ~HealthFault(p)
      BY <2>4, <2>6 DEF IsEngaged, SameStage
    <2>8. /\ r.to.state = "SoftDisabling" =>
                \/ s.state = "Active" /\ r.to.deadline = at + SoftDisableTime
                \/ s.state = "SoftDisabling" /\ r.to.deadline = s.deadline /\ at < s.deadline
          /\ r.to.state = "Active" /\ s.state = "SoftDisabling" => at < s.deadline
      BY <2>3, <2>7 DEF SoundVerdict, IsEngaged
    <2>9. r.lateral \/ r.longitudinal =>
              /\ s.arm_requested /\ r.to.arm_requested /\ IsEngaged(r.to.state)
              /\ PandaFresh(p) /\ ~HealthFault(p)
              /\ ~PlatformFault(p) /\ ~VehicleFault(v) /\ ConfiguredMode(p)
      BY <1>5, <2>3, <2>7 DEF SoundVerdict
    <2>10. r.longitudinal => ~BrakeDisengages(v) /\ r.to.longitudinal_enabled
      BY <2>2, <2>3 DEF SoundVerdict, LongitudinalRequested
    <2>11. s.state = "Fault" => r.to.state = "Fault"
      BY <2>4, <2>6 DEF SameStage
    <2>12. r.to.arm_requested => s.arm_requested
      BY <2>3, <2>4 DEF SoundVerdict, SameStage
    <2>13. QED  BY <1>5, <2>3, <2>5, <2>8, <2>9, <2>10, <2>11, <2>12 DEF r
  <1>6. QED  BY <1>3, <1>4, <1>5

\* The decision handed to the node is well formed.
LEMMA DecisionIsTyped ==
    ASSUME NEW r \in Verdicts, NEW at \in Nat
    PROVE  DecisionOf(r, at) \in Decision
  <1>1. r.to \in Supervisor
    BY DEF Verdicts
  <1>2. LongitudinalRequested(r.to) \in BOOLEAN
    BY <1>1, ConfigAssumption DEF LongitudinalRequested, Supervisor
  <1>3. (IF r.to.state = "SoftDisabling" /\ at < r.to.deadline THEN r.to.deadline - at ELSE 0) \in Nat
    BY <1>1 DEF Supervisor
  <1>4. QED  BY <1>1, <1>2, <1>3 DEF DecisionOf, Decision, Verdicts, Supervisor
=============================================================================
