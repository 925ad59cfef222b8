---------------------------- MODULE EcanNodeProofs ----------------------------
(***************************************************************************)
(* Proofs about the three threads of the node, for every set of samples,   *)
(* every number of calls, presses, unplugs and failures, and for both      *)
(* profiles: types, one sender of each frame, fresh health whenever the    *)
(* node transmits, no forgotten recovery, and that the threads implement   *)
(* EcuOwnership.                                                           *)
(*                                                                         *)
(* The argument follows the lock: a transition belongs to the thread that  *)
(* waits for its end, the node does not drive during one, and what each    *)
(* step of it has done to the ECUs is known.  Outside of a transition the  *)
(* threads can only stop driving, schedule a recovery, or act on health    *)
(* that was read since the last transition.                                *)
(***************************************************************************)
EXTENDS EcanNode, SupervisorLogicProofs

\* The steps of enter_no_output_mode and of enter_vehicle_safety_mode.
Giving == {"restore", "standby", "finish"}
Taking == {"camera", "radar", "configure"}

\* Where the control thread uses the samples of its period.
Sampled == {"retry", "rearm", "auto", "apply", "listen", "apply_failed", "update", "drop", "gap",
            "gap_failed", "take", "takeover", "cleanup", "send"}

Driving == node.vehicle_safety_mode
Vehicular(h) == h.mode = "hyundai_canfd" /\ h.profile

\* The supervisor's members belong together between two updates.
SupervisorInStep == Coherent(sup) /\ Driven(sup)

\* The lock is held by the thread that waits for the transition, never while the node drives, and
\* no health is about to be committed that was read before it.
LockInStep ==
    /\ LockFree <=> transition.step = "none"
    /\ transition.owner = "main" => transition.step \in Giving /\ main.pc = "no_output"
    /\ transition.owner = "control" =>
          ctl.pc = IF transition.step \in Giving THEN "no_output" ELSE "takeover"
    /\ ~LockFree => ~Driving /\ rx.health = NoHealth
    /\ transition.step \in Giving => node.recovery_pending
    /\ transition.step \in {"standby", "finish"} /\ ~transition.error => disabled = {}
    /\ ctl.pc \in {"takeover", "listen"} => ~Driving

\* What is known of the ECUs.  A flag without silence is one of a failed takeover or of a recovery
\* that goes on; without late write errors there is no silence without a flag.
FlagsInStep ==
    /\ ~LateWriteErrors => silenced \subseteq disabled
    /\ disabled \subseteq silenced \/ node.recovery_pending \/ ctl.pc = "take_failed"
    /\ transition.step \in Taking => disabled \subseteq silenced
    /\ transition.step = "radar" => "camera" \in disabled
    /\ transition.step = "configure" => ECUs \subseteq disabled
    /\ Driving => ECUs \subseteq silenced \cap disabled

\* While the node drives the Panda is in the vehicle mode, and so was the one of every health that
\* the threads keep, from the refresh after the takeover to the next failed transfer.
HealthInStep ==
    /\ Driving => panda.mode = "hyundai_canfd" /\ panda.profile
    /\ Driving /\ rx.health.connected => Vehicular(rx.health)
    /\ Driving /\ panda.ready =>
          /\ ctl.pc = "took" \/ Vehicular(latest_health)
          /\ ctl.pc \in Sampled => Vehicular(ctl.health)
    /\ rx.pc \in {"disarm", "reset"} => ~panda.ready

Inductive ==
    /\ TypeOK /\ SupervisorInStep /\ LockInStep /\ FlagsInStep /\ HealthInStep
    /\ RecoveryIsScheduled

-----------------------------------------------------------------------------
(* Data *)

RetryType == [pending : BOOLEAN, failures : BOOLEAN]
TransitionType ==
    [owner : {"nobody", "control", "main"}, error : BOOLEAN,
     step : {"none", "restore", "standby", "finish", "camera", "radar", "configure"}]
Samples == Inputs \cup {NoInput}
CtlType ==
    [pc : CtlPoints, caller : Callers, input : Samples, health : Health,
     decision : Decision, flag : BOOLEAN, requested : BOOLEAN, was_active : BOOLEAN]
RxPoints == {"poll", "commit", "restore", "failed", "disarm", "reset", "done"}
RxType == [pc : RxPoints, health : Health]
MainType == [pc : {"spin", "arm", "no_output", "stop", "join", "exited"}, arm : BOOLEAN]
BudgetType ==
    [presses : 0..MaxPresses, calls : 0..MaxCalls, unplugs : 0..MaxUnplugs,
     failures : 0..MaxFailures]

Typed ==
    /\ node \in NodeState
    /\ newer \in BOOLEAN
    /\ sup \in Supervisor
    /\ unseen \subseteq Buttons
    /\ in_flight \subseteq DriverButtons
    /\ latest_health \in Health
    /\ panda \in Panda
    /\ silenced \subseteq ECUs
    /\ disabled \subseteq ECUs
    /\ retry \in RetryType
    /\ transition \in TransitionType
    /\ ctl \in CtlType
    /\ rx \in RxType
    /\ main \in MainType
    /\ budget \in BudgetType

\* TypeOK with its sets named.
LEMMA TypedIsTypeOK == Typed <=> TypeOK
  BY DEF Typed, TypeOK, RetryType, TransitionType, Samples, CtlType, RxPoints, RxType, MainType,
         BudgetType

\* The same of the next state.
LEMMA TypedIsTypeOKNext == Typed' <=> TypeOK'
  BY DEF Typed, TypeOK, RetryType, TransitionType, Samples, CtlType, RxPoints, RxType, MainType,
         BudgetType

\* Giving up the request schedules recovery and leaves the mode and the applied request alone.
LEMMA InternalDisarmFacts ==
    ASSUME NEW n \in NodeState, NEW require \in BOOLEAN
    PROVE  /\ InternalDisarm(n, require) \in NodeState
           /\ InternalDisarm(n, require).vehicle_safety_mode = n.vehicle_safety_mode
           /\ InternalDisarm(n, require).recovery_pending
           /\ InternalDisarm(n, require).running = n.running
  <1> DEFINE lost == (n.requested_arm \/ n.applied_arm \/ n.vehicle_safety_mode) /\ require
  <1>1. /\ lost \in BOOLEAN
        /\ InternalDisarm(n, require) =
              [n EXCEPT !.preserve_command_session = FALSE, !.gap_resume_qualified = FALSE,
                        !.button_rearm_takeover = FALSE, !.requested_arm = FALSE,
                        !.auto_arm_inhibited = n.auto_arm_inhibited \/ lost,
                        !.recovery_rearm_required = n.recovery_rearm_required \/ lost,
                        !.recovery_pending = TRUE]
    BY DEF InternalDisarm
  <1> HIDE DEF lost
  <1>2. QED  BY <1>1 DEF NodeState

\* The same with the applied request consumed.
LEMMA ConsumedFacts ==
    ASSUME NEW n \in NodeState, NEW require \in BOOLEAN
    PROVE  LET m == [InternalDisarm(n, require) EXCEPT !.applied_arm = FALSE]
           IN  /\ m \in NodeState
               /\ m.vehicle_safety_mode = n.vehicle_safety_mode /\ m.recovery_pending
  <1> DEFINE d == InternalDisarm(n, require)
  <1>1. /\ d \in NodeState /\ d.vehicle_safety_mode = n.vehicle_safety_mode
        /\ d.recovery_pending
    BY InternalDisarmFacts
  <1> HIDE DEF d
  <1>2. [d EXCEPT !.applied_arm = FALSE] \in NodeState
    BY <1>1 DEF NodeState
  <1>3. /\ [d EXCEPT !.applied_arm = FALSE].vehicle_safety_mode = n.vehicle_safety_mode
        /\ [d EXCEPT !.applied_arm = FALSE].recovery_pending
    BY <1>1 DEF NodeState
  <1>4. QED  BY <1>2, <1>3 DEF d

\* What a service call stores.
LEMMA StoredFacts ==
    ASSUME NEW n \in NodeState, NEW on \in BOOLEAN, NEW off \in BOOLEAN, NEW required \in BOOLEAN
    PROVE  [n EXCEPT
              !.auto_arm_inhibited = off, !.operator_disarmed = off,
              !.button_rearm_takeover = FALSE, !.gap_resume_qualified = FALSE,
              !.preserve_command_session = FALSE,
              !.recovery_rearm_required = required,
              !.requested_arm = on] \in NodeState
  BY DEF NodeState

\* A reconnect only takes the mode away.
LEMMA OwnershipDroppedFacts ==
    ASSUME NEW n \in NodeState
    PROVE  /\ OwnershipDropped(n) \in NodeState
           /\ ~OwnershipDropped(n).vehicle_safety_mode
           /\ OwnershipDropped(n).recovery_pending = n.recovery_pending
  BY DEF OwnershipDropped, NodeState

\* A mode change leaves the handle alone.
LEMMA SetModeFacts ==
    ASSUME NEW p \in Panda, NEW mode \in Modes, NEW profile \in BOOLEAN
    PROVE  /\ SetMode(p, mode, profile) \in Panda
           /\ SetMode(p, mode, profile).mode = mode
           /\ SetMode(p, mode, profile).profile = profile
           /\ SetMode(p, mode, profile).ready = p.ready
  <1>1. CASE profile /\ p.profile
    BY <1>1 DEF SetMode, Panda
  <1>2. CASE ~(profile /\ p.profile)
    BY <1>2 DEF SetMode, Panda
  <1>3. QED  BY <1>1, <1>2

\* A failed transfer and a disconnect only close the handle.
LEMMA BrokenFacts ==
    ASSUME NEW p \in Panda
    PROVE  /\ Broken(p) \in Panda /\ Broken(p).mode = p.mode /\ Broken(p).profile = p.profile
           /\ ~Broken(p).ready
           /\ Closed(p) \in Panda /\ Closed(p).mode = p.mode /\ Closed(p).profile = p.profile
           /\ ~Closed(p).ready
           /\ AfterFailure(p) \subseteq {p, Broken(p)}
           /\ AfterFailure(p) \subseteq Panda
           /\ \A q \in AfterFailure(p) :
                 q.mode = p.mode /\ q.profile = p.profile /\ (q.ready => p.ready)
  <1>1. /\ Broken(p) \in Panda /\ Broken(p).mode = p.mode /\ Broken(p).profile = p.profile
        /\ ~Broken(p).ready
    BY DEF Broken, Panda
  <1>2. /\ Closed(p) \in Panda /\ Closed(p).mode = p.mode /\ Closed(p).profile = p.profile
        /\ ~Closed(p).ready
    BY DEF Closed, Panda
  <1>3. AfterFailure(p) \subseteq {p, Broken(p)}
    BY DEF AfterFailure
  <1>4. QED  BY <1>1, <1>2, <1>3

\* A connected Panda is a Panda.
LEMMA ConnectedFacts ==
    ASSUME NEW p \in Panda
    PROVE  Connected(p) \in Panda
  <1> DEFINE plain == SetMode(p, "no_output", FALSE)
             listening == SetMode(plain, "no_output", TRUE)
  <1>1. plain \in Panda
    BY SetModeFacts DEF Modes
  <1> HIDE DEF plain
  <1>2. listening \in Panda
    BY <1>1, SetModeFacts DEF Modes
  <1> HIDE DEF listening
  <1>3. [listening EXCEPT !.ready = TRUE, !.handle = TRUE] \in Panda
    BY <1>2 DEF Panda
  <1>4. QED  BY <1>3 DEF Connected, listening, plain

\* So is one in standby.
LEMMA StandbyFacts ==
    ASSUME node \in NodeState, NEW p \in Panda
    PROVE  /\ PassThrough(p) \in Panda /\ PassThrough(p).ready = p.ready
           /\ Standby(p) \in Panda /\ Standby(p).ready = p.ready
  <1>1. PassThrough(p) \in Panda /\ PassThrough(p).ready = p.ready
    BY SetModeFacts DEF PassThrough, Modes
  <1>2. StandbyProfile(node) \in BOOLEAN
    BY DEF StandbyProfile, NodeState
  <1>3. /\ SetMode(PassThrough(p), "no_output", StandbyProfile(node)) \in Panda
        /\ SetMode(PassThrough(p), "no_output", StandbyProfile(node)).ready = p.ready
    BY <1>1, <1>2, SetModeFacts DEF Modes
  <1>4. QED  BY <1>1, <1>3 DEF Standby

\* Health says which mode the Panda is in.
LEMMA HealthOfFacts ==
    ASSUME NEW p \in Panda, NEW ready \in BOOLEAN
    PROVE  /\ HealthOf(p, ready) \in Health
           /\ HealthOf(p, ready).mode = p.mode /\ HealthOf(p, ready).profile = p.profile
  BY DEF HealthOf, Health, Panda

\* No health at all is health of nothing.
LEMMA NoHealthFacts == NoHealth \in Health /\ ~NoHealth.connected
  BY DEF NoHealth, Health, Modes

\* What the supervisor is given is a sample.
LEMMA SampleFacts ==
    ASSUME NEW input \in Samples, NEW h \in Health
    PROVE  SampleOf(input, h) \in Sample
  <1>1. input \in Input
    <2>1. NoInput \in Input
      BY DEF NoInput, Input
    <2>2. QED  BY <2>1, InputsAssumption DEF Samples
  <1>2. VehicleOf(input) \in Vehicle
    BY <1>1 DEF VehicleOf, Vehicle, Input
  <1>3. PandaHealthOf(h) \in PandaHealth
    <2> DEFINE mode == IF h.mode = "elm327" THEN "other" ELSE h.mode
               allowed == h.mode = "hyundai_canfd" /\ h.ready /\ (h.lateral \/ h.longitudinal)
    <2>1. mode \in SafetyModes /\ allowed \in BOOLEAN
      BY DEF Health, Modes, SafetyModes
    <2> HIDE DEF mode, allowed
    <2>2. PandaHealthOf(h) =
            [connected |-> h.connected, stamped |-> h.connected, age |-> 0,
             session_active |-> h.profile, session_ready |-> h.ready, session_blocked |-> h.blocked,
             ignition_on |-> TRUE, lateral_selected |-> h.lateral,
             longitudinal_selected |-> h.longitudinal,
             controls_allowed |-> allowed,
             heartbeat_lost |-> FALSE, rx_checks_invalid |-> FALSE, bus_off |-> FALSE,
             faults |-> {}, ignored_faults |-> {}, fault_status |-> FALSE, harness_ok |-> TRUE,
             safety_mode |-> mode,
             param_matches |-> h.profile, tx_blocked_rose |-> FALSE, last_rejected |-> "other"]
      BY DEF PandaHealthOf, mode, allowed
    <2>3. "other" \in Addresses
      BY DEF Addresses
    <2>4. QED  BY <2>1, <2>2, <2>3 DEF PandaHealth, Health
  <1>4. CommandOf(input) \in Command
    <2>1. (IF input.command = "gap" THEN CommandTimeout + 1 ELSE 0) \in Int
      BY TimeAssumption
    <2>2. QED  BY <2>1 DEF CommandOf, Command
  <1>5. QED  BY <1>2, <1>3, <1>4 DEF SampleOf, Sample

\* Before the first update.
LEMMA InitialFacts ==
    /\ InitialDecision \in Decision /\ InitialSupervisor \in Supervisor
    /\ Coherent(InitialSupervisor) /\ Driven(InitialSupervisor)
  BY DEF InitialDecision, Decision, InitialSupervisor, Supervisor, States, Coherent, Driven,
         IsEngaged

\* The control thread at the top of its loop.
LEMMA RestartedFacts ==
    ASSUME NEW c \in CtlType
    PROVE  /\ Restarted(c) \in CtlType /\ Restarted(c).pc = "top"
           /\ PeriodEnded(c) \in CtlType /\ PeriodEnded(c).pc = "top"
  <1>1. /\ NoInput \in Samples /\ NoHealth \in Health /\ InitialDecision \in Decision
        /\ "top" \in CtlPoints /\ "none" \in Callers
    BY NoHealthFacts, InitialFacts DEF Samples, CtlPoints, Callers
  <1>2. \A d \in CtlType : Restarted(d) \in CtlType /\ Restarted(d).pc = "top"
    BY <1>1 DEF Restarted, CtlType
  <1> DEFINE active == c.decision.state = "Active"
             d == [c EXCEPT !.was_active = active]
  <1>3. active \in BOOLEAN
    OBVIOUS
  <1> HIDE DEF active
  <1>4. d \in CtlType
    BY <1>3 DEF CtlType
  <1>5. PeriodEnded(c) = Restarted(d)
    BY DEF PeriodEnded, active
  <1> HIDE DEF d
  <1>6. QED  BY <1>2, <1>4, <1>5

\* Where a transition to no output returns to: never into the middle of another one.
LEMMA AfterNoOutputFacts ==
    ASSUME NEW c \in CtlType, NEW threw \in BOOLEAN
    PROVE  /\ AfterNoOutput(c, threw) \in CtlType
           /\ AfterNoOutput(c, threw).pc \in {"sample", "update", "apply_failed", "gap_failed", "top"}
  <1>1. /\ "none" \in Callers
        /\ {"sample", "update", "apply_failed", "gap_failed", "top"} \subseteq CtlPoints
    BY DEF Callers, CtlPoints
  <1>2. CASE c.caller = "retry"
    BY <1>1, <1>2 DEF AfterNoOutput, CtlType
  <1>3. CASE c.caller = "late_retry"
    BY <1>1, <1>3 DEF AfterNoOutput, CtlType
  <1>4. CASE c.caller = "apply"
    BY <1>1, <1>4 DEF AfterNoOutput, CtlType
  <1>5. CASE c.caller = "gap" /\ threw
    BY <1>1, <1>5 DEF AfterNoOutput, CtlType
  <1>6. CASE c.caller \notin {"retry", "late_retry", "apply"} /\ ~(c.caller = "gap" /\ threw)
    <2>1. AfterNoOutput(c, threw) = PeriodEnded(c)
      BY <1>6 DEF AfterNoOutput
    <2>2. QED  BY <2>1, RestartedFacts
  <1>7. QED  BY <1>2, <1>3, <1>4, <1>5, <1>6

\* No transition at all is one, too.
LEMMA NoTransitionFacts ==
    /\ NoTransition \in TransitionType /\ NoTransition.owner = "nobody"
    /\ NoTransition.step = "none"
  BY DEF NoTransition, TransitionType

\* Spent failures were left.
LEMMA BudgetFacts ==
    ASSUME budget \in BudgetType,
           Works \/ Fails \/ Spend \/ UdsWorks \/ UdsFails \/ UNCHANGED budget
    PROVE  budget' \in BudgetType
  <1>1. Spend => budget' \in BudgetType
    BY BoundsAssumption DEF Spend, BudgetType
  <1>2. QED  BY <1>1 DEF Works, Fails, UdsWorks, UdsFails

-----------------------------------------------------------------------------
(* Types *)

\* The steps of a transition keep the types.
LEMMA TransitionsKeepTypes ==
    ASSUME Typed, Transitioning
    PROVE  Typed'
  <1>1. ASSUME NEW owner \in {"control", "main"}, NoOutputBegin(owner)
        PROVE  Typed'
    <2>1. panda' \in Panda
      BY <1>1, BrokenFacts DEF NoOutputBegin, Typed
    <2>2. node' \in NodeState
      BY <1>1 DEF NoOutputBegin, Typed, NodeState
    <2>3. retry' \in RetryType
      BY <1>1 DEF NoOutputBegin, RetryRequested, Typed, RetryType
    <2>4. transition' \in TransitionType /\ rx' \in RxType
      <3>1. /\ transition' = [owner |-> owner, step |-> "restore", error |-> ~Reachable]
            /\ rx' = [rx EXCEPT !.health = NoHealth]
        BY <1>1 DEF NoOutputBegin, Begins, HealthOutdated
      <3>2. (~Reachable) \in BOOLEAN
        OBVIOUS
      <3>3. QED  BY <3>1, <3>2, NoHealthFacts DEF TransitionType, RxType, Typed
    <2>5. QED  BY <1>1, <2>1, <2>2, <2>3, <2>4 DEF NoOutputBegin, Typed
  <1>2. CASE NoOutputRestore
    <2> DEFINE diagnosing == SetMode(panda, "elm327", node.preserve_command_session)
    <2>1. diagnosing \in Panda
      BY SetModeFacts DEF Typed, Modes, NodeState
    <2>2. PICK failed \in BOOLEAN :
              transition' = [transition EXCEPT !.step = "standby", !.error = transition.error \/ failed]
      <3>1. (disabled' # {}) \in BOOLEAN
        OBVIOUS
      <3>2. QED  BY <1>2, <3>1 DEF NoOutputRestore
    <2>3. transition' \in TransitionType
      BY <2>2 DEF Typed, TransitionType
    <2>4. panda' \in {panda, diagnosing, Broken(panda)} \cup AfterFailure(diagnosing)
      BY <1>2 DEF NoOutputRestore
    <2>5. panda' \in Panda
      BY <2>1, <2>4, BrokenFacts DEF Typed
    <2>6. silenced' \subseteq silenced /\ disabled' \subseteq disabled
      BY <1>2 DEF NoOutputRestore, Restores, Confirms
    <2>7. budget' \in BudgetType
      BY <1>2, BudgetFacts DEF NoOutputRestore, Typed
    <2>8. QED  BY <1>2, <2>3, <2>5, <2>6, <2>7 DEF NoOutputRestore, Typed
  <1>3. CASE NoOutputStandby
    <2>1. panda' \in {Standby(panda)} \cup AfterFailure(panda)
                    \cup AfterFailure(PassThrough(panda)) \cup AfterFailure(Standby(panda))
      BY <1>3 DEF NoOutputStandby
    <2>2. panda' \in Panda
      BY <2>1, BrokenFacts, StandbyFacts DEF Typed
    <2>3. latest_health' \in Health
      BY <1>3, <2>2, HealthOfFacts DEF NoOutputStandby, Typed
    <2>4. transition' \in TransitionType
      BY <1>3 DEF NoOutputStandby, Typed, TransitionType
    <2>5. budget' \in BudgetType
      BY <1>3, BudgetFacts DEF NoOutputStandby, Typed
    <2>6. QED  BY <1>3, <2>2, <2>3, <2>4, <2>5 DEF NoOutputStandby, Typed
  <1>4. CASE NoOutputFinish
    <2>1. transition' \in TransitionType
      BY <1>4 DEF NoOutputFinish, NoTransition, TransitionType
    <2>2. node' \in NodeState
      BY <1>4 DEF NoOutputFinish, Typed, NodeState
    <2>3. retry' \in RetryType
      BY <1>4 DEF NoOutputFinish, Typed, RetryType
    <2>4. main' \in MainType
      BY <1>4 DEF NoOutputFinish, Typed, MainType
    <2>5. ctl' \in CtlType
      BY <1>4, AfterNoOutputFacts DEF NoOutputFinish, Typed, TransitionType
    <2>6. QED  BY <1>4, <2>1, <2>2, <2>3, <2>4, <2>5 DEF NoOutputFinish, Typed
  <1>5. CASE TakeoverBegin
    <2>1. SetMode(panda, "elm327", TRUE) \in Panda
      BY SetModeFacts DEF Typed, Modes
    <2>2. panda' \in Panda
      BY <1>5, <2>1, BrokenFacts DEF TakeoverBegin, Typed
    <2>3. rx' \in RxType
      BY <1>5, NoHealthFacts DEF TakeoverBegin, Begins, HealthOutdated, Typed, RxType
    <2>4. transition' \in TransitionType
      <3>1. \/ transition' = transition
            \/ transition' = [owner |-> "control", step |-> "camera", error |-> FALSE]
        BY <1>5 DEF TakeoverBegin, Begins
      <3>2. [owner |-> "control", step |-> "camera", error |-> FALSE] \in TransitionType
        BY DEF TransitionType
      <3>3. QED  BY <3>1, <3>2 DEF Typed
    <2>5. ctl' \in CtlType
      BY <1>5 DEF TakeoverBegin, Typed, CtlType, CtlPoints
    <2>6. budget' \in BudgetType
      BY <1>5, BudgetFacts DEF TakeoverBegin, Typed
    <2>7. QED  BY <1>5, <2>2, <2>3, <2>4, <2>5, <2>6 DEF TakeoverBegin, Typed
  <1>6. ASSUME NEW e \in ECUs, DisableEcu(e)
        PROVE  Typed'
    <2>1. AfterEcu(e) \in {"radar", "configure"}
      BY DEF AfterEcu
    <2>2. transition' \in TransitionType
      <3>1. \/ transition' = NoTransition
            \/ transition' = [transition EXCEPT !.step = AfterEcu(e)]
        BY <1>6 DEF DisableEcu, TakeoverThrows
      <3>2. [transition EXCEPT !.step = AfterEcu(e)] \in TransitionType
        BY <2>1 DEF Typed, TransitionType
      <3>3. QED  BY <3>1, <3>2, NoTransitionFacts
    <2>3. ctl' \in CtlType
      BY <1>6 DEF DisableEcu, TakeoverThrows, Typed, CtlType, CtlPoints
    <2>4. panda' \in Panda
      BY <1>6, BrokenFacts DEF DisableEcu, Typed
    <2>5. silenced' \subseteq silenced \cup {e} /\ disabled' \subseteq disabled \cup {e}
      BY <1>6 DEF DisableEcu
    <2>6. budget' \in BudgetType
      BY <1>6, BudgetFacts DEF DisableEcu, Typed
    <2>7. QED  BY <1>6, <2>2, <2>3, <2>4, <2>5, <2>6 DEF DisableEcu, Typed
  <1>7. CASE TakeoverConfigure
    <2> DEFINE vehicular == SetMode(panda, "hyundai_canfd", TRUE)
    <2>1. vehicular \in Panda
      BY SetModeFacts DEF Typed, Modes
    <2>2. panda' \in {vehicular, Broken(panda)} \cup AfterFailure(vehicular)
      BY <1>7 DEF TakeoverConfigure
    <2>3. panda' \in Panda
      <3> HIDE DEF vehicular
      <3>1. AfterFailure(vehicular) \subseteq Panda /\ Broken(panda) \in Panda
        BY <2>1, BrokenFacts DEF Typed
      <3>2. QED  BY <2>1, <2>2, <3>1
    <2>4. node' \in NodeState
      BY <1>7 DEF TakeoverConfigure, Typed, NodeState
    <2>5. transition' \in TransitionType
      BY <1>7, NoTransitionFacts DEF TakeoverConfigure, TakeoverThrows
    <2>6. ctl' \in CtlType
      BY <1>7 DEF TakeoverConfigure, TakeoverThrows, Typed, CtlType, CtlPoints
    <2>7. budget' \in BudgetType
      BY <1>7, BudgetFacts DEF TakeoverConfigure, Typed
    <2>8. QED  BY <1>7, <2>3, <2>4, <2>5, <2>6, <2>7 DEF TakeoverConfigure, Typed
  <1>8. QED  BY <1>1, <1>2, <1>3, <1>4, <1>5, <1>6, <1>7 DEF Transitioning

\* The steps of the receive thread, the main thread and what is outside keep the types.
LEMMA OthersKeepTypes ==
    ASSUME Typed, Receive \/ Main \/ Request \/ Environment
    PROVE  Typed'
  <1>1. CASE RxStop
    BY <1>1 DEF RxStop, Typed, RxType, RxPoints
  <1>2. CASE RxConnect
    <2>1. panda' \in Panda
      BY <1>2, ConnectedFacts, BrokenFacts DEF RxConnect, Typed
    <2>2. node' \in NodeState
      BY <1>2, OwnershipDroppedFacts DEF RxConnect, Typed
    <2>3. rx' \in RxType
      BY <1>2 DEF RxConnect, Typed, RxType, RxPoints
    <2>4. budget' \in BudgetType
      BY <1>2, BudgetFacts DEF RxConnect, Typed
    <2>5. QED  BY <1>2, <2>1, <2>2, <2>3, <2>4 DEF RxConnect, Typed
  <1>3. CASE RxRestorePending
    <2>1. node' \in NodeState
      BY <1>3, InternalDisarmFacts DEF RxRestorePending, Typed
    <2>2. rx' \in RxType
      BY <1>3 DEF RxRestorePending, Typed, RxType, RxPoints
    <2>3. QED  BY <1>3, <2>1, <2>2 DEF RxRestorePending, Typed
  <1>4. CASE RxRead
    <2>1. panda' \in Panda
      BY <1>4, BrokenFacts DEF RxRead, Typed
    <2>2. rx' \in RxType
      <3>1. CASE \E ready \in BOOLEAN :
                    rx' = [rx EXCEPT !.pc = "commit",
                             !.health = IF LockFree THEN HealthOf(panda, ready) ELSE NoHealth]
        <4>1. PICK ready \in BOOLEAN :
                    rx' = [rx EXCEPT !.pc = "commit",
                             !.health = IF LockFree THEN HealthOf(panda, ready) ELSE NoHealth]
          BY <3>1
        <4>2. (IF LockFree THEN HealthOf(panda, ready) ELSE NoHealth) \in Health
          BY HealthOfFacts, NoHealthFacts DEF Typed
        <4>3. QED  BY <4>1, <4>2 DEF Typed, RxType, RxPoints
      <3>2. CASE rx' = [rx EXCEPT !.pc = "failed"]
        BY <3>2 DEF Typed, RxType, RxPoints
      <3>3. QED  BY <1>4, <3>1, <3>2 DEF RxRead
    <2>3. budget' \in BudgetType
      BY <1>4, BudgetFacts DEF RxRead, Typed
    <2>4. QED  BY <1>4, <2>1, <2>2, <2>3 DEF RxRead, Typed
  <1>5. CASE RxCommit
    <2>1. latest_health' \in Health
      BY <1>5 DEF RxCommit, Typed, RxType
    <2>2. rx' \in RxType
      BY <1>5, NoHealthFacts DEF RxCommit, Typed, RxType, RxPoints
    <2>3. QED  BY <1>5, <2>1, <2>2 DEF RxCommit, Typed
  <1>6. CASE RxFailed
    <2>1. panda' \in Panda
      BY <1>6, BrokenFacts DEF RxFailed, Typed
    <2>2. node' \in NodeState
      BY <1>6, OwnershipDroppedFacts DEF RxFailed, Typed
    <2>3. rx' \in RxType
      BY <1>6 DEF RxFailed, Typed, RxType, RxPoints
    <2>4. QED  BY <1>6, <2>1, <2>2, <2>3 DEF RxFailed, Typed
  <1>7. CASE RxDisarm
    <2>1. node' \in NodeState
      BY <1>7, InternalDisarmFacts DEF RxDisarm, Typed
    <2>2. rx' \in RxType
      BY <1>7 DEF RxDisarm, Typed, RxType, RxPoints
    <2>3. QED  BY <1>7, <2>1, <2>2 DEF RxDisarm, Typed
  <1>8. CASE RxReset
    <2>1. node' \in NodeState
      BY <1>8 DEF RxReset, Typed, NodeState
    <2>2. rx' \in RxType
      BY <1>8 DEF RxReset, Typed, RxType, RxPoints
    <2>3. QED  BY <1>8, <2>1, <2>2, NoHealthFacts DEF RxReset, Typed
  <1>9. CASE ArmStore
    <2>1. main' \in MainType /\ main.arm \in BOOLEAN
      BY <1>9 DEF ArmStore, Typed, MainType
    <2>2. node' \in NodeState
      <3> DEFINE off == ~main.arm
                 required == node.recovery_rearm_required /\ ~main.arm
                 on == main.arm
      <3>1. off \in BOOLEAN /\ required \in BOOLEAN /\ on \in BOOLEAN
        BY <2>1
      <3>2. node' = [node EXCEPT
                   !.auto_arm_inhibited = off, !.operator_disarmed = off,
                   !.button_rearm_takeover = FALSE, !.gap_resume_qualified = FALSE,
                   !.preserve_command_session = FALSE,
                   !.recovery_rearm_required = required,
                   !.requested_arm = on]
        BY <1>9 DEF ArmStore
      <3> HIDE DEF off, required, on
      <3>3. node \in NodeState
        BY DEF Typed
      <3>4. QED  BY <3>1, <3>2, <3>3, StoredFacts, Zenon
    <2>3. QED  BY <1>9, <2>1, <2>2 DEF ArmStore, Typed
  <1>10. CASE MainStop
    <2>1. node' \in NodeState
      BY <1>10 DEF MainStop, Typed, NodeState
    <2>2. main' \in MainType
      BY <1>10 DEF MainStop, Typed, MainType
    <2>3. QED  BY <1>10, <2>1, <2>2 DEF MainStop, Typed
  <1>11. CASE MainJoin
    <2>1. panda' \in Panda
      BY <1>11, BrokenFacts DEF MainJoin, Typed
    <2>2. main' \in MainType
      BY <1>11 DEF MainJoin, Typed, MainType
    <2>3. QED  BY <1>11, <2>1, <2>2 DEF MainJoin, Typed
  <1>12. CASE Shutdown
    <2>1. node' \in NodeState
      BY <1>12 DEF Shutdown, Typed, NodeState
    <2>2. main' \in MainType
      BY <1>12 DEF Shutdown, Typed, MainType
    <2>3. QED  BY <1>12, <2>1, <2>2 DEF Shutdown, Typed
  <1>13. ASSUME NEW arm \in BOOLEAN, ArmCall(arm)
         PROVE  Typed'
    <2>1. main' \in MainType
      BY <1>13 DEF ArmCall, Typed, MainType
    <2>2. budget' \in BudgetType
      BY <1>13, BoundsAssumption DEF ArmCall, Typed, BudgetType
    <2>3. QED  BY <1>13, <2>1, <2>2 DEF ArmCall, Typed
  <1>14. ASSUME NEW button \in DriverButtons, Press(button)
         PROVE  Typed'
    <2>1. budget' \in BudgetType
      BY <1>14, BoundsAssumption DEF Press, Typed, BudgetType
    <2>2. panda' \in Panda
      <3> DEFINE both == panda.lateral /\ panda.longitudinal
                 either == ~panda.lateral \/ both
                 none == ~both
      <3>1. both \in BOOLEAN /\ either \in BOOLEAN /\ none \in BOOLEAN
        OBVIOUS
      <3>2. \/ panda' = panda
            \/ panda' = [panda EXCEPT !.lateral = either, !.longitudinal = FALSE]
            \/ panda' = [panda EXCEPT !.lateral = none, !.longitudinal = none]
        BY <1>14 DEF Press
      <3> HIDE DEF both, either, none
      <3>3. QED  BY <3>1, <3>2 DEF Typed, Panda
    <2>3. in_flight' \subseteq DriverButtons
      BY <1>14 DEF Press, Typed
    <2>4. QED  BY <1>14, <2>1, <2>2, <2>3 DEF Press, Typed
  <1>15. CASE SessionAbort
    <2>1. panda' \in Panda
      BY <1>15 DEF SessionAbort, Typed, Panda
    <2>2. budget' \in BudgetType
      BY <1>15, BudgetFacts DEF SessionAbort, Typed
    <2>3. QED  BY <1>15, <2>1, <2>2 DEF SessionAbort, Typed
  <1>16. CASE Unplug
    <2>1. panda' \in Panda
      BY <1>16 DEF Unplug, Typed, Panda
    <2>2. budget' \in BudgetType
      BY <1>16, BoundsAssumption DEF Unplug, Typed, BudgetType
    <2>3. QED  BY <1>16, <2>1, <2>2 DEF Unplug, Typed
  <1>17. CASE Replug
    <2>1. panda' \in Panda
      BY <1>17 DEF Replug, Typed, Panda
    <2>2. QED  BY <1>17, <2>1 DEF Replug, Typed
  <1>18. QED
    BY <1>1, <1>2, <1>3, <1>4, <1>5, <1>6, <1>7, <1>8, <1>9, <1>10, <1>11, <1>12, <1>13, <1>14,
       <1>15, <1>16, <1>17 DEF Receive, Main, Request, Environment

\* The control thread's program counter moves within its points.
LEMMA CtlMoves ==
    ASSUME NEW c \in CtlType, NEW pc \in CtlPoints, NEW caller \in Callers, NEW flag \in BOOLEAN
    PROVE  /\ [c EXCEPT !.pc = pc] \in CtlType
           /\ [c EXCEPT !.pc = pc, !.caller = caller] \in CtlType
           /\ [c EXCEPT !.pc = pc, !.flag = flag] \in CtlType
  BY DEF CtlType

\* The points and callers by name.
LEMMA CtlNames ==
    /\ {"top", "retry", "sample", "rearm", "auto", "apply", "listen", "apply_failed",
        "update", "drop", "gap", "gap_failed", "take", "takeover", "took", "take_failed",
        "cleanup", "send", "no_output", "done"} \subseteq CtlPoints
    /\ {"none", "retry", "late_retry", "apply", "gap", "cleanup"} \subseteq Callers
  BY DEF CtlPoints, Callers

\* A step that only moves the control thread, and stores what it knows.
LEMMA LocalTypes ==
    ASSUME Typed, ctl' \in CtlType, node' \in NodeState, newer' \in BOOLEAN, panda' \in Panda,
           budget' \in BudgetType, sup' \in Supervisor, unseen' \subseteq Buttons,
           in_flight' \subseteq DriverButtons, latest_health' \in Health, retry' \in RetryType,
           UNCHANGED <<silenced, disabled, transition, main>>,
           rx' \in RxType
    PROVE  Typed'
  BY DEF Typed

\* The steps of the control thread keep the types, and the supervisor's members in step.
LEMMA ControlKeepsTypes ==
    ASSUME Typed, SupervisorInStep, Control
    PROVE  Typed' /\ SupervisorInStep'
  <1>1. /\ node \in NodeState /\ newer \in BOOLEAN /\ sup \in Supervisor /\ unseen \subseteq Buttons
        /\ in_flight \subseteq DriverButtons /\ latest_health \in Health /\ panda \in Panda
        /\ retry \in RetryType /\ ctl \in CtlType /\ rx \in RxType /\ budget \in BudgetType
    BY DEF Typed
  <1>2. sup' = sup => SupervisorInStep'
    BY DEF SupervisorInStep
  <1>3. CASE ControlStop
    <2>1. ctl' \in CtlType
      BY <1>1, <1>3, CtlMoves, CtlNames DEF ControlStop
    <2>2. QED  BY <1>1, <1>2, <1>3, <2>1, LocalTypes DEF ControlStop
  <1>4. CASE ControlRetry
    <2>1. ctl' \in CtlType
      <3>1. PICK caller \in {"retry", "late_retry"} :
                ctl' = [ctl EXCEPT !.pc = "no_output", !.caller = caller]
        BY <1>4 DEF ControlRetry
      <3>2. QED  BY <1>1, <3>1, CtlMoves, CtlNames
    <2>2. retry' \in RetryType
      BY <1>1, <1>4 DEF ControlRetry, RetryRequested, RetryType
    <2>3. QED  BY <1>1, <1>2, <1>4, <2>1, <2>2, LocalTypes DEF ControlRetry
  <1>5. CASE ControlNoRetry
    <2>1. PICK pc \in {"sample", "update"} : ctl' = [ctl EXCEPT !.pc = pc]
      BY <1>5 DEF ControlNoRetry
    <2>2. ctl' \in CtlType
      BY <1>1, <2>1, CtlMoves, CtlNames
    <2>3. QED  BY <1>1, <1>2, <1>5, <2>2, LocalTypes DEF ControlNoRetry
  <1>6. CASE ControlSample
    <2>1. PICK input \in Inputs, seen \in {{}, in_flight} :
            /\ unseen' = unseen \cup seen
            /\ in_flight' = in_flight \ seen
            /\ ctl' = [ctl EXCEPT
                  !.pc = "rearm", !.input = input, !.health = latest_health,
                  !.flag = /\ seen # {} /\ ~node.operator_disarmed /\ ~node.requested_arm
                           /\ node.auto_arm_inhibited \/ node.recovery_rearm_required]
      BY <1>6 DEF ControlSample
    <2> DEFINE flag == /\ seen # {} /\ ~node.operator_disarmed /\ ~node.requested_arm
                       /\ node.auto_arm_inhibited \/ node.recovery_rearm_required
    <2>2. /\ flag \in BOOLEAN /\ input \in Samples
          /\ ctl' = [ctl EXCEPT !.pc = "rearm", !.input = input, !.health = latest_health,
                                !.flag = flag]
      BY <2>1 DEF Samples
    <2> HIDE DEF flag
    <2>3. ctl' \in CtlType
      BY <1>1, <2>2, CtlNames DEF CtlType
    <2>4. unseen' \subseteq Buttons /\ in_flight' \subseteq DriverButtons
      BY <1>1, <2>1, BoundsAssumption DEF Buttons
    <2>5. QED  BY <1>1, <1>2, <1>6, <2>3, <2>4, LocalTypes DEF ControlSample
  <1>7. CASE ControlRearm
    <2> DEFINE flag == /\ AutoArmOnCommand /\ ~node'.auto_arm_inhibited
                       /\ ~node.recovery_pending /\ ctl.input.vehicle_valid
                       /\ ListenerReady(ctl.health)
    <2>1. ctl' = [ctl EXCEPT !.pc = "auto", !.flag = flag] /\ flag \in BOOLEAN
      BY <1>7 DEF ControlRearm
    <2> HIDE DEF flag
    <2>2. ctl' \in CtlType
      BY <1>1, <2>1, CtlMoves, CtlNames
    <2>3. node' \in NodeState
      BY <1>1, <1>7 DEF ControlRearm, NodeState
    <2>4. QED  BY <1>1, <1>2, <1>7, <2>2, <2>3, LocalTypes DEF ControlRearm
  <1>8. CASE ControlAuto
    <2> DEFINE arms == ctl.flag /\ ~node.requested_arm
               requested == node.requested_arm \/ arms
    <2>1. /\ node' = [node EXCEPT !.requested_arm = requested]
          /\ newer' = (newer \/ arms)
          /\ requested \in BOOLEAN
      BY <1>8 DEF ControlAuto
    <2> HIDE DEF arms, requested
    <2>2. node' \in NodeState /\ newer' \in BOOLEAN /\ node'.requested_arm \in BOOLEAN
      BY <1>1, <2>1 DEF NodeState
    <2>3. ctl' = [ctl EXCEPT !.pc = "apply", !.requested = node'.requested_arm, !.flag = FALSE]
      BY <1>8 DEF ControlAuto
    <2>4. ctl' \in CtlType
      BY <1>1, <2>2, <2>3, CtlNames DEF CtlType
    <2>5. QED  BY <1>1, <1>2, <1>8, <2>2, <2>4, LocalTypes DEF ControlAuto
  <1>9. CASE ControlApply
    <2>1. ctl.requested \in BOOLEAN
      BY <1>1 DEF CtlType
    <2>2. \/ newer' = newer /\ sup' = sup /\ node' = node
          \/ /\ newer' = FALSE /\ sup' = RequestArmed(sup, ctl.requested)
             /\ node' = [node EXCEPT !.applied_arm = ctl.requested]
      BY <1>9 DEF ControlApply
    <2>3. node' \in NodeState /\ newer' \in BOOLEAN
      BY <1>1, <2>1, <2>2 DEF NodeState
    <2>4. sup' \in Supervisor /\ SupervisorInStep'
      BY <1>1, <2>1, <2>2, RequestArmedFacts DEF SupervisorInStep
    <2>5. \/ ctl' = [ctl EXCEPT !.pc = "no_output", !.caller = "apply"]
          \/ \E pc \in {"listen", "retry", "update"} : ctl' = [ctl EXCEPT !.pc = pc]
      BY <1>9, <2>1 DEF ControlApply
    <2>6. ctl' \in CtlType
      <3>1. [ctl EXCEPT !.pc = "no_output", !.caller = "apply"] \in CtlType
        BY <1>1, CtlNames DEF CtlType
      <3>2. \A pc \in {"listen", "retry", "update"} : [ctl EXCEPT !.pc = pc] \in CtlType
        BY <1>1, CtlNames DEF CtlType
      <3>3. QED  BY <2>5, <3>1, <3>2
    <2>7. QED  BY <1>1, <1>9, <2>3, <2>4, <2>6, LocalTypes DEF ControlApply
  <1>10. CASE ControlListen
    <2>1. SetMode(panda, "no_output", TRUE) \in Panda
      BY <1>1, SetModeFacts DEF Modes
    <2>2. panda' \in Panda
      BY <1>1, <1>10, <2>1, BrokenFacts, ZenonT(80) DEF ControlListen
    <2>3. latest_health' \in Health
      BY <1>1, <1>10, <2>2, HealthOfFacts DEF ControlListen
    <2>4. ctl' \in CtlType
      BY <1>1, <1>10, CtlMoves, CtlNames, RestartedFacts DEF ControlListen
    <2>5. rx' \in RxType
      BY <1>1, <1>10, NoHealthFacts DEF ControlListen, HealthOutdated, RxType
    <2>6. budget' \in BudgetType
      BY <1>1, <1>10, BudgetFacts DEF ControlListen
    <2>7. QED  BY <1>1, <1>2, <1>10, <2>2, <2>3, <2>4, <2>5, <2>6, LocalTypes DEF ControlListen
  <1>11. CASE ControlApplyFailed
    <2>1. node' \in NodeState
      BY <1>1, <1>11, ConsumedFacts DEF ControlApplyFailed
    <2>2. sup' \in Supervisor /\ SupervisorInStep'
      BY <1>1, <1>11, RequestArmedFacts DEF ControlApplyFailed, SupervisorInStep
    <2>3. PICK pc \in {"retry", "update"} : ctl' = [ctl EXCEPT !.pc = pc]
      BY <1>11 DEF ControlApplyFailed
    <2>4. ctl' \in CtlType
      BY <1>1, <2>3, CtlMoves, CtlNames
    <2>5. QED  BY <1>1, <1>11, <2>1, <2>2, <2>4, LocalTypes DEF ControlApplyFailed
  <1>12. CASE ControlUpdate
    <2> DEFINE sample == SampleOf(ctl.input, ctl.health)
               r == Updated(sup, unseen, sample, 0)
               d == DecisionOf(r, 0)
    <2>1. sample \in Sample
      BY <1>1, SampleFacts DEF CtlType
    <2>2. /\ sup' = r.to
          /\ \E pc \in {"drop", "gap"} : ctl' = [ctl EXCEPT !.decision = d, !.pc = pc]
      BY <1>12 DEF ControlUpdate
    <2> HIDE DEF sample
    <2>3. r \in Verdicts /\ Coherent(r.to) /\ Driven(r.to)
      BY <1>1, <2>1, UpdatedFacts DEF SupervisorInStep
    <2> HIDE DEF r
    <2>4. d \in Decision
      BY <2>3, DecisionIsTyped
    <2> HIDE DEF d
    <2>5. ctl' \in CtlType
      BY <1>1, <2>2, <2>4, CtlNames DEF CtlType
    <2>6. sup' \in Supervisor /\ SupervisorInStep'
      BY <2>2, <2>3 DEF SupervisorInStep, Verdicts
    <2>7. unseen' \subseteq Buttons
      BY <1>1, <1>12 DEF ControlUpdate
    <2>8. QED  BY <1>1, <1>12, <2>5, <2>6, <2>7, LocalTypes DEF ControlUpdate
  <1>13. CASE ControlDrop
    <2>1. panda' \in Panda
      <3> DEFINE kept == panda.longitudinal /\ ~panda.profile
      <3>1. kept \in BOOLEAN
        OBVIOUS
      <3>2. panda' = [panda EXCEPT !.longitudinal = kept] \/ panda' = Broken(panda)
        BY <1>13 DEF ControlDrop
      <3> HIDE DEF kept
      <3>3. [panda EXCEPT !.longitudinal = kept] \in Panda
        BY <1>1, <3>1 DEF Panda
      <3>4. QED  BY <1>1, <3>2, <3>3, BrokenFacts
    <2>2. node' \in NodeState /\ newer' \in BOOLEAN
      BY <1>1, <1>13, InternalDisarmFacts DEF ControlDrop
    <2>3. ctl' \in CtlType
      BY <1>1, <1>13, CtlMoves, CtlNames, RestartedFacts, ZenonT(40) DEF ControlDrop
    <2>4. budget' \in BudgetType
      BY <1>1, <1>13, BudgetFacts DEF ControlDrop
    <2>5. QED  BY <1>1, <1>2, <1>13, <2>1, <2>2, <2>3, <2>4, LocalTypes DEF ControlDrop
  <1>14. CASE ControlGap
    <2> DEFINE armed == ctl.decision.lateral_armed \/ ctl.decision.longitudinal_armed
               was == armed /\ ctl.was_active
               still == node.gap_resume_qualified /\ armed
    <2>1. was \in BOOLEAN /\ still \in BOOLEAN
      OBVIOUS
    <2>2. \/ /\ node' = [node EXCEPT !.gap_resume_qualified = was,
                                     !.preserve_command_session = TRUE]
             /\ ctl' = [ctl EXCEPT !.pc = "no_output", !.caller = "gap"]
          \/ /\ node' = [node EXCEPT !.gap_resume_qualified = still]
             /\ ctl' = [ctl EXCEPT !.pc = "take"]
      BY <1>14 DEF ControlGap
    <2> HIDE DEF was, still
    <2>3. node' \in NodeState
      BY <1>1, <2>1, <2>2 DEF NodeState
    <2>4. ctl' \in CtlType
      <3>1. /\ [ctl EXCEPT !.pc = "no_output", !.caller = "gap"] \in CtlType
            /\ [ctl EXCEPT !.pc = "take"] \in CtlType
        BY <1>1, CtlNames DEF CtlType
      <3>2. QED  BY <2>2, <3>1
    <2>5. QED  BY <1>1, <1>2, <1>14, <2>3, <2>4, LocalTypes DEF ControlGap
  <1>15. CASE ControlGapFailed
    <2>1. node' \in NodeState /\ ctl' \in CtlType
      BY <1>1, <1>15, InternalDisarmFacts, RestartedFacts DEF ControlGapFailed
    <2>2. QED  BY <1>1, <1>2, <1>15, <2>1, LocalTypes DEF ControlGapFailed
  <1>16. CASE ControlTake
    <2> DEFINE h == ctl.health
               moving == /\ node.gap_resume_qualified \/ node.button_rearm_takeover
                         /\ h.profile /\ h.ready /\ ~h.blocked
    <2>1. moving \in BOOLEAN
      OBVIOUS
    <2>2. \E pc \in {"takeover", "cleanup"} : ctl' = [ctl EXCEPT !.pc = pc, !.flag = moving]
      BY <1>16 DEF ControlTake
    <2> HIDE DEF moving
    <2>3. ctl' \in CtlType
      BY <1>1, <2>1, <2>2, CtlNames DEF CtlType
    <2>4. QED  BY <1>1, <1>2, <1>16, <2>3, LocalTypes DEF ControlTake
  <1>17. CASE ControlTook
    <2>1. panda' \in Panda
      <3>1. panda' = panda \/ panda' = Broken(panda)
        BY <1>17 DEF ControlTook
      <3>2. QED  BY <1>1, <3>1, BrokenFacts
    <2>2. latest_health' \in Health
      BY <1>1, <1>17, HealthOfFacts DEF ControlTook
    <2>3. ctl' \in CtlType
      BY <1>1, <1>17, CtlMoves, CtlNames, RestartedFacts, ZenonT(40) DEF ControlTook
    <2>4. budget' \in BudgetType
      BY <1>1, <1>17, BudgetFacts DEF ControlTook
    <2>5. QED  BY <1>1, <1>2, <1>17, <2>1, <2>2, <2>3, <2>4, LocalTypes DEF ControlTook
  <1>18. CASE ControlTakeFailed
    <2>1. node' \in NodeState /\ ctl' \in CtlType
      BY <1>1, <1>18, InternalDisarmFacts, RestartedFacts DEF ControlTakeFailed
    <2>2. QED  BY <1>1, <1>2, <1>18, <2>1, LocalTypes DEF ControlTakeFailed
  <1>19. CASE ControlCleanup
    <2>1. node' \in NodeState
      <3> DEFINE waits == ctl.decision.state = "Passive" /\ ctl.input.command = "gap"
      <3>1. /\ node' = [InternalDisarm(node, ~waits) EXCEPT !.applied_arm = FALSE]
            /\ (~waits) \in BOOLEAN
        BY <1>19 DEF ControlCleanup
      <3> HIDE DEF waits
      <3>2. QED  BY <1>1, <3>1, ConsumedFacts
    <2>2. ctl' \in CtlType
      BY <1>1, <1>19, CtlMoves, CtlNames, RestartedFacts DEF ControlCleanup
    <2>3. QED  BY <1>1, <1>2, <1>19, <2>1, <2>2, LocalTypes DEF ControlCleanup
  <1>20. CASE ControlOutput
    <2>1. node' \in NodeState /\ newer' \in BOOLEAN
      BY <1>1, <1>20, InternalDisarmFacts DEF ControlOutput
    <2>2. ctl' \in CtlType
      BY <1>1, <1>20, CtlMoves, CtlNames DEF ControlOutput
    <2>3. budget' \in BudgetType
      BY <1>1, <1>20, BudgetFacts DEF ControlOutput
    <2>4. QED  BY <1>1, <1>2, <1>20, <2>1, <2>2, <2>3, LocalTypes DEF ControlOutput
  <1>21. CASE ControlSend
    <2>1. node' \in NodeState /\ newer' \in BOOLEAN
      BY <1>1, <1>21, InternalDisarmFacts DEF ControlSend
    <2>2. panda' \in Panda
      <3>1. panda' \in {panda, Broken(panda)} \cup AfterFailure(panda)
        BY <1>21 DEF ControlSend
      <3>2. AfterFailure(panda) \subseteq Panda /\ Broken(panda) \in Panda
        BY <1>1, BrokenFacts
      <3>3. QED  BY <1>1, <3>1, <3>2
    <2>3. ctl' \in CtlType
      BY <1>1, <1>21, RestartedFacts DEF ControlSend
    <2>4. budget' \in BudgetType
      BY <1>1, <1>21, BudgetFacts DEF ControlSend
    <2>5. QED  BY <1>1, <1>2, <1>21, <2>1, <2>2, <2>3, <2>4, LocalTypes DEF ControlSend
  <1>22. QED
    BY <1>3, <1>4, <1>5, <1>6, <1>7, <1>8, <1>9, <1>10, <1>11, <1>12, <1>13, <1>14,
       <1>15, <1>16, <1>17, <1>18, <1>19, <1>20, <1>21 DEF Control

-----------------------------------------------------------------------------
(* The invariant outside of the transitions *)

\* A step that is not one of a transition: it does not touch the ECUs, does not start to drive,
\* and leaves a transition of its own thread alone.
LEMMA QuietStep ==
    ASSUME Inductive, TypeOK', SupervisorInStep',
           UNCHANGED <<transition, silenced, disabled>>,
           Driving' => Driving,
           node.recovery_pending => node'.recovery_pending,
           Driving' => /\ panda'.mode = panda.mode /\ panda'.profile = panda.profile
                       /\ panda'.ready => panda.ready,
           transition.owner = "main" => main'.pc = main.pc,
           transition.owner = "control" => ctl'.pc = ctl.pc,
           ctl'.pc \in {"takeover", "listen"} => ~Driving',
           ctl.pc = "take_failed" => ctl'.pc = "take_failed" \/ node'.recovery_pending,
           rx.pc \in {"restore", "disarm"} =>
               rx'.pc \in {"restore", "disarm"} \/ node'.recovery_pending,
           Driving /\ ~Driving' => rx'.pc \in {"restore", "disarm"} \/ disabled = {},
           Driving' /\ panda'.ready => ctl'.pc = "took" \/ Vehicular(latest_health'),
           Driving' /\ panda'.ready /\ ctl'.pc \in Sampled => Vehicular(ctl'.health),
           Driving' /\ rx'.health.connected => Vehicular(rx'.health),
           ~LockFree => rx'.health = NoHealth,
           rx'.pc \in {"disarm", "reset"} => ~panda'.ready
    PROVE  Inductive'
  <1>1. LockFree' <=> LockFree
    BY DEF LockFree
  <1>2. LockInStep'
    BY <1>1 DEF Inductive, LockInStep
  <1>3. FlagsInStep'
    BY DEF Inductive, FlagsInStep
  <1>4. HealthInStep'
    <2>1. Driving' => panda'.mode = "hyundai_canfd" /\ panda'.profile
      BY DEF Inductive, HealthInStep
    <2>2. QED  BY <2>1 DEF HealthInStep, Vehicular
  <1>5. RecoveryIsScheduled'
    BY <1>1 DEF Inductive, RecoveryIsScheduled, Driving
  <1>6. QED  BY <1>2, <1>3, <1>4, <1>5 DEF Inductive

\* A step of the control thread within its period.
LEMMA PeriodStep ==
    ASSUME Inductive, TypeOK', SupervisorInStep',
           UNCHANGED <<transition, silenced, disabled, rx, main, latest_health>>,
           Driving' <=> Driving,
           node.recovery_pending => node'.recovery_pending,
           panda'.mode = panda.mode /\ panda'.profile = panda.profile,
           panda'.ready => panda.ready,
           ctl.pc \notin {"takeover", "no_output", "took"},
           ctl'.pc \in {"takeover", "listen"} => ~Driving,
           ctl.pc = "take_failed" => node'.recovery_pending,
           ctl'.pc \in Sampled => ctl.pc \in Sampled /\ ctl'.health = ctl.health
    PROVE  Inductive'
  <1>1. transition.owner # "control"
    BY DEF Inductive, LockInStep
  <1>2. Driving' /\ panda'.ready =>
            /\ Vehicular(latest_health')
            /\ ctl'.pc \in Sampled => Vehicular(ctl'.health)
    BY DEF Inductive, HealthInStep
  <1>3. Driving' /\ rx'.health.connected => Vehicular(rx'.health)
    BY DEF Inductive, HealthInStep
  <1>4. ~LockFree => rx'.health = NoHealth
    BY DEF Inductive, LockInStep
  <1>5. rx'.pc \in {"disarm", "reset"} => ~panda'.ready
    BY DEF Inductive, HealthInStep
  <1>6. QED  BY <1>1, <1>2, <1>3, <1>4, <1>5, QuietStep

\* A step of the others that leaves the control thread alone.
LEMMA BackgroundStep ==
    ASSUME Inductive, TypeOK',
           UNCHANGED <<transition, silenced, disabled, ctl, sup>>,
           Driving' => Driving,
           node.recovery_pending => node'.recovery_pending,
           Driving' => /\ panda'.mode = panda.mode /\ panda'.profile = panda.profile
                       /\ panda'.ready => panda.ready,
           transition.owner = "main" => main'.pc = main.pc,
           rx.pc \in {"restore", "disarm"} =>
               rx'.pc \in {"restore", "disarm"} \/ node'.recovery_pending,
           Driving /\ ~Driving' => rx'.pc \in {"restore", "disarm"} \/ disabled = {},
           Driving' /\ panda'.ready =>
               latest_health' = latest_health \/ Vehicular(latest_health'),
           Driving' /\ rx'.health.connected => Vehicular(rx'.health),
           ~LockFree => rx'.health = NoHealth,
           rx'.pc \in {"disarm", "reset"} => ~panda'.ready
    PROVE  Inductive'
  <1>1. SupervisorInStep'
    BY DEF Inductive, SupervisorInStep
  <1>2. ctl'.pc \in {"takeover", "listen"} => ~Driving'
    BY DEF Inductive, LockInStep
  <1>3. Driving' /\ panda'.ready => ctl'.pc = "took" \/ Vehicular(latest_health')
    BY DEF Inductive, HealthInStep
  <1>4. Driving' /\ panda'.ready /\ ctl'.pc \in Sampled => Vehicular(ctl'.health)
    BY DEF Inductive, HealthInStep
  <1>5. QED  BY <1>1, <1>2, <1>3, <1>4, QuietStep

\* The steps of the control thread outside of the transitions.
LEMMA ControlKeepsInvariant ==
    ASSUME Inductive, TypeOK', SupervisorInStep', Control
    PROVE  Inductive'
  <1>1. /\ node \in NodeState /\ panda \in Panda /\ ctl \in CtlType /\ rx \in RxType
        /\ latest_health \in Health
    BY TypedIsTypeOK DEF Inductive, Typed
  <1>2. /\ \A c \in CtlType, pc \in CtlPoints, caller \in Callers, flag \in BOOLEAN :
              /\ [c EXCEPT !.pc = pc].pc = pc /\ [c EXCEPT !.pc = pc].health = c.health
              /\ [c EXCEPT !.pc = pc, !.caller = caller].pc = pc
              /\ [c EXCEPT !.pc = pc, !.caller = caller].health = c.health
              /\ [c EXCEPT !.pc = pc, !.flag = flag].pc = pc
              /\ [c EXCEPT !.pc = pc, !.flag = flag].health = c.health
    BY DEF CtlType
  <1>3. Restarted(ctl).pc = "top" /\ PeriodEnded(ctl).pc = "top"
    BY <1>1, RestartedFacts
  <1>4. \A require \in BOOLEAN :
            /\ InternalDisarm(node, require).vehicle_safety_mode = node.vehicle_safety_mode
            /\ InternalDisarm(node, require).recovery_pending
            /\ [InternalDisarm(node, require) EXCEPT !.applied_arm = FALSE].vehicle_safety_mode
                  = node.vehicle_safety_mode
            /\ [InternalDisarm(node, require) EXCEPT !.applied_arm = FALSE].recovery_pending
    BY <1>1, InternalDisarmFacts, ConsumedFacts
  <1>5. /\ "top" \notin Sampled /\ "sample" \notin Sampled /\ "no_output" \notin Sampled
        /\ "done" \notin Sampled /\ "take_failed" \notin Sampled /\ "took" \notin Sampled
    BY DEF Sampled
  <1>6. CASE ControlStop
    <2>1. ctl.pc = "top" /\ ctl'.pc = "done"
      BY <1>1, <1>6 DEF ControlStop, CtlType
    <2>2. QED  BY <1>5, <1>6, <2>1, PeriodStep DEF ControlStop, Driving
  <1>7. CASE ControlRetry
    <2>1. ctl.pc \in {"top", "retry"} /\ ctl'.pc = "no_output"
      BY <1>1, <1>7 DEF ControlRetry, AtRetry, CtlType
    <2>2. QED  BY <1>5, <1>7, <2>1, PeriodStep DEF ControlRetry, Driving
  <1>8. CASE ControlNoRetry
    <2>1. /\ ctl.pc \in {"top", "retry"}
          /\ ctl'.pc = IF ctl.pc = "top" THEN "sample" ELSE "update"
          /\ ctl'.health = ctl.health
      BY <1>1, <1>8 DEF ControlNoRetry, AtRetry, CtlType
    <2>2. ctl'.pc \in Sampled => ctl.pc \in Sampled
      BY <1>5, <2>1 DEF Sampled
    <2>3. QED  BY <1>8, <2>1, <2>2, PeriodStep DEF ControlNoRetry, Driving
  <1>9. CASE ControlSample
    <2>1. ctl.pc = "sample" /\ ctl'.pc = "rearm" /\ ctl'.health = latest_health
      BY <1>1, <1>9 DEF ControlSample, CtlType
    <2>2. UNCHANGED <<node, transition, silenced, disabled, rx, main, latest_health, panda>>
      BY <1>9 DEF ControlSample
    <2>3. transition.owner # "control"
      BY <2>1 DEF Inductive, LockInStep
    <2>4. Driving /\ panda.ready => Vehicular(latest_health)
      BY <2>1 DEF Inductive, HealthInStep
    <2>5. /\ Driving /\ rx.health.connected => Vehicular(rx.health)
          /\ rx.pc \in {"disarm", "reset"} => ~panda.ready
      BY DEF Inductive, HealthInStep
    <2>6. ~LockFree => rx.health = NoHealth
      BY DEF Inductive, LockInStep
    <2>7. QED  BY <2>1, <2>2, <2>3, <2>4, <2>5, <2>6, QuietStep DEF Driving
  <1>10. CASE ControlRearm
    <2>1. /\ ctl.pc = "rearm" /\ ctl'.pc = "auto" /\ ctl'.health = ctl.health
          /\ UNCHANGED <<transition, silenced, disabled, rx, main, latest_health, panda>>
      BY <1>1, <1>10 DEF ControlRearm, CtlType
    <2>2. /\ node'.vehicle_safety_mode = node.vehicle_safety_mode
          /\ node'.recovery_pending = node.recovery_pending
      BY <1>1, <1>10 DEF ControlRearm, NodeState
    <2>3. QED  BY <2>1, <2>2, PeriodStep DEF Driving, Sampled
  <1>11. CASE ControlAuto
    <2>1. /\ ctl.pc = "auto" /\ ctl'.pc = "apply" /\ ctl'.health = ctl.health
          /\ UNCHANGED <<transition, silenced, disabled, rx, main, latest_health, panda>>
      BY <1>1, <1>11 DEF ControlAuto, CtlType
    <2>2. /\ node'.vehicle_safety_mode = node.vehicle_safety_mode
          /\ node'.recovery_pending = node.recovery_pending
      BY <1>1, <1>11 DEF ControlAuto, NodeState
    <2>3. QED  BY <2>1, <2>2, PeriodStep DEF Driving, Sampled
  <1>12. CASE ControlApply
    <2>1. /\ ctl.pc = "apply"
          /\ UNCHANGED <<transition, silenced, disabled, rx, main, latest_health, panda>>
      BY <1>12 DEF ControlApply
    <2>2. /\ node'.vehicle_safety_mode = node.vehicle_safety_mode
          /\ node'.recovery_pending = node.recovery_pending
      BY <1>1, <1>12 DEF ControlApply, NodeState
    <2>3. ctl.requested \in BOOLEAN
      BY <1>1 DEF CtlType
    <2>4. \/ ctl' = [ctl EXCEPT !.pc = "no_output", !.caller = "apply"]
          \/ ctl' = [ctl EXCEPT !.pc = "retry"]
          \/ ctl' = [ctl EXCEPT !.pc = "update"]
          \/ /\ ctl' = [ctl EXCEPT !.pc = "listen"]
             /\ panda.ready /\ ~ctl.health.profile
      BY <1>12, <2>3 DEF ControlApply
    <2>5. /\ ctl'.pc \in {"no_output", "retry", "update", "listen"}
          /\ ctl'.health = ctl.health
          /\ ctl'.pc = "listen" => panda.ready /\ ~ctl.health.profile
      BY <1>1, <2>4 DEF CtlType
    <2>6. ctl'.pc = "listen" => ~Driving
      BY <2>1, <2>5 DEF Inductive, HealthInStep, Vehicular, Sampled
    <2>7. QED  BY <2>1, <2>2, <2>5, <2>6, PeriodStep DEF Driving, Sampled
  <1>13. CASE ControlListen
    <2>1. /\ ctl.pc = "listen" /\ ctl'.pc \in {"top", "apply_failed"} /\ rx' = HealthOutdated
          /\ UNCHANGED <<node, transition, silenced, disabled, main>>
      BY <1>1, <1>3, <1>13 DEF ControlListen, CtlType
    <2>2. /\ rx'.pc = rx.pc /\ rx'.health = NoHealth
      BY <1>1, <2>1 DEF HealthOutdated, RxType
    <2>3. ~Driving /\ transition.owner # "control"
      BY <2>1 DEF Inductive, LockInStep
    <2>4. panda'.ready => panda.ready
      <3>1. panda' \in {SetMode(panda, "no_output", TRUE), Broken(panda)}
        BY <1>13 DEF ControlListen
      <3>2. SetMode(panda, "no_output", TRUE).ready = panda.ready
        BY <1>1, SetModeFacts DEF Modes
      <3>3. QED  BY <1>1, <3>1, <3>2, BrokenFacts, ZenonT(40)
    <2>5. rx'.pc \in {"disarm", "reset"} => ~panda'.ready
      BY <2>2, <2>4 DEF Inductive, HealthInStep
    <2>6. QED  BY <2>1, <2>2, <2>3, <2>5, QuietStep DEF Driving
  <1>14. CASE ControlApplyFailed
    <2>1. /\ ctl.pc = "apply_failed" /\ ctl'.pc \in {"retry", "update"}
          /\ ctl'.health = ctl.health
          /\ UNCHANGED <<transition, silenced, disabled, rx, main, latest_health, panda>>
      BY <1>1, <1>14 DEF ControlApplyFailed, CtlType
    <2>2. /\ node'.vehicle_safety_mode = node.vehicle_safety_mode
          /\ node'.recovery_pending
      BY <1>4, <1>14 DEF ControlApplyFailed
    <2>3. QED  BY <2>1, <2>2, PeriodStep DEF Driving, Sampled
  <1>15. CASE ControlUpdate
    <2>1. /\ ctl.pc = "update" /\ ctl'.pc \in {"drop", "gap"}
          /\ ctl'.health = ctl.health
          /\ UNCHANGED <<node, transition, silenced, disabled, rx, main, latest_health, panda>>
      <3> DEFINE d == DecisionOf(Updated(sup, unseen, SampleOf(ctl.input, ctl.health), 0), 0)
      <3>1. \E pc \in {"drop", "gap"} : ctl' = [ctl EXCEPT !.decision = d, !.pc = pc]
        BY <1>15 DEF ControlUpdate
      <3> HIDE DEF d
      <3>2. ctl'.pc \in {"drop", "gap"} /\ ctl'.health = ctl.health
        BY <1>1, <3>1 DEF CtlType
      <3>3. QED  BY <1>15, <3>2 DEF ControlUpdate
    <2>2. QED  BY <2>1, PeriodStep DEF Driving, Sampled
  <1>16. CASE ControlDrop
    <2>1. /\ ctl.pc = "drop"
          /\ ctl'.pc = "top" \/ (ctl'.pc = "gap" /\ ctl'.health = ctl.health)
          /\ UNCHANGED <<transition, silenced, disabled, rx, main, latest_health>>
      BY <1>1, <1>3, <1>16 DEF ControlDrop, CtlType
    <2>2. /\ node'.vehicle_safety_mode = node.vehicle_safety_mode
          /\ node.recovery_pending => node'.recovery_pending
      BY <1>4, <1>16 DEF ControlDrop
    <2>3. panda'.mode = panda.mode /\ panda'.profile = panda.profile /\ (panda'.ready => panda.ready)
      <3> DEFINE kept == panda.longitudinal /\ ~panda.profile
      <3>1. panda' = [panda EXCEPT !.longitudinal = kept] \/ panda' = Broken(panda)
        BY <1>16 DEF ControlDrop
      <3> HIDE DEF kept
      <3>2. /\ [panda EXCEPT !.longitudinal = kept].mode = panda.mode
            /\ [panda EXCEPT !.longitudinal = kept].profile = panda.profile
            /\ [panda EXCEPT !.longitudinal = kept].ready = panda.ready
        BY <1>1 DEF Panda
      <3>3. QED  BY <1>1, <3>1, <3>2, BrokenFacts, ZenonT(40)
    <2>4. QED  BY <1>5, <2>1, <2>2, <2>3, PeriodStep DEF Driving, Sampled
  <1>17. CASE ControlGap
    <2>1. /\ ctl.pc = "gap" /\ ctl'.pc \in {"no_output", "take"} /\ ctl'.health = ctl.health
          /\ UNCHANGED <<transition, silenced, disabled, rx, main, latest_health, panda>>
      BY <1>1, <1>17 DEF ControlGap, CtlType
    <2>2. /\ node'.vehicle_safety_mode = node.vehicle_safety_mode
          /\ node'.recovery_pending = node.recovery_pending
      BY <1>1, <1>17 DEF ControlGap, NodeState
    <2>3. QED  BY <2>1, <2>2, PeriodStep DEF Driving, Sampled
  <1>18. CASE ControlGapFailed
    <2>1. /\ ctl.pc = "gap_failed" /\ ctl'.pc = "top"
          /\ UNCHANGED <<transition, silenced, disabled, rx, main, latest_health, panda>>
      BY <1>3, <1>18 DEF ControlGapFailed
    <2>2. /\ node'.vehicle_safety_mode = node.vehicle_safety_mode
          /\ node'.recovery_pending
      BY <1>4, <1>18 DEF ControlGapFailed
    <2>3. QED  BY <1>5, <2>1, <2>2, PeriodStep DEF Driving
  <1>19. CASE ControlTake
    <2>1. /\ ctl.pc = "take" /\ ctl'.pc \in {"takeover", "cleanup"} /\ ctl'.health = ctl.health
          /\ UNCHANGED <<node, transition, silenced, disabled, rx, main, latest_health, panda>>
          /\ ctl'.pc = "takeover" => ~node.vehicle_safety_mode
      BY <1>1, <1>19 DEF ControlTake, CtlType
    <2>2. QED  BY <2>1, PeriodStep DEF Driving, Sampled
  <1>20. CASE ControlTook
    <2>1. /\ ctl.pc = "took" /\ ctl'.pc \in {"top", "take_failed"}
          /\ UNCHANGED <<node, transition, silenced, disabled, rx, main>>
          /\ \/ latest_health' = HealthOf(panda, TRUE) /\ panda' = panda
             \/ panda' = Broken(panda)
      BY <1>1, <1>3, <1>20 DEF ControlTook, CtlType
    <2>2. transition.owner # "control"
      BY <2>1 DEF Inductive, LockInStep
    <2>3. /\ panda'.mode = panda.mode /\ panda'.profile = panda.profile
          /\ panda'.ready => panda.ready /\ latest_health' = HealthOf(panda, TRUE)
      <3>1. CASE latest_health' = HealthOf(panda, TRUE) /\ panda' = panda
        BY <3>1
      <3>2. CASE panda' = Broken(panda)
        <4>1. /\ Broken(panda).mode = panda.mode /\ Broken(panda).profile = panda.profile
              /\ ~Broken(panda).ready
          BY <1>1, BrokenFacts
        <4>2. QED  BY <3>2, <4>1
      <3>3. QED  BY <2>1, <3>1, <3>2
    <2>4. Driving /\ panda'.ready => Vehicular(latest_health')
      BY <1>1, <2>3, HealthOfFacts DEF Inductive, HealthInStep, Vehicular
    <2>5. /\ Driving /\ rx.health.connected => Vehicular(rx.health)
          /\ rx.pc \in {"disarm", "reset"} => ~panda'.ready
      BY <2>3 DEF Inductive, HealthInStep
    <2>6. ~LockFree => rx.health = NoHealth
      BY DEF Inductive, LockInStep
    <2>7. QED  BY <1>5, <2>1, <2>2, <2>3, <2>4, <2>5, <2>6, QuietStep DEF Driving
  <1>21. CASE ControlTakeFailed
    <2>1. /\ ctl.pc = "take_failed" /\ ctl'.pc = "top"
          /\ UNCHANGED <<transition, silenced, disabled, rx, main, latest_health, panda>>
      BY <1>3, <1>21 DEF ControlTakeFailed
    <2>2. /\ node'.vehicle_safety_mode = node.vehicle_safety_mode
          /\ node'.recovery_pending
      BY <1>4, <1>21 DEF ControlTakeFailed
    <2>3. QED  BY <1>5, <2>1, <2>2, PeriodStep DEF Driving
  <1>22. CASE ControlCleanup
    <2>1. /\ ctl.pc = "cleanup" /\ ctl'.pc \in {"top", "no_output"}
          /\ UNCHANGED <<transition, silenced, disabled, rx, main, latest_health, panda>>
      BY <1>1, <1>3, <1>22 DEF ControlCleanup, CtlType
    <2>2. /\ node'.vehicle_safety_mode = node.vehicle_safety_mode
          /\ node'.recovery_pending
      <3> DEFINE waits == ctl.decision.state = "Passive" /\ ctl.input.command = "gap"
      <3>1. /\ node' = [InternalDisarm(node, ~waits) EXCEPT !.applied_arm = FALSE]
            /\ (~waits) \in BOOLEAN
        BY <1>22 DEF ControlCleanup
      <3> HIDE DEF waits
      <3>2. QED  BY <1>4, <3>1
    <2>3. QED  BY <1>5, <2>1, <2>2, PeriodStep DEF Driving
  <1>23. CASE ControlOutput
    <2>1. /\ ctl.pc = "cleanup" /\ ctl'.pc = "send" /\ ctl'.health = ctl.health
          /\ UNCHANGED <<transition, silenced, disabled, rx, main, latest_health, panda>>
      BY <1>1, <1>23 DEF ControlOutput, CtlType
    <2>2. /\ node'.vehicle_safety_mode = node.vehicle_safety_mode
          /\ node.recovery_pending => node'.recovery_pending
      BY <1>4, <1>23 DEF ControlOutput
    <2>3. QED  BY <2>1, <2>2, PeriodStep DEF Driving, Sampled
  <1>24. CASE ControlSend
    <2>1. /\ ctl.pc = "send" /\ ctl'.pc = "top"
          /\ UNCHANGED <<transition, silenced, disabled, rx, main, latest_health>>
      BY <1>3, <1>24 DEF ControlSend
    <2>2. /\ node'.vehicle_safety_mode = node.vehicle_safety_mode
          /\ node.recovery_pending => node'.recovery_pending
      BY <1>4, <1>24 DEF ControlSend
    <2>3. panda'.mode = panda.mode /\ panda'.profile = panda.profile /\ (panda'.ready => panda.ready)
      <3>1. panda' \in {panda, Broken(panda)} \cup AfterFailure(panda)
        BY <1>24 DEF ControlSend
      <3>2. AfterFailure(panda) \subseteq {panda, Broken(panda)}
        BY <1>1, BrokenFacts
      <3>3. QED  BY <1>1, <3>1, <3>2, BrokenFacts
    <2>4. QED  BY <1>5, <2>1, <2>2, <2>3, PeriodStep DEF Driving
  <1>25. QED
    BY <1>6, <1>7, <1>8, <1>9, <1>10, <1>11, <1>12, <1>13, <1>14, <1>15, <1>16, <1>17, <1>18,
       <1>19, <1>20, <1>21, <1>22, <1>23, <1>24 DEF Control

\* The steps of the receive thread.
LEMMA ReceiveKeepsInvariant ==
    ASSUME Inductive, TypeOK', Receive
    PROVE  Inductive'
  <1>1. /\ node \in NodeState /\ panda \in Panda /\ rx \in RxType /\ latest_health \in Health
    BY TypedIsTypeOK DEF Inductive, Typed
  <1>2. /\ Driving /\ rx.health.connected => Vehicular(rx.health)
        /\ rx.pc \in {"disarm", "reset"} => ~panda.ready
        /\ Driving => panda.mode = "hyundai_canfd" /\ panda.profile
    BY DEF Inductive, HealthInStep
  <1>3. ~LockFree => rx.health = NoHealth
    BY DEF Inductive, LockInStep
  <1>4. \A pc \in RxPoints : [rx EXCEPT !.pc = pc].pc = pc /\ [rx EXCEPT !.pc = pc].health = rx.health
    BY <1>1 DEF RxType
  <1>5. /\ Closed(panda).mode = panda.mode /\ Closed(panda).profile = panda.profile
        /\ ~Closed(panda).ready
        /\ ~OwnershipDropped(node).vehicle_safety_mode
        /\ OwnershipDropped(node).recovery_pending = node.recovery_pending
    BY <1>1, BrokenFacts, OwnershipDroppedFacts
  <1>6. /\ InternalDisarm(node, TRUE).vehicle_safety_mode = node.vehicle_safety_mode
        /\ InternalDisarm(node, TRUE).recovery_pending
    BY <1>1, InternalDisarmFacts
  <1>7. CASE RxStop
    <2>1. /\ rx.pc = "poll" /\ rx'.pc = "done" /\ rx'.health = rx.health
          /\ UNCHANGED <<transition, silenced, disabled, ctl, sup, node, panda, main, latest_health>>
      BY <1>4, <1>7 DEF RxStop, RxPoints
    <2>2. QED  BY <1>2, <1>3, <2>1, BackgroundStep DEF Driving
  <1>8. CASE RxConnect
    <2>1. /\ rx.pc = "poll" /\ LockFree
          /\ UNCHANGED <<transition, silenced, disabled, ctl, sup, main, latest_health>>
          /\ \/ /\ node' = OwnershipDropped(node)
                /\ rx' = [rx EXCEPT !.pc = IF disabled # {} THEN "restore" ELSE "poll"]
             \/ /\ node' = node /\ panda' = Closed(panda) /\ rx' = [rx EXCEPT !.pc = "failed"]
      BY <1>8 DEF RxConnect
    <2>2. CASE /\ node' = OwnershipDropped(node)
               /\ rx' = [rx EXCEPT !.pc = IF disabled # {} THEN "restore" ELSE "poll"]
      <3>1. /\ rx'.pc \in {"restore", "poll"}
            /\ disabled # {} => rx'.pc = "restore"
        BY <1>4, <2>2 DEF RxPoints
      <3>2. ~Driving' /\ node'.recovery_pending = node.recovery_pending
        BY <1>5, <2>2 DEF Driving
      <3>3. QED  BY <2>1, <3>1, <3>2, BackgroundStep DEF LockFree
    <2>3. CASE node' = node /\ panda' = Closed(panda) /\ rx' = [rx EXCEPT !.pc = "failed"]
      <3>1. rx'.pc = "failed" /\ rx'.health = rx.health
        BY <1>4, <2>3 DEF RxPoints
      <3>2. QED  BY <1>2, <1>5, <2>1, <2>3, <3>1, BackgroundStep DEF Driving, LockFree
    <2>4. QED  BY <2>1, <2>2, <2>3
  <1>9. CASE RxRestorePending
    <2>1. /\ rx.pc = "restore" /\ rx'.pc = "poll" /\ rx'.health = rx.health
          /\ node' = InternalDisarm(node, TRUE)
          /\ UNCHANGED <<transition, silenced, disabled, ctl, sup, panda, main, latest_health>>
      BY <1>4, <1>9 DEF RxRestorePending, RxPoints
    <2>2. QED  BY <1>2, <1>3, <1>6, <2>1, BackgroundStep DEF Driving
  <1>10. CASE RxRead
    <2>1. /\ rx.pc = "poll"
          /\ UNCHANGED <<transition, silenced, disabled, ctl, sup, node, main, latest_health>>
          /\ panda' \in {panda} \cup AfterFailure(panda)
      BY <1>10 DEF RxRead
    <2>2. panda'.mode = panda.mode /\ panda'.profile = panda.profile /\ (panda'.ready => panda.ready)
      BY <1>1, <2>1, BrokenFacts
    <2>3. /\ rx'.pc \in {"commit", "failed"}
          /\ \/ rx'.health \in {rx.health, NoHealth}
             \/ LockFree /\ \E ready \in BOOLEAN : rx'.health = HealthOf(panda, ready)
      <3>1. CASE rx' = [rx EXCEPT !.pc = "failed"]
        BY <1>4, <3>1 DEF RxPoints
      <3>2. CASE \E ready \in BOOLEAN :
                    rx' = [rx EXCEPT !.pc = "commit",
                             !.health = IF LockFree THEN HealthOf(panda, ready) ELSE NoHealth]
        <4>1. PICK ready \in BOOLEAN :
                    rx' = [rx EXCEPT !.pc = "commit",
                             !.health = IF LockFree THEN HealthOf(panda, ready) ELSE NoHealth]
          BY <3>2
        <4> DEFINE h == IF LockFree THEN HealthOf(panda, ready) ELSE NoHealth
        <4>2. rx' = [rx EXCEPT !.pc = "commit", !.health = h]
          BY <4>1
        <4>3. h = NoHealth \/ (LockFree /\ h = HealthOf(panda, ready))
          OBVIOUS
        <4> HIDE DEF h
        <4>4. rx'.pc = "commit" /\ rx'.health = h
          BY <1>1, <4>2 DEF RxType
        <4>5. QED  BY <4>3, <4>4
      <3>3. QED  BY <1>10, <3>1, <3>2 DEF RxRead
    <2>4. \A ready \in BOOLEAN : /\ HealthOf(panda, ready).mode = panda.mode
                                 /\ HealthOf(panda, ready).profile = panda.profile
      BY <1>1, HealthOfFacts
    <2>5. Driving' /\ rx'.health.connected => Vehicular(rx'.health)
      BY <1>2, <2>1, <2>3, <2>4, NoHealthFacts DEF Driving, Vehicular
    <2>6. ~LockFree => rx'.health = NoHealth
      BY <1>3, <2>3
    <2>7. QED  BY <2>1, <2>2, <2>3, <2>5, <2>6, BackgroundStep DEF Driving
  <1>11. CASE RxCommit
    <2>1. /\ rx.pc = "commit" /\ rx'.pc = "poll" /\ rx'.health = NoHealth
          /\ UNCHANGED <<transition, silenced, disabled, ctl, sup, node, panda, main>>
      BY <1>1, <1>11 DEF RxCommit, RxType
    <2>2. Driving => latest_health' = latest_health \/ Vehicular(latest_health')
      BY <1>2, <1>11 DEF RxCommit
    <2>3. QED  BY <2>1, <2>2, NoHealthFacts, BackgroundStep DEF Driving
  <1>12. CASE RxFailed
    <2>1. /\ rx.pc = "failed" /\ rx'.pc = "disarm" /\ LockFree
          /\ panda' = Closed(panda) /\ node' = OwnershipDropped(node)
          /\ UNCHANGED <<transition, silenced, disabled, ctl, sup, main, latest_health>>
      BY <1>4, <1>12 DEF RxFailed, RxPoints
    <2>2. ~Driving' /\ ~panda'.ready /\ node'.recovery_pending = node.recovery_pending
      BY <1>5, <2>1 DEF Driving
    <2>3. QED  BY <2>1, <2>2, BackgroundStep DEF LockFree
  <1>13. CASE RxDisarm
    <2>1. /\ rx.pc = "disarm" /\ rx'.pc = "reset" /\ rx'.health = rx.health
          /\ node' = InternalDisarm(node, TRUE)
          /\ UNCHANGED <<transition, silenced, disabled, ctl, sup, panda, main, latest_health>>
      BY <1>4, <1>13 DEF RxDisarm, RxPoints
    <2>2. QED  BY <1>2, <1>3, <1>6, <2>1, BackgroundStep DEF Driving
  <1>14. CASE RxReset
    <2>1. /\ rx.pc = "reset" /\ rx'.pc = "poll" /\ rx'.health = rx.health
          /\ UNCHANGED <<transition, silenced, disabled, ctl, sup, panda, main>>
      BY <1>4, <1>14 DEF RxReset, RxPoints
    <2>2. /\ node'.vehicle_safety_mode = node.vehicle_safety_mode
          /\ node'.recovery_pending = node.recovery_pending
      BY <1>1, <1>14 DEF RxReset, NodeState
    <2>3. QED  BY <1>2, <1>3, <2>1, <2>2, BackgroundStep DEF Driving
  <1>15. QED
    BY <1>7, <1>8, <1>9, <1>10, <1>11, <1>12, <1>13, <1>14 DEF Receive

\* A step that leaves both threads of the bus alone, and the mode of the Panda.
LEMMA OutsideStep ==
    ASSUME Inductive, TypeOK',
           UNCHANGED <<transition, silenced, disabled, ctl, sup, rx, latest_health>>,
           node'.vehicle_safety_mode = node.vehicle_safety_mode,
           node'.recovery_pending = node.recovery_pending,
           panda'.mode = panda.mode /\ panda'.profile = panda.profile,
           panda'.ready => panda.ready,
           transition.owner = "main" => main'.pc = main.pc
    PROVE  Inductive'
  <1>1. Driving' /\ rx'.health.connected => Vehicular(rx'.health)
    BY DEF Inductive, HealthInStep, Driving
  <1>2. ~LockFree => rx'.health = NoHealth
    BY DEF Inductive, LockInStep
  <1>3. rx'.pc \in {"disarm", "reset"} => ~panda'.ready
    BY DEF Inductive, HealthInStep
  <1>4. QED  BY <1>1, <1>2, <1>3, BackgroundStep DEF Driving

\* The steps of the main thread, the driver, the firmware and the cable.
LEMMA OutsideKeepsInvariant ==
    ASSUME Inductive, TypeOK', Main \/ Request \/ Environment
    PROVE  Inductive'
  <1>1. node \in NodeState /\ panda \in Panda /\ main \in MainType
    BY TypedIsTypeOK DEF Inductive, Typed
  <1>2. transition.owner = "main" => main.pc = "no_output"
    BY DEF Inductive, LockInStep
  <1>3. CASE ArmStore
    <2>1. /\ main.pc = "arm"
          /\ UNCHANGED <<transition, silenced, disabled, ctl, sup, rx, latest_health, panda>>
      BY <1>3 DEF ArmStore
    <2>2. /\ node'.vehicle_safety_mode = node.vehicle_safety_mode
          /\ node'.recovery_pending = node.recovery_pending
      BY <1>1, <1>3 DEF ArmStore, NodeState
    <2>3. QED  BY <1>2, <2>1, <2>2, OutsideStep
  <1>4. CASE MainStop
    <2>1. /\ main.pc = "stop"
          /\ UNCHANGED <<transition, silenced, disabled, ctl, sup, rx, latest_health, panda>>
      BY <1>4 DEF MainStop
    <2>2. /\ node'.vehicle_safety_mode = node.vehicle_safety_mode
          /\ node'.recovery_pending = node.recovery_pending
      BY <1>1, <1>4 DEF MainStop, NodeState
    <2>3. QED  BY <1>2, <2>1, <2>2, OutsideStep
  <1>5. CASE MainJoin
    <2>1. /\ main.pc = "join" /\ panda' \in {panda, Closed(panda)}
          /\ UNCHANGED <<transition, silenced, disabled, ctl, sup, rx, latest_health, node>>
      BY <1>5 DEF MainJoin
    <2>2. panda'.mode = panda.mode /\ panda'.profile = panda.profile /\ (panda'.ready => panda.ready)
      BY <1>1, <2>1, BrokenFacts
    <2>3. QED  BY <1>2, <2>1, <2>2, OutsideStep
  <1>6. CASE Shutdown
    <2>1. /\ main.pc = "spin"
          /\ UNCHANGED <<transition, silenced, disabled, ctl, sup, rx, latest_health, panda>>
      BY <1>6 DEF Shutdown
    <2>2. /\ node'.vehicle_safety_mode = node.vehicle_safety_mode
          /\ node'.recovery_pending = node.recovery_pending
      BY <1>1, <1>6 DEF Shutdown, NodeState
    <2>3. QED  BY <1>2, <2>1, <2>2, OutsideStep
  <1>7. ASSUME NEW arm \in BOOLEAN, ArmCall(arm)
        PROVE  Inductive'
    <2>1. /\ main.pc = "spin"
          /\ UNCHANGED <<transition, silenced, disabled, ctl, sup, rx, latest_health, panda, node>>
      BY <1>7 DEF ArmCall
    <2>2. QED  BY <1>2, <2>1, OutsideStep
  <1>8. ASSUME UNCHANGED <<transition, silenced, disabled, ctl, sup, rx, latest_health, node, main>>,
               panda'.mode = panda.mode, panda'.profile = panda.profile,
               panda'.ready <=> panda.ready
        PROVE  Inductive'
    BY <1>8, OutsideStep
  <1>9. ASSUME NEW button \in DriverButtons, Press(button)
        PROVE  Inductive'
    <2>1. UNCHANGED <<transition, silenced, disabled, ctl, sup, rx, latest_health, node, main>>
      BY <1>9 DEF Press
    <2>2. panda'.mode = panda.mode /\ panda'.profile = panda.profile /\ (panda'.ready <=> panda.ready)
      <3> DEFINE both == panda.lateral /\ panda.longitudinal
                 either == ~panda.lateral \/ both
                 none == ~both
      <3>1. \/ panda' = panda
            \/ panda' = [panda EXCEPT !.lateral = either, !.longitudinal = FALSE]
            \/ panda' = [panda EXCEPT !.lateral = none, !.longitudinal = none]
        BY <1>9 DEF Press
      <3> HIDE DEF both, either, none
      <3>2. QED  BY <1>1, <3>1 DEF Panda
    <2>3. QED  BY <1>8, <2>1, <2>2
  <1>10. CASE SessionAbort \/ Unplug \/ Replug
    <2>1. UNCHANGED <<transition, silenced, disabled, ctl, sup, rx, latest_health, node, main>>
      BY <1>10 DEF SessionAbort, Unplug, Replug
    <2>2. panda'.mode = panda.mode /\ panda'.profile = panda.profile /\ (panda'.ready <=> panda.ready)
      BY <1>1, <1>10 DEF SessionAbort, Unplug, Replug, Panda
    <2>3. QED  BY <1>8, <2>1, <2>2
  <1>11. QED
    BY <1>3, <1>4, <1>5, <1>6, <1>7, <1>9, <1>10 DEF Main, Request, Environment

\* A step of a transition after which the node does not drive: nothing is asked of the health.
LEMMA IdleStep ==
    ASSUME Inductive, TypeOK', sup' = sup, ~Driving', rx'.pc = rx.pc,
           panda'.ready => panda.ready,
           LockInStep', FlagsInStep', RecoveryIsScheduled'
    PROVE  Inductive'
  <1>1. SupervisorInStep'
    BY DEF Inductive, SupervisorInStep
  <1>2. HealthInStep'
    BY DEF Inductive, HealthInStep
  <1>3. QED  BY <1>1, <1>2 DEF Inductive

\* While a transition holds the lock, its owner waits for it and the node does not drive.
LEMMA HeldFacts ==
    ASSUME Inductive, transition.step # "none"
    PROVE  /\ ~LockFree /\ ~Driving /\ rx.health = NoHealth
           /\ transition.owner \in {"control", "main"}
           /\ transition.step \in Giving => node.recovery_pending
           /\ transition.step \in Taking =>
                 transition.owner = "control" /\ ctl.pc = "takeover"
  <1>1. ~LockFree /\ ~Driving /\ rx.health = NoHealth
    BY DEF Inductive, LockInStep
  <1>2. transition.owner \in {"control", "main"}
    BY <1>1, TypedIsTypeOK DEF Inductive, Typed, TransitionType, LockFree
  <1>3. transition.step \in Giving => node.recovery_pending
    BY DEF Inductive, LockInStep
  <1>4. transition.step \in Taking => transition.step \notin Giving
    BY DEF Giving, Taking
  <1>5. transition.step \in Taking => transition.owner = "control" /\ ctl.pc = "takeover"
    BY <1>2, <1>4 DEF Inductive, LockInStep
  <1>6. QED  BY <1>1, <1>2, <1>3, <1>5

\* The steps of enter_no_output_mode.
LEMMA GivingKeepsInvariant ==
    ASSUME Inductive, TypeOK',
           \/ \E owner \in {"control", "main"} : NoOutputBegin(owner)
           \/ NoOutputRestore \/ NoOutputStandby \/ NoOutputFinish
    PROVE  Inductive'
  <1>1. /\ node \in NodeState /\ panda \in Panda /\ rx \in RxType /\ transition \in TransitionType
        /\ ctl \in CtlType /\ main \in MainType
    BY TypedIsTypeOK DEF Inductive, Typed
  <1>2. ASSUME NEW owner \in {"control", "main"}, NoOutputBegin(owner)
        PROVE  Inductive'
    <2>1. /\ LockFree /\ rx' = HealthOutdated
          /\ transition' = [owner |-> owner, step |-> "restore", error |-> ~Reachable]
          /\ UNCHANGED <<sup, ctl, main, silenced, disabled>>
          /\ panda' \in {panda, Broken(panda)}
      BY <1>2 DEF NoOutputBegin, Begins
    <2>2. transition'.owner = owner /\ transition'.step = "restore"
      BY <2>1
    <2>3. rx'.pc = rx.pc /\ rx'.health = NoHealth
      BY <1>1, <2>1 DEF HealthOutdated, RxType
    <2>4. ~Driving' /\ node'.recovery_pending
      BY <1>1, <1>2 DEF NoOutputBegin, Driving, NodeState
    <2>5. panda'.ready => panda.ready
      BY <1>1, <2>1, BrokenFacts
    <2>6. IF owner = "control" THEN ctl.pc = "no_output" ELSE main.pc = "no_output"
      BY <1>2 DEF NoOutputBegin
    <2>7. LockInStep'
      BY <2>1, <2>2, <2>3, <2>4, <2>6 DEF LockInStep, LockFree, Giving
    <2>8. FlagsInStep'
      BY <2>1, <2>2, <2>4 DEF Inductive, FlagsInStep, Taking
    <2>9. RecoveryIsScheduled'
      BY <2>4 DEF RecoveryIsScheduled
    <2>10. QED  BY <2>1, <2>3, <2>4, <2>5, <2>7, <2>8, <2>9, IdleStep
  <1>3. CASE NoOutputRestore
    <2> DEFINE diagnosing == SetMode(panda, "elm327", node.preserve_command_session)
    <2>1. /\ transition.step = "restore"
          /\ UNCHANGED <<node, sup, ctl, rx, main>>
      BY <1>3 DEF NoOutputRestore
    <2>2. /\ ~LockFree /\ ~Driving /\ rx.health = NoHealth /\ node.recovery_pending
          /\ transition.owner \in {"control", "main"}
      BY <2>1, HeldFacts DEF Giving
    <2>3. PICK failed \in BOOLEAN :
              /\ transition' = [transition EXCEPT !.step = "standby",
                                                  !.error = transition.error \/ failed]
              /\ ~failed => disabled' = {}
      <3>1. (disabled' # {}) \in BOOLEAN
        OBVIOUS
      <3>2. QED  BY <1>3, <3>1 DEF NoOutputRestore
    <2>4. /\ transition'.owner = transition.owner /\ transition'.step = "standby"
          /\ ~transition'.error => disabled' = {}
      BY <1>1, <2>3 DEF TransitionType
    <2>5. diagnosing \in Panda /\ diagnosing.ready = panda.ready
      BY <1>1, SetModeFacts DEF Modes, NodeState
    <2>6. panda' \in {panda, diagnosing, Broken(panda)} \cup AfterFailure(diagnosing)
      BY <1>3 DEF NoOutputRestore
    <2>7. panda'.ready => panda.ready
      <3> HIDE DEF diagnosing
      <3>1. AfterFailure(diagnosing) \subseteq {diagnosing, Broken(diagnosing)}
        BY <2>5, BrokenFacts
      <3>2. ~Broken(diagnosing).ready /\ ~Broken(panda).ready
        BY <1>1, <2>5, BrokenFacts
      <3>3. QED  BY <2>5, <2>6, <3>1, <3>2
    <2>8. silenced \subseteq disabled => silenced' \subseteq disabled'
      <3>1. \/ UNCHANGED <<silenced, disabled>>
            \/ \E confirmed \in SUBSET Confirmable :
                  silenced' \subseteq silenced /\ disabled' = disabled \ confirmed
        BY <1>3 DEF NoOutputRestore, Restores, Confirms
      <3>2. \A e \in Confirmable : e \notin silenced'
        BY DEF Confirmable, StockTraffic
      <3>3. QED  BY <3>1, <3>2
    <2>9. LockInStep'
      <3>1. LockFree' <=> LockFree
        BY <2>4 DEF LockFree
      <3>2. /\ transition.owner = "main" => main.pc = "no_output"
            /\ transition.owner = "control" => ctl.pc = "no_output"
        BY <2>1 DEF Inductive, LockInStep, Giving
      <3>3. ~Driving'
        BY <2>1, <2>2 DEF Driving
      <3>4. QED  BY <2>1, <2>2, <2>4, <3>1, <3>2, <3>3 DEF LockInStep, Giving
    <2>10. FlagsInStep'
      BY <2>1, <2>2, <2>4, <2>8 DEF Inductive, FlagsInStep, Taking, Driving
    <2>11. RecoveryIsScheduled'
      BY <2>1, <2>2 DEF RecoveryIsScheduled
    <2>12. ~Driving'
      BY <2>1, <2>2 DEF Driving
    <2>13. QED  BY <2>1, <2>7, <2>9, <2>10, <2>11, <2>12, IdleStep
  <1>4. CASE NoOutputStandby
    <2>1. /\ transition.step = "standby"
          /\ UNCHANGED <<node, sup, ctl, rx, main, silenced, disabled>>
      BY <1>4 DEF NoOutputStandby
    <2>2. /\ ~LockFree /\ ~Driving /\ rx.health = NoHealth /\ node.recovery_pending
          /\ transition.owner \in {"control", "main"}
      BY <2>1, HeldFacts DEF Giving
    <2>3. /\ transition'.owner = transition.owner /\ transition'.step = "finish"
          /\ ~transition'.error => ~transition.error
      BY <1>1, <1>4 DEF NoOutputStandby, TransitionType
    <2>4. panda'.ready => panda.ready
      <3>1. panda' \in {Standby(panda)} \cup AfterFailure(panda)
                      \cup AfterFailure(PassThrough(panda)) \cup AfterFailure(Standby(panda))
        BY <1>4 DEF NoOutputStandby
      <3>2. /\ PassThrough(panda) \in Panda /\ PassThrough(panda).ready = panda.ready
            /\ Standby(panda) \in Panda /\ Standby(panda).ready = panda.ready
        BY <1>1, StandbyFacts
      <3>3. \A p \in Panda : \A q \in AfterFailure(p) : q.ready => p.ready
        BY BrokenFacts
      <3>4. QED  BY <1>1, <3>1, <3>2, <3>3
    <2>5. LockInStep'
      <3>1. LockFree' <=> LockFree
        BY <2>3 DEF LockFree
      <3>2. /\ transition.owner = "main" => main.pc = "no_output"
            /\ transition.owner = "control" => ctl.pc = "no_output"
            /\ ~transition.error => disabled = {}
        BY <2>1 DEF Inductive, LockInStep, Giving
      <3>3. ~Driving'
        BY <2>1, <2>2 DEF Driving
      <3>4. QED  BY <2>1, <2>2, <2>3, <3>1, <3>2, <3>3 DEF LockInStep, Giving
    <2>6. FlagsInStep'
      BY <2>1, <2>2, <2>3 DEF Inductive, FlagsInStep, Taking, Driving
    <2>7. RecoveryIsScheduled'
      BY <2>1, <2>2 DEF RecoveryIsScheduled
    <2>8. ~Driving'
      BY <2>1, <2>2 DEF Driving
    <2>9. QED  BY <2>1, <2>4, <2>5, <2>6, <2>7, <2>8, IdleStep
  <1>5. CASE NoOutputFinish
    <2>1. /\ transition.step = "finish" /\ transition' = NoTransition
          /\ UNCHANGED <<sup, rx, panda, silenced, disabled>>
      BY <1>5 DEF NoOutputFinish
    <2>2. /\ ~Driving /\ node.recovery_pending
          /\ transition.owner \in {"control", "main"}
          /\ ~transition.error => disabled = {}
      BY <2>1, HeldFacts DEF Inductive, LockInStep, Giving
    <2>3. /\ ~Driving'
          /\ node'.recovery_pending \/ disabled' = {}
      <3>1. CASE transition.error
        BY <1>1, <1>5, <2>2, <3>1 DEF NoOutputFinish, NodeState, Driving
      <3>2. CASE ~transition.error
        BY <1>1, <1>5, <2>1, <2>2, <3>2 DEF NoOutputFinish, NodeState, Driving
      <3>3. QED  BY <3>1, <3>2
    <2>4. /\ LockFree' /\ transition'.owner = "nobody" /\ transition'.step = "none"
          /\ "none" \notin Giving /\ "none" \notin Taking
      BY <2>1, NoTransitionFacts DEF LockFree, Giving, Taking
    <2>5. LockInStep'
      BY <2>3, <2>4 DEF LockInStep
    <2>6. FlagsInStep'
      <3>1. ~LateWriteErrors => silenced' \subseteq disabled'
        BY <2>1 DEF Inductive, FlagsInStep
      <3>2. disabled' \subseteq silenced' \/ node'.recovery_pending
        BY <2>3
      <3>3. QED  BY <2>3, <2>4, <3>1, <3>2 DEF FlagsInStep
    <2>7. RecoveryIsScheduled'
      BY <2>3 DEF RecoveryIsScheduled
    <2>8. QED  BY <2>1, <2>3, <2>5, <2>6, <2>7, IdleStep
  <1>6. QED  BY <1>2, <1>3, <1>4, <1>5

\* The steps of enter_vehicle_safety_mode.
LEMMA TakingKeepsInvariant ==
    ASSUME Inductive, TypeOK',
           TakeoverBegin \/ (\E e \in ECUs : DisableEcu(e)) \/ TakeoverConfigure
    PROVE  Inductive'
  <1>1. /\ node \in NodeState /\ panda \in Panda /\ rx \in RxType /\ transition \in TransitionType
        /\ ctl \in CtlType /\ disabled \subseteq ECUs
    BY TypedIsTypeOK DEF Inductive, Typed
  <1>2. /\ [ctl EXCEPT !.pc = "take_failed"].pc = "take_failed"
        /\ [ctl EXCEPT !.pc = "took"].pc = "took"
    BY <1>1 DEF CtlType
  <1>3. /\ "none" \notin Giving /\ "none" \notin Taking
        /\ \A s \in Taking : s \notin Giving /\ s # "none"
    BY DEF Giving, Taking
  <1>4. ASSUME UNCHANGED <<node, sup, rx>>, ~Driving, rx.health = NoHealth \/ LockFree,
               transition' = NoTransition \/ (LockFree /\ transition' = transition),
               ctl'.pc = "take_failed", panda'.ready => panda.ready,
               ~LateWriteErrors => silenced' \subseteq disabled'
        PROVE  Inductive'
    <2>1. transition'.owner = "nobody" /\ transition'.step = "none"
      BY <1>4, NoTransitionFacts DEF Inductive, LockInStep, LockFree
    <2>2. ~Driving'
      BY <1>4 DEF Driving
    <2>3. LockInStep'
      BY <1>3, <1>4, <2>1, <2>2 DEF LockInStep, LockFree
    <2>4. FlagsInStep'
      BY <1>3, <1>4, <2>1, <2>2 DEF FlagsInStep
    <2>5. RecoveryIsScheduled'
      BY <1>4 DEF RecoveryIsScheduled
    <2>6. QED  BY <1>4, <2>2, <2>3, <2>4, <2>5, IdleStep
  <1>5. CASE TakeoverBegin
    <2>1. /\ ctl.pc = "takeover" /\ rx' = HealthOutdated /\ LockFree
          /\ UNCHANGED <<node, sup, main, silenced, disabled>>
      BY <1>5 DEF TakeoverBegin, Begins
    <2>2. rx'.pc = rx.pc /\ rx'.health = NoHealth
      BY <1>1, <2>1 DEF HealthOutdated, RxType
    <2>3. ~Driving /\ ~Driving'
      BY <2>1 DEF Inductive, LockInStep, Driving
    <2>4. panda'.ready => panda.ready
      <3>1. panda' \in {panda, SetMode(panda, "elm327", TRUE)} \cup AfterFailure(panda)
        BY <1>5 DEF TakeoverBegin
      <3>2. SetMode(panda, "elm327", TRUE).ready = panda.ready
        BY <1>1, SetModeFacts DEF Modes
      <3>3. AfterFailure(panda) \subseteq {panda, Broken(panda)} /\ ~Broken(panda).ready
        BY <1>1, BrokenFacts
      <3>4. QED  BY <3>1, <3>2, <3>3
    <2>5. ~LateWriteErrors => silenced' \subseteq disabled'
      BY <2>1 DEF Inductive, FlagsInStep
    <2>6. CASE /\ ~TakeoverRefused /\ ctl' = ctl
               /\ transition' = [owner |-> "control", step |-> "camera", error |-> FALSE]
      <3>1. transition'.owner = "control" /\ transition'.step = "camera"
        BY <2>6
      <3>2. disabled' \subseteq silenced'
        BY <2>1, <2>6 DEF Inductive, FlagsInStep, TakeoverRefused
      <3>3. LockInStep'
        BY <2>1, <2>2, <2>3, <2>6, <3>1 DEF LockInStep, LockFree, Giving
      <3>4. FlagsInStep'
        BY <2>3, <2>5, <3>1, <3>2 DEF FlagsInStep
      <3>5. RecoveryIsScheduled'
        BY <3>1 DEF RecoveryIsScheduled, LockFree
      <3>6. QED  BY <2>1, <2>2, <2>3, <2>4, <3>3, <3>4, <3>5, IdleStep
    <2>7. CASE ctl' = [ctl EXCEPT !.pc = "take_failed"] /\ transition' = transition
      <3>1. ctl'.pc = "take_failed"
        BY <1>2, <2>7
      <3>2. transition'.owner = "nobody" /\ transition'.step = "none"
        BY <2>1, <2>7 DEF Inductive, LockInStep, LockFree
      <3>3. LockInStep'
        BY <1>3, <2>2, <2>3, <3>1, <3>2 DEF LockInStep, LockFree
      <3>4. FlagsInStep'
        BY <1>3, <2>3, <2>5, <3>1, <3>2 DEF FlagsInStep
      <3>5. RecoveryIsScheduled'
        BY <3>1 DEF RecoveryIsScheduled
      <3>6. QED  BY <2>1, <2>2, <2>3, <2>4, <3>3, <3>4, <3>5, IdleStep
    <2>8. QED  BY <1>5, <2>6, <2>7 DEF TakeoverBegin, Begins
  <1>6. ASSUME NEW e \in ECUs, DisableEcu(e)
        PROVE  Inductive'
    <2>1. /\ transition.step = e /\ e \in Taking
          /\ UNCHANGED <<node, sup, rx, main>>
      BY <1>6 DEF DisableEcu, ECUs, Taking
    <2>2. /\ ~LockFree /\ ~Driving /\ rx.health = NoHealth
          /\ transition.owner = "control" /\ ctl.pc = "takeover"
      BY <1>3, <2>1, HeldFacts
    <2>3. disabled \subseteq silenced /\ (e = "radar" => "camera" \in disabled)
      BY <2>1 DEF Inductive, FlagsInStep
    <2>4. ~LateWriteErrors => silenced \subseteq disabled
      BY DEF Inductive, FlagsInStep
    <2>5. panda'.ready => panda.ready
      <3>1. panda' \in {panda} \cup AfterFailure(panda)
        BY <1>6 DEF DisableEcu
      <3>2. AfterFailure(panda) \subseteq {panda, Broken(panda)} /\ ~Broken(panda).ready
        BY <1>1, BrokenFacts
      <3>3. QED  BY <3>1, <3>2
    <2>6. CASE TakeoverThrows
      <3>1. ctl'.pc = "take_failed" /\ transition' = NoTransition
        BY <1>2, <2>6 DEF TakeoverThrows
      <3>2. ~LateWriteErrors => silenced' \subseteq disabled'
        <4>1. /\ disabled' \in {disabled, disabled \cup {e}}
              /\ silenced' \in {silenced, silenced \cup {e}}
              /\ silenced' # silenced /\ disabled' = disabled => LateWriteErrors \/ e \in disabled
          BY <1>6 DEF DisableEcu
        <4>2. QED  BY <2>4, <4>1
      <3>3. QED  BY <1>4, <2>1, <2>2, <2>5, <3>1, <3>2
    <2>7. CASE /\ transition' = [transition EXCEPT !.step = AfterEcu(e)] /\ ctl' = ctl
               /\ \/ e \in disabled /\ UNCHANGED <<silenced, disabled>>
                  \/ silenced' = silenced \cup {e} /\ disabled' = disabled \cup {e}
      <3>1. AfterEcu(e) \in Taking
        BY DEF AfterEcu, Taking
      <3>2. transition'.owner = "control" /\ transition'.step = AfterEcu(e)
        BY <1>1, <2>2, <2>7 DEF TransitionType
      <3>3. /\ disabled' \subseteq silenced' /\ e \in disabled' /\ disabled \subseteq disabled'
            /\ ~LateWriteErrors => silenced' \subseteq disabled'
        BY <2>3, <2>4, <2>7
      <3>4. AfterEcu(e) = "radar" => "camera" \in disabled'
        BY <3>3 DEF AfterEcu
      <3>5. AfterEcu(e) = "configure" => ECUs \subseteq disabled'
        BY <2>3, <3>3 DEF AfterEcu, ECUs
      <3>6. ~Driving' /\ ~LockFree'
        BY <2>1, <2>2, <3>2 DEF Driving, LockFree
      <3>7. LockInStep'
        <4>1. transition'.step \in {"radar", "configure"}
          BY <3>2 DEF AfterEcu
        <4>2. ctl'.pc = "takeover" /\ rx'.health = NoHealth /\ transition'.owner = "control"
          BY <2>1, <2>2, <2>7, <3>2
        <4>3. QED  BY <3>6, <4>1, <4>2 DEF LockInStep, Giving
      <3>8. FlagsInStep'
        BY <3>2, <3>3, <3>4, <3>5, <3>6 DEF FlagsInStep
      <3>9. RecoveryIsScheduled'
        BY <3>6 DEF RecoveryIsScheduled
      <3>10. QED  BY <2>1, <2>5, <3>6, <3>7, <3>8, <3>9, IdleStep
    <2>8. QED  BY <1>6, <2>6, <2>7 DEF DisableEcu
  <1>7. CASE TakeoverConfigure
    <2> DEFINE vehicular == SetMode(panda, "hyundai_canfd", TRUE)
    <2>1. /\ transition.step = "configure" /\ transition' = NoTransition
          /\ UNCHANGED <<sup, rx, main, silenced, disabled>>
      BY <1>7 DEF TakeoverConfigure, TakeoverThrows
    <2>2. /\ ~LockFree /\ ~Driving /\ rx.health = NoHealth
          /\ transition.owner = "control" /\ ctl.pc = "takeover"
      BY <2>1, HeldFacts DEF Taking
    <2>3. ECUs \subseteq silenced \cap disabled /\ disabled \subseteq silenced
      BY <2>1 DEF Inductive, FlagsInStep, Taking
    <2>4. ~LateWriteErrors => silenced' \subseteq disabled'
      BY <2>1 DEF Inductive, FlagsInStep
    <2>5. /\ vehicular \in Panda /\ vehicular.mode = "hyundai_canfd" /\ vehicular.profile
          /\ vehicular.ready = panda.ready
      BY <1>1, SetModeFacts DEF Modes
    <2>6. CASE node' = node /\ ctl' = [ctl EXCEPT !.pc = "take_failed"]
      <3>1. panda' \in {vehicular, Broken(panda)} \cup AfterFailure(vehicular)
        BY <1>7 DEF TakeoverConfigure
      <3>2. panda'.ready => panda.ready
        <4> HIDE DEF vehicular
        <4>1. AfterFailure(vehicular) \subseteq {vehicular, Broken(vehicular)}
          BY <2>5, BrokenFacts
        <4>2. ~Broken(vehicular).ready /\ ~Broken(panda).ready
          BY <1>1, <2>5, BrokenFacts
        <4>3. QED  BY <2>5, <3>1, <4>1, <4>2
      <3>3. QED  BY <1>2, <1>4, <2>1, <2>2, <2>4, <2>6, <3>2
    <2>7. CASE /\ panda' = vehicular /\ ctl' = [ctl EXCEPT !.pc = "took"]
               /\ node' = [node EXCEPT !.vehicle_safety_mode = TRUE, !.button_rearm_takeover = FALSE]
      <3>1. ctl'.pc = "took" /\ "took" \notin Sampled
        BY <1>2, <2>7 DEF Sampled
      <3>2. Driving'
        BY <1>1, <2>7 DEF Driving, NodeState
      <3>3. transition'.owner = "nobody" /\ transition'.step = "none"
        BY <2>1, NoTransitionFacts
      <3>4. LockInStep'
        BY <1>3, <3>1, <3>3 DEF LockInStep, LockFree
      <3>5. FlagsInStep'
        BY <1>3, <2>1, <2>3, <2>4, <3>3 DEF FlagsInStep
      <3>6. rx.pc \in {"disarm", "reset"} => ~panda.ready
        BY DEF Inductive, HealthInStep
      <3>7. HealthInStep'
        <4> HIDE DEF vehicular
        <4>1. QED
          BY <2>1, <2>2, <2>5, <2>7, <3>1, <3>6, NoHealthFacts DEF HealthInStep
      <3>8. RecoveryIsScheduled'
        BY <3>2 DEF RecoveryIsScheduled, Driving
      <3>9. SupervisorInStep'
        BY <2>1 DEF Inductive, SupervisorInStep
      <3>10. QED  BY <3>4, <3>5, <3>7, <3>8, <3>9 DEF Inductive
    <2>8. QED  BY <1>7, <2>6, <2>7 DEF TakeoverConfigure, TakeoverThrows
  <1>8. QED  BY <1>5, <1>6, <1>7

-----------------------------------------------------------------------------
(* The inductive invariant *)

\* It holds before the threads start.
LEMMA InitInductive == Init => Inductive
  <1> SUFFICES ASSUME Init PROVE Inductive
    OBVIOUS
  <1>1. Typed
    <2>1. /\ node \in NodeState /\ newer \in BOOLEAN /\ unseen \subseteq Buttons
          /\ in_flight \subseteq DriverButtons
          /\ silenced \subseteq ECUs /\ disabled \subseteq ECUs
      BY DEF Init, NodeState
    <2>2. sup \in Supervisor
      BY InitialFacts DEF Init
    <2>3. latest_health \in Health /\ rx \in RxType
      BY NoHealthFacts DEF Init, RxType, RxPoints
    <2>4. panda \in Panda
      BY DEF Init, Panda, Modes
    <2>5. retry \in RetryType /\ main \in MainType
      BY DEF Init, RetryType, MainType
    <2>6. transition \in TransitionType
      BY NoTransitionFacts DEF Init
    <2>7. ctl \in CtlType
      BY InitialFacts, NoHealthFacts, CtlNames DEF Init, CtlType, Samples
    <2>8. budget \in BudgetType
      BY BoundsAssumption DEF Init, BudgetType
    <2>9. QED  BY <2>1, <2>2, <2>3, <2>4, <2>5, <2>6, <2>7, <2>8 DEF Typed
  <1>2. SupervisorInStep
    BY InitialFacts DEF Init, SupervisorInStep
  <1>3. ~Driving /\ transition.owner = "nobody" /\ transition.step = "none" /\ ctl.pc = "top"
    BY NoTransitionFacts DEF Init, Driving
  <1>4. LockInStep
    BY <1>3 DEF LockInStep, LockFree, Giving
  <1>5. FlagsInStep
    BY <1>3 DEF Init, FlagsInStep, Taking
  <1>6. HealthInStep
    BY <1>3 DEF Init, HealthInStep
  <1>7. RecoveryIsScheduled
    BY DEF Init, RecoveryIsScheduled
  <1>8. QED  BY <1>1, <1>2, <1>4, <1>5, <1>6, <1>7, TypedIsTypeOK DEF Inductive

\* Every step of every thread keeps it.
LEMMA StepInductive == Inductive /\ [Next]_vars => Inductive'
  <1> SUFFICES ASSUME Inductive, [Next]_vars PROVE Inductive'
    OBVIOUS
  <1>1. Typed /\ SupervisorInStep
    BY TypedIsTypeOK DEF Inductive
  <1>2. CASE Transitioning
    <2>1. TypeOK'
      BY <1>1, <1>2, TransitionsKeepTypes, TypedIsTypeOKNext
    <2>2. QED  BY <1>2, <2>1, GivingKeepsInvariant, TakingKeepsInvariant DEF Transitioning
  <1>3. CASE Control
    <2>1. TypeOK' /\ SupervisorInStep'
      BY <1>1, <1>3, ControlKeepsTypes, TypedIsTypeOKNext
    <2>2. QED  BY <1>3, <2>1, ControlKeepsInvariant
  <1>4. CASE Receive
    BY <1>1, <1>4, OthersKeepTypes, TypedIsTypeOKNext, ReceiveKeepsInvariant
  <1>5. CASE Main \/ Request \/ Environment
    BY <1>1, <1>5, OthersKeepTypes, TypedIsTypeOKNext, OutsideKeepsInvariant
  <1>6. CASE UNCHANGED vars
    <2>1. /\ TypeOK' /\ SupervisorInStep'
      BY <1>1, <1>6, TypedIsTypeOKNext DEF Typed, SupervisorInStep, vars
    <2>2. LockInStep' /\ FlagsInStep' /\ HealthInStep' /\ RecoveryIsScheduled'
      BY <1>6 DEF Inductive, LockInStep, FlagsInStep, HealthInStep, RecoveryIsScheduled,
                  LockFree, Driving, Vehicular, vars
    <2>3. QED  BY <2>1, <2>2 DEF Inductive
  <1>7. QED
    BY <1>2, <1>3, <1>4, <1>5, <1>6 DEF Next, Exited

\* The inductive invariant of the three threads, at every instance: types, the lock, the flags of
\* the ECUs, the freshness of health, and the scheduled recovery.
THEOREM NodeInvariant == Spec => []Inductive
  BY InitInductive, StepInductive, PTL DEF Spec

\* Every variable keeps to its type, in every order of the three threads' steps.
THEOREM NodeTypeCorrect == Spec => []TypeOK
  <1>1. Inductive => TypeOK
    BY DEF Inductive
  <1>2. QED  BY <1>1, NodeInvariant, PTL

\* No interleaving of reconnect, recovery, shutdown and takeover makes two senders of one frame:
\* whenever actuator frames may leave the node, the ECUs they replace are off the bus, are noted
\* as disabled, and the Panda is in the vehicle mode.
THEOREM NodeExclusiveOwnership == Spec => []ExclusiveOwnership
  <1>1. Inductive => ExclusiveOwnership
    BY DEF Inductive, FlagsInStep, HealthInStep, ExclusiveOwnership, Transmitting, Driving
  <1>2. QED  BY <1>1, NodeInvariant, PTL

\* Frames go out only in a period whose health was read after the takeover, although the receive
\* thread reads health without the lock.
THEOREM NodeFreshHealth == Spec => []FreshHealthWhenTransmitting
  <1>1. Inductive => FreshHealthWhenTransmitting
    BY DEF Inductive, HealthInStep, FreshHealthWhenTransmitting, Transmitting, Driving, Sampled,
           Vehicular
  <1>2. QED  BY <1>1, NodeInvariant, PTL

\* No failure, reconnect or shutdown forgets the stock ECUs: while one is flagged and the node does
\* not drive, recovery is pending or about to be requested.
THEOREM NodeRecoveryScheduled == Spec => []RecoveryIsScheduled
  <1>1. Inductive => RecoveryIsScheduled
    BY DEF Inductive
  <1>2. QED  BY <1>1, NodeInvariant, PTL

\* Unless a USB write reports failure after the frame went out, an ECU that is off the bus has its
\* flag set in every state of a takeover and of a recovery.
THEOREM NodeSilencedRemembered ==
    ASSUME ~LateWriteErrors
    PROVE  Spec => []SilencedEcuIsRemembered
  <1>1. Inductive => SilencedEcuIsRemembered
    BY DEF Inductive, FlagsInStep, SilencedEcuIsRemembered
  <1>2. QED  BY <1>1, NodeInvariant, PTL

-----------------------------------------------------------------------------
(* The threads implement EcuOwnership *)

Heard == {e \in ECUs : StockTraffic(e, silenced)}

\* The abstract steps in terms of the node.
LEMMA OwnershipSteps ==
    ASSUME Inductive, Inductive', ~LateWriteErrors
    PROVE  /\ UNCHANGED <<Driving, silenced, disabled>>
                 => UNCHANGED <<Driving, Heard, disabled>>
           /\ ~Driving' /\ UNCHANGED <<silenced, disabled>>
                 => Ownership!Stop \/ UNCHANGED <<Driving, Heard, disabled>>
           /\ (/\ ~Driving /\ ~Driving'
               /\ disabled \subseteq disabled' /\ silenced \subseteq silenced')
                 => Ownership!TakeOver
           /\ (/\ ~Driving /\ ~Driving' /\ disabled' \subseteq disabled
               /\ silenced' \subseteq silenced
               /\ \A e \in disabled \ disabled' : StockTraffic(e, silenced'))
                 => Ownership!GiveBack
  <1>1. /\ disabled \subseteq ECUs /\ disabled' \subseteq ECUs
        /\ Driving \in BOOLEAN /\ Driving' \in BOOLEAN
    BY DEF Inductive, TypeOK, NodeState, Driving
  <1>2. silenced' \subseteq disabled'
    BY DEF Inductive, FlagsInStep
  <1>3. silenced' = silenced => Heard' = Heard
    BY DEF Heard, StockTraffic
  <1>4. Heard' = {e \in ECUs : StockTraffic(e, silenced')}
    BY DEF Heard, StockTraffic, ECUs
  <1>5. disabled' = {} => Heard' = ECUs
    BY <1>2, <1>4 DEF StockTraffic
  <1>6. silenced \subseteq silenced' => Heard' \subseteq Heard
    BY <1>4 DEF Heard, StockTraffic
  <1>7. silenced' \subseteq silenced => Heard \subseteq Heard'
    BY <1>4 DEF Heard, StockTraffic
  <1>8. Heard' \subseteq ECUs
    BY <1>4
  <1>9. ASSUME ~Driving, ~Driving', disabled \subseteq disabled', silenced \subseteq silenced'
        PROVE  Ownership!TakeOver
    <2>1. Heard' # Heard => disabled' # {}
      BY <1>5, <1>6, <1>9 DEF Heard
    <2>2. QED  BY <1>1, <1>6, <1>9, <2>1 DEF Ownership!TakeOver, Heard, Driving
  <1>10. ASSUME ~Driving, ~Driving', disabled' \subseteq disabled, silenced' \subseteq silenced,
                \A e \in disabled \ disabled' : StockTraffic(e, silenced')
         PROVE  Ownership!GiveBack
    <2>1. disabled \ disabled' \subseteq Heard'
      BY <1>1, <1>4, <1>10
    <2>2. QED  BY <1>5, <1>7, <1>8, <1>10, <2>1 DEF Ownership!GiveBack, Heard, Driving
  <1>11. ASSUME ~Driving', UNCHANGED <<silenced, disabled>>
         PROVE  Ownership!Stop \/ UNCHANGED <<Driving, Heard, disabled>>
    <2>1. Heard' = Heard
      BY <1>3, <1>11
    <2>2. CASE Driving
      BY <1>11, <2>1, <2>2 DEF Ownership!Stop, Heard, Driving
    <2>3. CASE ~Driving
      <3>1. Driving' = Driving
        BY <1>1, <1>11, <2>3
      <3>2. QED  BY <1>11, <2>1, <3>1
    <2>4. QED  BY <2>2, <2>3
  <1>12. QED  BY <1>3, <1>9, <1>10, <1>11

\* Every step of the threads is one of EcuOwnership or changes nothing there.
LEMMA StepImplements ==
    ASSUME Inductive, Inductive', ~LateWriteErrors, Next
    PROVE  Ownership!Next \/ UNCHANGED <<Driving, Heard, disabled>>
  <1>1. /\ node \in NodeState /\ disabled \subseteq ECUs
        /\ OwnershipDropped(node).vehicle_safety_mode = FALSE
        /\ \A require \in BOOLEAN :
              /\ InternalDisarm(node, require).vehicle_safety_mode = node.vehicle_safety_mode
              /\ [InternalDisarm(node, require) EXCEPT !.applied_arm = FALSE].vehicle_safety_mode
                    = node.vehicle_safety_mode
    <2>1. node \in NodeState /\ disabled \subseteq ECUs
      BY DEF Inductive, TypeOK
    <2>2. QED  BY <2>1, OwnershipDroppedFacts, InternalDisarmFacts, ConsumedFacts
                  DEF OwnershipDropped, NodeState
  <1>2. CASE UNCHANGED <<silenced, disabled>> /\ (~Driving' \/ UNCHANGED Driving)
    BY <1>2, OwnershipSteps DEF Ownership!Next
  <1>3. CASE \E owner \in {"control", "main"} : NoOutputBegin(owner)
    <2>1. UNCHANGED <<silenced, disabled>> /\ ~Driving'
      BY <1>1, <1>3 DEF NoOutputBegin, NodeState, Driving
    <2>2. QED  BY <1>2, <2>1
  <1>4. CASE NoOutputRestore
    <2>1. ~Driving /\ ~Driving'
      <3>1. transition.step = "restore" /\ node' = node
        BY <1>4 DEF NoOutputRestore
      <3>2. QED  BY <3>1, HeldFacts DEF Driving
    <2>2. \/ UNCHANGED <<silenced, disabled>>
          \/ \E confirmed \in SUBSET Confirmable :
                silenced' \subseteq silenced /\ disabled' = disabled \ confirmed
      BY <1>4 DEF NoOutputRestore, Restores, Confirms
    <2>3. CASE \E confirmed \in SUBSET Confirmable :
                  silenced' \subseteq silenced /\ disabled' = disabled \ confirmed
      <3>1. \A e \in disabled \ disabled' : StockTraffic(e, silenced')
        BY <2>3 DEF Confirmable
      <3>2. disabled' \subseteq disabled /\ silenced' \subseteq silenced
        BY <2>3
      <3>3. Ownership!GiveBack
        BY <2>1, <3>1, <3>2, OwnershipSteps
      <3>4. QED  BY <3>3 DEF Ownership!Next
    <2>4. QED  BY <1>2, <2>1, <2>2, <2>3
  <1>5. CASE NoOutputStandby \/ TakeoverBegin
    <2>1. UNCHANGED <<node, silenced, disabled>>
      BY <1>5 DEF NoOutputStandby, TakeoverBegin
    <2>2. QED  BY <1>2, <2>1 DEF Driving
  <1>6. CASE NoOutputFinish
    <2>1. UNCHANGED <<silenced, disabled>> /\ node'.vehicle_safety_mode = node.vehicle_safety_mode
      BY <1>1, <1>6 DEF NoOutputFinish, NodeState
    <2>2. QED  BY <1>2, <2>1 DEF Driving
  <1>7. ASSUME NEW e \in ECUs, DisableEcu(e)
        PROVE  Ownership!Next
    <2>1. ~Driving /\ ~Driving'
      <3>1. transition.step = e /\ e # "none" /\ node' = node
        BY <1>7 DEF DisableEcu, ECUs
      <3>2. QED  BY <3>1, HeldFacts DEF Driving
    <2>2. disabled \subseteq disabled' /\ silenced \subseteq silenced'
      BY <1>7 DEF DisableEcu
    <2>3. Ownership!TakeOver
      BY <2>1, <2>2, OwnershipSteps
    <2>4. QED  BY <2>3 DEF Ownership!Next
  <1>8. CASE TakeoverConfigure
    <2>1. transition.step = "configure" /\ UNCHANGED <<silenced, disabled>>
      BY <1>8 DEF TakeoverConfigure
    <2>2. CASE node' = node
      BY <1>2, <2>1, <2>2 DEF Driving
    <2>3. CASE node' = [node EXCEPT !.vehicle_safety_mode = TRUE, !.button_rearm_takeover = FALSE]
      <3>1. ~Driving /\ Driving'
        <4>1. Driving'
          BY <1>1, <2>3 DEF NodeState, Driving
        <4>2. QED  BY <2>1, <4>1, HeldFacts
      <3>2. ECUs \subseteq disabled /\ disabled \subseteq silenced
        BY <2>1 DEF Inductive, FlagsInStep, Taking
      <3>3. Heard = {} /\ disabled = ECUs
        BY <1>1, <3>2 DEF Heard, StockTraffic
      <3>4. Heard' = Heard
        BY <2>1 DEF Heard, StockTraffic
      <3>5. Ownership!Drive
        BY <2>1, <3>1, <3>3, <3>4 DEF Ownership!Drive, Heard, Driving
      <3>6. QED  BY <3>5 DEF Ownership!Next
    <2>4. QED  BY <1>8, <2>2, <2>3 DEF TakeoverConfigure
  <1>9. CASE Control
    <2>1. UNCHANGED <<silenced, disabled>>
      BY <1>9 DEF Control, ControlStop, ControlRetry, ControlNoRetry, ControlSample, ControlRearm,
            ControlAuto, ControlApply, ControlListen, ControlApplyFailed, ControlUpdate,
            ControlDrop, ControlGap, ControlGapFailed, ControlTake, ControlTook, ControlTakeFailed,
            ControlCleanup, ControlOutput, ControlSend
    <2>2. CASE node' = node
      BY <1>2, <2>1, <2>2 DEF Driving
    <2>3. CASE ControlRearm \/ ControlAuto \/ ControlApply \/ ControlGap
      <3>1. node'.vehicle_safety_mode = node.vehicle_safety_mode
        BY <1>1, <2>3 DEF ControlRearm, ControlAuto, ControlApply, ControlGap, NodeState
      <3>2. QED  BY <1>2, <2>1, <3>1 DEF Driving
    <2>4. CASE \E require \in BOOLEAN :
                  \/ node' = InternalDisarm(node, require)
                  \/ node' = [InternalDisarm(node, require) EXCEPT !.applied_arm = FALSE]
      <3>1. node'.vehicle_safety_mode = node.vehicle_safety_mode
        BY <1>1, <2>4
      <3>2. QED  BY <1>2, <2>1, <3>1 DEF Driving
    <2>5. CASE ControlCleanup
      <3> DEFINE waits == ctl.decision.state = "Passive" /\ ctl.input.command = "gap"
      <3>1. /\ (~waits) \in BOOLEAN
            /\ node' = [InternalDisarm(node, ~waits) EXCEPT !.applied_arm = FALSE]
        BY <2>5 DEF ControlCleanup
      <3> HIDE DEF waits
      <3>2. QED  BY <2>4, <3>1
    <2>6. \/ node' = node
          \/ ControlRearm \/ ControlAuto \/ ControlApply \/ ControlGap \/ ControlCleanup
          \/ node' = InternalDisarm(node, TRUE)
          \/ node' = [InternalDisarm(node, TRUE) EXCEPT !.applied_arm = FALSE]
      BY <1>9 DEF Control, ControlStop, ControlRetry, ControlNoRetry, ControlSample, ControlListen,
            ControlApplyFailed, ControlUpdate, ControlDrop, ControlGapFailed, ControlTake,
            ControlTook, ControlTakeFailed, ControlOutput, ControlSend
    <2>7. QED  BY <2>2, <2>3, <2>4, <2>5, <2>6
  <1>10. CASE Receive
    <2>1. UNCHANGED <<silenced, disabled>>
      BY <1>10 DEF Receive, RxStop, RxConnect, RxRestorePending, RxRead, RxCommit, RxFailed,
                   RxDisarm, RxReset
    <2>2. \/ node' = node \/ node' = OwnershipDropped(node) \/ node' = InternalDisarm(node, TRUE)
          \/ node' = [node EXCEPT !.applied_arm = FALSE]
      BY <1>10 DEF Receive, RxStop, RxConnect, RxRestorePending, RxRead, RxCommit, RxFailed,
                   RxDisarm, RxReset
    <2>3. ~Driving' \/ UNCHANGED Driving
      BY <1>1, <2>2 DEF Driving, NodeState
    <2>4. QED  BY <1>2, <2>1, <2>3
  <1>11. CASE Main \/ Request \/ Environment \/ Exited
    <2>1. UNCHANGED <<silenced, disabled>>
      BY <1>11 DEF Main, Request, Environment, ArmStore, MainStop, MainJoin, Shutdown, ArmCall,
                   Press, SessionAbort, Unplug, Replug, Exited, vars
    <2>2. node'.vehicle_safety_mode = node.vehicle_safety_mode
      BY <1>1, <1>11 DEF Main, Request, Environment, ArmStore, MainStop, MainJoin, Shutdown,
                   ArmCall, Press, SessionAbort, Unplug, Replug, Exited, vars, NodeState
    <2>3. QED  BY <1>2, <2>1, <2>2 DEF Driving
  <1>12. QED
    BY <1>3, <1>4, <1>5, <1>6, <1>7, <1>8, <1>9, <1>10, <1>11 DEF Next, Transitioning

\* The three threads implement EcuOwnership, unless a USB write reports failure after the frame went
\* out: together they take the ECUs over and give them back as one careful node would, whatever
\* fails, is unplugged or shut down in between.
THEOREM NodeKeepsOwnership ==
    ASSUME ~LateWriteErrors
    PROVE  Spec => KeepsOwnership
  <1>1. Init => Ownership!Init
    BY DEF Init, Ownership!Init, StockTraffic
  <1>2. Inductive /\ Inductive' /\ [Next]_vars
            => [Ownership!Next]_<<Driving, Heard, disabled>>
    <2>1. ASSUME UNCHANGED vars
          PROVE  UNCHANGED <<Driving, Heard, disabled>>
      BY <2>1 DEF vars, Driving, Heard, StockTraffic
    <2>2. QED  BY <2>1, StepImplements
  <1>3. Inductive /\ Inductive' /\ [Next]_vars
            => [Ownership!Next]_<<node.vehicle_safety_mode,
                                  {e \in ECUs : StockTraffic(e, silenced)}, disabled>>
    BY <1>2 DEF Driving, Heard
  <1>4. QED
    BY <1>1, <1>3, NodeInvariant, PTL DEF Spec, KeepsOwnership, Ownership!Spec
=============================================================================
