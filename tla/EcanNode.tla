------------------------------- MODULE EcanNode -------------------------------
(***************************************************************************)
(* The ROS node (src/node.cpp) in the resume profile of the shipped YAML:  *)
(* the control thread, the receive thread and the main thread (service     *)
(* callback and destructor) share atomics, a health snapshot and the Panda *)
(* behind actuation_mutex_.  They take the stock camera and radar ECUs off *)
(* the bus before the node drives, and give them back afterwards.          *)
(*                                                                         *)
(* Grain.  One action is the code between two points where another thread  *)
(* can change what it goes on to use: two loads of atomics, a lock, a USB  *)
(* or UDS wait.  arm_callback is two steps (its check and its stores) and  *)
(* request_internal_disarm one.  The holder of actuation_mutex_ during a   *)
(* mode transition is transition.owner; short critical sections are one    *)
(* action guarded by LockFree.                                             *)
(*                                                                         *)
(* Abstractions.  Generation and epoch counters are only compared for      *)
(* equality, so `newer' says that arm_request_generation_ has moved past   *)
(* the applied one, and health that was read across a transition is        *)
(* forgotten when the transition begins instead of at the epoch test.      *)
(* Back-off time is a choice while failures are recorded.                  *)
(* Right after a mode change the firmware session may or may not be ready; *)
(* later it is, and losing readiness counts as a failure.                  *)
(* EPS faults and cancel are left to SafetySupervisor; the raw transmit    *)
(* gate and status publication are not part of this module.                *)
(* Mutant... definitions are wrong variants that show a property can fail. *)
(***************************************************************************)
EXTENDS SupervisorLogic

CONSTANTS
    AutoArmOnCommand,   \* auto_arm_on_command_
    Inputs,             \* what one control period may sample besides Panda health
    DriverButtons,      \* the buttons the driver uses, a subset of {"lane_keep", "set"}
    MayShutDown,        \* the node may be destroyed
    LateWriteErrors,    \* a USB write may report failure after the frame was delivered
    MaxPresses,         \* bound on button presses
    MaxCalls,           \* bound on set_armed calls
    MaxUnplugs,         \* bound on USB unplugs
    MaxFailures         \* bound on USB, UDS, CAN and takeover failures

ASSUME ResumeProfileAssumption == ResumeOnCommandReturn /\ AllowActuation
ASSUME BoundsAssumption ==
    /\ AutoArmOnCommand \in BOOLEAN /\ MayShutDown \in BOOLEAN /\ LateWriteErrors \in BOOLEAN
    /\ MaxPresses \in Nat /\ MaxCalls \in Nat /\ MaxUnplugs \in Nat /\ MaxFailures \in Nat
    /\ DriverButtons \subseteq {"lane_keep", "set"}

Input == [command : {"fresh", "gap", "invalid"}, standstill : BOOLEAN,
          brake : BOOLEAN, vehicle_valid : BOOLEAN]
ASSUME InputsAssumption == Inputs \subseteq Input

\* The ECUs the node takes off the bus: the camera (LFA) and, for longitudinal, the radar (SCC).
ECUs == IF AllowLongitudinal THEN {"camera", "radar"} ELSE {"camera"}

MutantStockTraffic(e, quiet) == TRUE

\* Camera communication control also silences SCC on this vehicle.
StockTraffic(e, quiet) == e \notin quiet /\ "camera" \notin quiet

NodeState ==
    [running : BOOLEAN, requested_arm : BOOLEAN, applied_arm : BOOLEAN,
     auto_arm_inhibited : BOOLEAN, operator_disarmed : BOOLEAN, recovery_pending : BOOLEAN,
     recovery_rearm_required : BOOLEAN, vehicle_safety_mode : BOOLEAN,
     preserve_command_session : BOOLEAN, gap_resume_qualified : BOOLEAN,
     button_rearm_takeover : BOOLEAN]

Modes == {"no_output", "elm327", "hyundai_canfd"}

\* ready is PandaUsb's ready_ and handle its handle_open_: a failed transfer clears only the
\* first.  profile says that the safety param is required_safety_param.
Panda == [plugged : BOOLEAN, ready : BOOLEAN, handle : BOOLEAN, mode : Modes,
          profile : BOOLEAN, lateral : BOOLEAN, longitudinal : BOOLEAN, blocked : BOOLEAN]

Health == [connected : BOOLEAN, mode : Modes, profile : BOOLEAN, ready : BOOLEAN,
           lateral : BOOLEAN, longitudinal : BOOLEAN, blocked : BOOLEAN]
NoHealth == [connected |-> FALSE, mode |-> "no_output", profile |-> FALSE, ready |-> FALSE,
             lateral |-> FALSE, longitudinal |-> FALSE, blocked |-> FALSE]

NoInput == [command |-> "gap", standstill |-> TRUE, brake |-> FALSE, vehicle_valid |-> TRUE]

VARIABLES
    node,             \* the atomics of Ioniq5EcanNode
    newer,            \* arm_request_generation_ differs from applied_arm_generation
    sup,              \* the SafetySupervisor, control thread only
    unseen,           \* button edges the supervisor has not sampled
    in_flight,        \* button edges the parser has not delivered to the control thread
    latest_health,    \* latest_health_
    panda,            \* the device and its USB handle
    silenced,         \* ECUs that really are off the bus
    disabled,         \* camera_disabled_, radar_disabled_
    retry,            \* recovery_retry_: pending_, and whether failures_ is not 0
    transition,       \* the mode transition that holds actuation_mutex_
    ctl,              \* control thread: program counter and locals
    rx,               \* receive thread: program counter and locals
    main,             \* main thread: program counter and the request it serves
    budget            \* bounds: presses, calls, unplugs and failures left

vars == <<node, newer, sup, unseen, in_flight, latest_health, panda,
          silenced, disabled, retry, transition, ctl, rx, main, budget>>

NoTransition == [owner |-> "nobody", step |-> "none", error |-> FALSE]
LockFree == transition.owner = "nobody"

CtlPoints == {"top", "retry", "sample", "rearm", "auto", "apply", "listen", "apply_failed",
              "update", "drop", "gap", "gap_failed", "take", "takeover", "took", "take_failed",
              "cleanup", "send", "no_output", "done"}
Callers == {"none", "retry", "late_retry", "apply", "gap", "cleanup"}

TypeOK ==
    /\ node \in NodeState
    /\ newer \in BOOLEAN
    /\ sup \in Supervisor
    /\ unseen \subseteq Buttons
    /\ in_flight \subseteq DriverButtons
    /\ latest_health \in Health
    /\ panda \in Panda
    /\ silenced \subseteq ECUs
    /\ disabled \subseteq ECUs
    /\ retry \in [pending : BOOLEAN, failures : BOOLEAN]
    /\ transition \in [owner : {"nobody", "control", "main"}, error : BOOLEAN,
                       step : {"none", "restore", "standby", "finish", "camera", "radar", "configure"}]
    /\ ctl \in [pc : CtlPoints, caller : Callers, input : Inputs \cup {NoInput}, health : Health,
                decision : Decision, flag : BOOLEAN, requested : BOOLEAN, was_active : BOOLEAN]
    /\ rx \in [pc : {"poll", "commit", "restore", "failed", "disarm", "reset", "done"},
               health : Health]
    /\ main \in [pc : {"spin", "arm", "no_output", "stop", "join", "exited"}, arm : BOOLEAN]
    /\ budget \in [presses : 0..MaxPresses, calls : 0..MaxCalls, unplugs : 0..MaxUnplugs, failures : 0..MaxFailures]

Init ==
    /\ node = [running |-> TRUE, requested_arm |-> FALSE, applied_arm |-> FALSE,
               auto_arm_inhibited |-> FALSE, operator_disarmed |-> FALSE,
               recovery_pending |-> FALSE, recovery_rearm_required |-> FALSE,
               vehicle_safety_mode |-> FALSE, preserve_command_session |-> FALSE,
               gap_resume_qualified |-> FALSE, button_rearm_takeover |-> FALSE]
    /\ newer = FALSE
    /\ sup = InitialSupervisor
    /\ unseen = {} /\ in_flight = {}
    /\ latest_health = NoHealth
    /\ panda = [plugged |-> TRUE, ready |-> FALSE, handle |-> FALSE, mode |-> "no_output",
                profile |-> FALSE, lateral |-> FALSE, longitudinal |-> FALSE, blocked |-> FALSE]
    /\ silenced = {} /\ disabled = {}
    /\ retry = [pending |-> FALSE, failures |-> FALSE]
    /\ transition = NoTransition
    /\ ctl = [pc |-> "top", caller |-> "none", input |-> NoInput, health |-> NoHealth,
              decision |-> InitialDecision, flag |-> FALSE, requested |-> FALSE,
              was_active |-> FALSE]
    /\ rx = [pc |-> "poll", health |-> NoHealth]
    /\ main = [pc |-> "spin", arm |-> FALSE]
    /\ budget = [presses |-> MaxPresses, calls |-> MaxCalls, unplugs |-> MaxUnplugs, failures |-> MaxFailures]

-----------------------------------------------------------------------------
(* Helpers *)

MutantSetMode(p, mode, profile) == [p EXCEPT !.mode = "silent", !.profile = profile]

\* The firmware keeps the button intent only between modes of one installed profile.
SetMode(p, mode, profile) ==
    IF profile /\ p.profile THEN [p EXCEPT !.mode = mode]
    ELSE [p EXCEPT !.mode = mode, !.profile = profile, !.lateral = FALSE,
                   !.longitudinal = FALSE, !.blocked = FALSE]

\* PandaUsb::disconnect and connect: connect leaves plain NO_OUTPUT, which clears the intent,
\* and then installs the button listener.
Closed(p) == [p EXCEPT !.ready = FALSE, !.handle = FALSE]
Connected(p) ==
    [SetMode(SetMode(p, "no_output", FALSE), "no_output", TRUE)
        EXCEPT !.ready = TRUE, !.handle = TRUE]

HealthOf(p, ready) ==
    [connected |-> TRUE, mode |-> p.mode, profile |-> p.profile,
     ready |-> ready /\ p.profile /\ ~p.blocked,
     lateral |-> p.lateral, longitudinal |-> p.longitudinal, blocked |-> p.blocked]

\* What the supervisor is given.
VehicleOf(input) ==
    [brake_pressed |-> input.brake, gas_pressed |-> FALSE, eps_fault |-> FALSE,
     acc_fault |-> FALSE, valid |-> input.vehicle_valid, speed |-> 0, steering_angle |-> 0]
PandaHealthOf(h) ==
    [connected |-> h.connected, stamped |-> h.connected, age |-> 0,
     session_active |-> h.profile, session_ready |-> h.ready, session_blocked |-> h.blocked,
     ignition_on |-> TRUE, lateral_selected |-> h.lateral,
     longitudinal_selected |-> h.longitudinal,
     controls_allowed |-> h.mode = "hyundai_canfd" /\ h.ready /\ (h.lateral \/ h.longitudinal),
     heartbeat_lost |-> FALSE, rx_checks_invalid |-> FALSE, bus_off |-> FALSE,
     faults |-> {}, ignored_faults |-> {}, fault_status |-> FALSE, harness_ok |-> TRUE,
     safety_mode |-> IF h.mode = "elm327" THEN "other" ELSE h.mode,
     param_matches |-> h.profile, tx_blocked_rose |-> FALSE, last_rejected |-> "other"]
CommandOf(input) ==
    [stamped |-> TRUE, age |-> IF input.command = "gap" THEN CommandTimeout + 1 ELSE 0,
     valid |-> input.command = "fresh", enable |-> input.command = "fresh"]
SampleOf(input, h) ==
    [vehicle |-> VehicleOf(input), panda |-> PandaHealthOf(h), command |-> CommandOf(input)]

MutantInternalDisarm(n, require) ==
    [n EXCEPT !.preserve_command_session = FALSE, !.requested_arm = FALSE,
              !.auto_arm_inhibited = @ \/ require, !.recovery_rearm_required = @ \/ require]

\* request_internal_disarm(require_operator_rearm): gives up the request, schedules recovery.
InternalDisarm(n, require) ==
    LET was_armed == n.requested_arm \/ n.applied_arm \/ n.vehicle_safety_mode
    IN  [n EXCEPT !.preserve_command_session = FALSE, !.gap_resume_qualified = FALSE,
                  !.button_rearm_takeover = FALSE, !.requested_arm = FALSE,
                  !.auto_arm_inhibited = @ \/ (was_armed /\ require),
                  !.recovery_rearm_required = @ \/ (was_armed /\ require),
                  !.recovery_pending = TRUE]

\* RecoveryRetry::request keeps a pending schedule.
RetryRequested == IF retry.pending THEN retry ELSE [pending |-> TRUE, failures |-> FALSE]

\* A Panda that is unplugged, or whose handle is closed, fails every transfer; another one may
\* fail while the budget lasts.
Reachable == panda.plugged /\ panda.handle
Works == Reachable /\ UNCHANGED budget
Spend == budget.failures > 0 /\ budget' = [budget EXCEPT !.failures = @ - 1]
Fails == IF Reachable THEN Spend ELSE UNCHANGED budget

\* What a failed step leaves: a failed transfer clears ready_, a failed check does not.
Broken(p) == [p EXCEPT !.ready = FALSE]
AfterFailure(p) == IF Reachable THEN {p, Broken(p)} ELSE {Broken(p)}

\* UDS replies and stock frames reach a waiting transition only through the receive thread.
Receiving == rx.pc \in {"poll", "commit"} /\ node.running /\ panda.ready
UdsWorks == Receiving /\ Works
UdsFails == IF Receiving THEN Fails ELSE UNCHANGED budget

\* `continue' in the control loop.
Restarted(c) ==
    [c EXCEPT !.pc = "top", !.caller = "none", !.input = NoInput, !.health = NoHealth,
              !.decision = InitialDecision, !.flag = FALSE, !.requested = FALSE]

\* The end of a period remembers previous_state, of which only Active is told apart.
PeriodEnded(c) == Restarted([c EXCEPT !.was_active = c.decision.state = "Active"])

MutantHealthOutdated == rx

\* A SafetyTransition changes the epoch: health that was read before it will be discarded.
HealthOutdated == [rx EXCEPT !.health = NoHealth]

\* The owner of a mode transition gets the lock.
Begins(owner, step, error) ==
    /\ LockFree
    /\ transition' = [owner |-> owner, step |-> step, error |-> error]
    /\ rx' = HealthOutdated

-----------------------------------------------------------------------------
(* enter_no_output_mode, run by the control thread or by the destructor *)

NoOutputBegin(owner) ==
    /\ IF owner = "control" THEN ctl.pc = "no_output" ELSE main.pc = "no_output"
    /\ Begins(owner, "restore", ~Reachable)
    /\ panda' = IF Reachable THEN panda ELSE Broken(panda)
    /\ node' = [node EXCEPT !.vehicle_safety_mode = FALSE, !.recovery_pending = TRUE]
    /\ retry' = RetryRequested
    /\ UNCHANGED <<newer, sup, unseen, in_flight, latest_health, silenced,
                   disabled, ctl, main, budget>>

\* restore_ecu: these ECUs obey, whether or not the acknowledgement arrives.
Restores(ecus) == silenced' = silenced \ ecus

\* confirm_ecu_restored (and restore_ecu after a failure): a flag is cleared only when stock
\* frames are seen again.
Confirmable == {e \in disabled : StockTraffic(e, silenced')}
Confirms(ecus) == disabled' = disabled \ ecus

\* ELM327, then restore radar and camera, then confirm that their frames came back.
NoOutputRestore ==
    /\ transition.step = "restore"
    /\ LET diagnosing == SetMode(panda, "elm327", node.preserve_command_session)
           Proceed(failed) == transition' = [transition EXCEPT !.step = "standby", !.error = @ \/ failed]
       IN  \/ disabled = {} /\ Proceed(FALSE) /\ UNCHANGED <<panda, silenced, disabled, budget>>
           \/ /\ disabled # {} /\ UdsWorks
              /\ panda' = diagnosing
              /\ Restores(disabled)
              /\ Confirms(Confirmable)
              /\ Proceed(disabled' # {})
           \/ /\ disabled # {} /\ Receiving /\ Reachable /\ Spend
              /\ panda' \in AfterFailure(diagnosing)
              /\ \E restored \in SUBSET disabled : Restores(restored)
              /\ \E confirmed \in SUBSET Confirmable : Confirms(confirmed)
              /\ Proceed(TRUE)
           \/ \* no ELM327 mode, or nobody delivers the replies
              /\ disabled # {} /\ UdsFails
              /\ panda' \in IF Reachable /\ ~Receiving THEN {diagnosing} ELSE {Broken(panda)}
              /\ Proceed(TRUE)
              /\ UNCHANGED <<silenced, disabled>>
    /\ UNCHANGED <<node, newer, sup, unseen, in_flight, latest_health, retry,
                   ctl, rx, main>>

\* recovery_standby_param: the button listener, unless the operator said OFF.
StandbyProfile(n) == n.preserve_command_session \/ ~n.operator_disarmed

\* Two mode changes; the first clears an intent that is not to be kept.
PassThrough(p) ==
    IF StandbyProfile(node) /\ ~node.preserve_command_session
    THEN SetMode(p, "no_output", FALSE) ELSE p
Standby(p) == SetMode(PassThrough(p), "no_output", StandbyProfile(node))

NoOutputStandby ==
    /\ transition.step = "standby"
    /\ \/ /\ Works
          /\ panda' = Standby(panda)
          /\ \E ready \in BOOLEAN : latest_health' = HealthOf(panda', ready)
          /\ transition' = [transition EXCEPT !.step = "finish"]
       \/ /\ Fails
          /\ panda' \in AfterFailure(panda)
                \cup IF Reachable
                     THEN AfterFailure(PassThrough(panda)) \cup AfterFailure(Standby(panda))
                     ELSE {}
          /\ transition' = [transition EXCEPT !.step = "finish", !.error = TRUE]
          /\ UNCHANGED latest_health
    /\ UNCHANGED <<node, newer, sup, unseen, in_flight, silenced, disabled,
                   retry, ctl, rx, main>>

\* Where each caller of enter_no_output_mode goes on, after a return or after an exception.
AfterNoOutput(c, threw) ==
    CASE c.caller = "retry" -> [c EXCEPT !.pc = "sample", !.caller = "none"]
      [] c.caller = "late_retry" -> [c EXCEPT !.pc = "update", !.caller = "none"]
      [] c.caller = "apply" -> [c EXCEPT !.pc = IF threw THEN "apply_failed" ELSE "update",
                                         !.caller = "none"]
      [] c.caller = "gap" /\ threw -> [c EXCEPT !.pc = "gap_failed", !.caller = "none"]
      [] OTHER -> PeriodEnded(c)

NoOutputFinish ==
    /\ transition.step = "finish"
    /\ transition' = NoTransition
    /\ IF transition.error
       THEN /\ node' = [node EXCEPT !.auto_arm_inhibited = TRUE, !.recovery_rearm_required = TRUE]
            /\ retry' = [retry EXCEPT !.failures = TRUE]
       ELSE /\ node' = [node EXCEPT !.recovery_pending = FALSE]
            /\ retry' = [retry EXCEPT !.pending = FALSE]
    /\ IF transition.owner = "main"
       THEN main' = [main EXCEPT !.pc = "stop"] /\ UNCHANGED <<ctl>>
       ELSE /\ ctl' = AfterNoOutput(ctl, transition.error)
            /\ UNCHANGED main
    /\ UNCHANGED <<newer, sup, unseen, in_flight, latest_health, panda, silenced, disabled,
                   rx, budget>>

-----------------------------------------------------------------------------
(* enter_vehicle_safety_mode, run by the control thread *)

TakeoverRefused ==
    \/ node.recovery_pending
    \/ ~ctl.input.vehicle_valid
    \/ ~ctl.input.standstill
       /\ ~(ctl.flag /\ (node.gap_resume_qualified \/ node.button_rearm_takeover))

\* Preconditions, heartbeat and ELM327; a wrong gear or a missing SCC template is a failure
\* too.  Only this thread sets vehicle_safety_mode_, so its early return is never taken.
TakeoverBegin ==
    /\ ctl.pc = "takeover"
    /\ \/ /\ ~TakeoverRefused /\ Works
          /\ Begins("control", "camera", FALSE)
          /\ panda' = SetMode(panda, "elm327", TRUE)
          /\ UNCHANGED ctl
       \/ /\ LockFree
          /\ IF TakeoverRefused THEN UNCHANGED <<budget, panda>>
             ELSE Fails /\ panda' \in AfterFailure(panda)
          /\ rx' = HealthOutdated
          /\ ctl' = [ctl EXCEPT !.pc = "take_failed"]
          /\ UNCHANGED transition
    /\ UNCHANGED <<node, newer, sup, unseen, in_flight, latest_health,
                   silenced, disabled, retry, main>>

TakeoverThrows ==
    /\ transition' = NoTransition
    /\ ctl' = [ctl EXCEPT !.pc = "take_failed"]

MutantAfterEcu(e) == "configure"
AfterEcu(e) == IF e = "camera" /\ AllowLongitudinal THEN "radar" ELSE "configure"

\* disable_ecu: extended session, suppressed communication control, tester present, quiet
\* check.  A flagged ECU is skipped.
DisableEcu(e) ==
    /\ transition.step = e
    /\ \/ /\ e \in disabled
          /\ transition' = [transition EXCEPT !.step = AfterEcu(e)]
          /\ UNCHANGED <<panda, silenced, disabled, ctl, budget>>
       \/ /\ e \notin disabled /\ UdsWorks
          /\ silenced' = silenced \cup {e}
          /\ disabled' = disabled \cup {e}
          /\ transition' = [transition EXCEPT !.step = AfterEcu(e)]
          /\ UNCHANGED <<ctl, panda>>
       \/ \* no reply to the session request, or nothing delivered
          /\ e \notin disabled /\ UdsFails /\ TakeoverThrows
          /\ panda' \in AfterFailure(panda)
          /\ UNCHANGED <<silenced, disabled>>
       \/ \* flagged; the stock frames did not stop, or a later transfer failed
          /\ e \notin disabled /\ Receiving /\ Reachable /\ Spend /\ TakeoverThrows
          /\ panda' \in AfterFailure(panda)
          /\ disabled' = disabled \cup {e}
          /\ silenced' \in {silenced, silenced \cup {e}}
       \/ \* the request was delivered although its transfer reported an error
          /\ LateWriteErrors
          /\ e \notin disabled /\ Receiving /\ Reachable /\ Spend /\ TakeoverThrows
          /\ panda' \in AfterFailure(panda)
          /\ silenced' = silenced \cup {e}
          /\ UNCHANGED disabled
    /\ UNCHANGED <<node, newer, sup, unseen, in_flight, latest_health, retry,
                   rx, main>>

\* HYUNDAI_CANFD, session readiness, the longitudinal probe and the final health check.
TakeoverConfigure ==
    /\ transition.step = "configure"
    /\ \/ /\ Works /\ ~panda.blocked
          /\ panda' = SetMode(panda, "hyundai_canfd", TRUE)
          /\ node' = [node EXCEPT !.vehicle_safety_mode = TRUE, !.button_rearm_takeover = FALSE]
          /\ transition' = NoTransition
          /\ ctl' = [ctl EXCEPT !.pc = "took"]
       \/ /\ IF panda.blocked THEN UNCHANGED budget ELSE Fails
          /\ panda' \in {Broken(panda)} \cup
                IF Reachable THEN AfterFailure(SetMode(panda, "hyundai_canfd", TRUE)) ELSE {}
          /\ TakeoverThrows
          /\ UNCHANGED node
    /\ UNCHANGED <<newer, sup, unseen, in_flight, latest_health, silenced,
                   disabled, retry, rx, main>>

-----------------------------------------------------------------------------
(* control_loop, in program order *)

ControlStop ==
    /\ ctl.pc = "top" /\ ~node.running
    /\ ctl' = [ctl EXCEPT !.pc = "done"]
    /\ UNCHANGED <<node, newer, sup, unseen, in_flight, latest_health, panda,
                   silenced, disabled, retry, transition, rx, main, budget>>

\* retry_no_output_recovery, at the top of the loop or while a request is applied.
RetryWanted ==
    /\ node.recovery_pending /\ ~node.requested_arm /\ ~node.applied_arm
    /\ ~node.vehicle_safety_mode /\ panda.ready

AtRetry == LockFree /\ (ctl.pc = "retry" \/ (ctl.pc = "top" /\ node.running))

ControlRetry ==
    /\ AtRetry /\ RetryWanted
    /\ ctl' = [ctl EXCEPT !.pc = "no_output",
                          !.caller = IF ctl.pc = "top" THEN "retry" ELSE "late_retry"]
    /\ retry' = RetryRequested
    /\ UNCHANGED <<node, newer, sup, unseen, in_flight, latest_health, panda, silenced, disabled,
                   transition, rx, main, budget>>

\* Nothing to recover, or the back-off is not over.
ControlNoRetry ==
    /\ AtRetry
    /\ RetryWanted => retry.pending /\ retry.failures
    /\ ctl' = [ctl EXCEPT !.pc = IF ctl.pc = "top" THEN "sample" ELSE "update"]
    /\ UNCHANGED <<node, newer, sup, unseen, in_flight, latest_health, panda, silenced, disabled,
                   retry, transition, rx, main, budget>>

\* The samples, and whether a physical press re-enables automatic arming after a fault.
ControlSample ==
    /\ ctl.pc = "sample"
    /\ \E input \in Inputs, seen \in {{}, in_flight} :
          /\ unseen' = unseen \cup seen
          /\ in_flight' = in_flight \ seen
          /\ ctl' = [ctl EXCEPT
                !.pc = "rearm", !.input = input, !.health = latest_health,
                !.flag = /\ seen # {} /\ ~node.operator_disarmed /\ ~node.requested_arm
                         /\ node.auto_arm_inhibited \/ node.recovery_rearm_required]
    /\ UNCHANGED <<node, newer, sup, latest_health, panda, silenced, disabled,
                   retry, transition, rx, main, budget>>

ListenerReady(h) == h.connected /\ h.mode = "no_output" /\ h.profile /\ h.ready /\ ~h.blocked

\* The stores of the press, then the loads of auto_arm_ready.
ControlRearm ==
    /\ ctl.pc = "rearm"
    /\ node' = IF ctl.flag
               THEN [node EXCEPT !.auto_arm_inhibited = FALSE, !.recovery_rearm_required = FALSE,
                                 !.button_rearm_takeover = TRUE]
               ELSE node
    /\ ctl' = [ctl EXCEPT !.pc = "auto",
                   !.flag = /\ AutoArmOnCommand /\ ~node'.auto_arm_inhibited
                            /\ ~node.recovery_pending /\ ctl.input.vehicle_valid
                            /\ ListenerReady(ctl.health)]
    /\ UNCHANGED <<newer, sup, unseen, in_flight, latest_health, panda,
                   silenced, disabled, retry, transition, rx, main, budget>>

\* The stores of automatic arming, then the load of requested_arm_.
ControlAuto ==
    /\ ctl.pc = "auto"
    /\ LET arms == ctl.flag /\ ~node.requested_arm
       IN  /\ node' = [node EXCEPT !.requested_arm = @ \/ arms]
           /\ newer' = (newer \/ arms)
    /\ ctl' = [ctl EXCEPT !.pc = "apply", !.requested = node'.requested_arm, !.flag = FALSE]
    /\ UNCHANGED <<sup, unseen, in_flight, latest_health, panda, silenced,
                   disabled, retry, transition, rx, main, budget>>

\* The load of the generation, and the request handed to the supervisor.
ControlApply ==
    /\ ctl.pc = "apply"
    /\ IF newer /\ (~ctl.requested \/ panda.ready)
       THEN /\ newer' = FALSE
            /\ sup' = RequestArmed(sup, ctl.requested)
            /\ node' = [node EXCEPT !.applied_arm = ctl.requested]
            /\ ctl' = CASE ctl.requested /\ ~ctl.health.profile -> [ctl EXCEPT !.pc = "listen"]
                        [] ~ctl.requested /\ panda.ready /\ node.recovery_pending
                           /\ ~node.vehicle_safety_mode -> [ctl EXCEPT !.pc = "retry"]
                        [] ~ctl.requested /\ panda.ready
                           /\ ~(node.recovery_pending /\ ~node.vehicle_safety_mode) ->
                              [ctl EXCEPT !.pc = "no_output", !.caller = "apply"]
                        [] OTHER -> [ctl EXCEPT !.pc = "update"]
       ELSE ctl' = [ctl EXCEPT !.pc = "update"] /\ UNCHANGED <<newer, sup, node>>
    /\ UNCHANGED <<unseen, in_flight, latest_health, panda, silenced, disabled,
                   retry, transition, rx, main, budget>>

\* Arming without a session installs the button listener and samples again.
ControlListen ==
    /\ ctl.pc = "listen" /\ LockFree
    /\ rx' = HealthOutdated
    /\ \/ /\ Works
          /\ panda' = SetMode(panda, "no_output", TRUE)
          /\ \E ready \in BOOLEAN : latest_health' = HealthOf(panda', ready)
          /\ ctl' = Restarted(ctl)
       \/ /\ Fails
          /\ panda' = Broken(panda)
          /\ ctl' = [ctl EXCEPT !.pc = "apply_failed"]
          /\ UNCHANGED latest_health
    /\ UNCHANGED <<node, newer, sup, unseen, in_flight, silenced, disabled,
                   retry, transition, main>>

ControlApplyFailed ==
    /\ ctl.pc = "apply_failed"
    /\ node' = [InternalDisarm(node, TRUE) EXCEPT !.applied_arm = FALSE]
    /\ newer' = TRUE
    /\ sup' = RequestArmed(sup, FALSE)
    /\ ctl' = [ctl EXCEPT !.pc = IF panda.ready THEN "retry" ELSE "update"]
    /\ UNCHANGED <<unseen, in_flight, latest_health, panda, silenced, disabled,
                   retry, transition, rx, main, budget>>

ControlUpdate ==
    /\ ctl.pc = "update"
    /\ LET r == Updated(sup, unseen, SampleOf(ctl.input, ctl.health), 0)
           d == DecisionOf(r, 0)
       IN  /\ sup' = r.to
           /\ ctl' = [ctl EXCEPT !.decision = d,
                          !.pc = IF ~d.longitudinal_armed /\ ctl.health.longitudinal
                                 THEN "drop" ELSE "gap"]
    /\ unseen' = IF SamplesButtons(PandaHealthOf(ctl.health)) THEN {} ELSE unseen
    /\ UNCHANGED <<node, newer, in_flight, latest_health, panda, silenced,
                   disabled, retry, transition, rx, main, budget>>

\* drop_longitudinal_permission can only remove permission.
ControlDrop ==
    /\ ctl.pc = "drop" /\ LockFree
    /\ \/ /\ Works
          /\ panda' = [panda EXCEPT !.longitudinal = @ /\ ~panda.profile]
          /\ ctl' = [ctl EXCEPT !.pc = "gap"]
          /\ UNCHANGED <<node, newer>>
       \/ /\ Fails
          /\ node' = InternalDisarm(node, TRUE) /\ newer' = TRUE
          /\ panda' = Broken(panda)
          /\ ctl' = Restarted(ctl)
    /\ UNCHANGED <<sup, unseen, in_flight, latest_health, silenced, disabled,
                   retry, transition, rx, main>>

\* A command gap gives stock ADAS back but keeps the session, and qualifies a moving resume.
ControlGap ==
    /\ ctl.pc = "gap"
    /\ LET armed == ctl.decision.lateral_armed \/ ctl.decision.longitudinal_armed
       IN  IF ctl.decision.waiting_for_command /\ node.vehicle_safety_mode
           THEN /\ node' = [node EXCEPT
                       !.gap_resume_qualified = armed /\ ctl.was_active,
                       !.preserve_command_session = TRUE]
                /\ ctl' = [ctl EXCEPT !.pc = "no_output", !.caller = "gap"]
           ELSE /\ node' = [node EXCEPT !.gap_resume_qualified = @ /\ armed]
                /\ ctl' = [ctl EXCEPT !.pc = "take"]
    /\ UNCHANGED <<newer, sup, unseen, in_flight, latest_health, panda,
                   silenced, disabled, retry, transition, rx, main, budget>>

ControlGapFailed ==
    /\ ctl.pc = "gap_failed"
    /\ node' = InternalDisarm(node, TRUE) /\ newer' = TRUE
    /\ ctl' = PeriodEnded(ctl)
    /\ UNCHANGED <<sup, unseen, in_flight, latest_health, panda, silenced, disabled, retry,
                   transition, rx, main, budget>>

\* flag becomes moving_resume.
ControlTake ==
    /\ ctl.pc = "take"
    /\ LET h == ctl.health
           d == ctl.decision
           moving == /\ node.gap_resume_qualified \/ node.button_rearm_takeover
                     /\ h.profile /\ h.ready /\ ~h.blocked
           ready == /\ node.applied_arm /\ node.requested_arm
                    /\ h.mode = "no_output" /\ h.profile
                    /\ ~node.vehicle_safety_mode /\ ~node.recovery_pending
                    /\ d.state = "Armed" /\ (d.lateral_armed \/ d.longitudinal_armed)
                    /\ ctl.input.command = "fresh" /\ h.ready
                    /\ ctl.input.standstill \/ moving
       IN  ctl' = [ctl EXCEPT !.pc = IF ready THEN "takeover" ELSE "cleanup", !.flag = moving]
    /\ UNCHANGED <<node, newer, sup, unseen, in_flight, latest_health, panda,
                   silenced, disabled, retry, transition, rx, main, budget>>

\* After a takeover the next samples are new: refresh health, or give up.
ControlTook ==
    /\ ctl.pc = "took"
    /\ \/ /\ Works
          /\ latest_health' = HealthOf(panda, TRUE)
          /\ ctl' = Restarted(ctl)
          /\ UNCHANGED panda
       \/ /\ Fails
          /\ panda' = Broken(panda)
          /\ ctl' = [ctl EXCEPT !.pc = "take_failed"]
          /\ UNCHANGED latest_health
    /\ UNCHANGED <<node, newer, sup, unseen, in_flight, silenced, disabled,
                   retry, transition, rx, main>>

ControlTakeFailed ==
    /\ ctl.pc = "take_failed"
    /\ node' = InternalDisarm(node, TRUE) /\ newer' = TRUE
    /\ ctl' = Restarted(ctl)
    /\ UNCHANGED <<sup, unseen, in_flight, latest_health, panda, silenced,
                   disabled, retry, transition, rx, main, budget>>

\* The supervisor gave the arming up: consume the generation and leave the bus to stock.
GivesUp == ~sup.arm_requested /\ node.applied_arm

ControlCleanup ==
    /\ ctl.pc = "cleanup" /\ GivesUp
    /\ LET waits == ctl.decision.state = "Passive" /\ ctl.input.command = "gap"
       IN  node' = [InternalDisarm(node, ~waits) EXCEPT !.applied_arm = FALSE]
    /\ newer' = FALSE
    /\ ctl' = IF panda.ready THEN [ctl EXCEPT !.pc = "no_output", !.caller = "cleanup"]
              ELSE PeriodEnded(ctl)
    /\ UNCHANGED <<sup, unseen, in_flight, latest_health, panda, silenced, disabled, retry,
                   transition, rx, main, budget>>

\* The adapter may refuse a command it cannot represent; the frames then carry no actuation.
ControlOutput ==
    /\ ctl.pc = "cleanup" /\ ~GivesUp
    /\ \/ UNCHANGED <<node, newer, budget>>
       \/ Spend /\ node' = InternalDisarm(node, TRUE) /\ newer' = TRUE
    /\ ctl' = [ctl EXCEPT !.pc = "send"]
    /\ UNCHANGED <<sup, unseen, in_flight, latest_health, panda, silenced, disabled, retry,
                   transition, rx, main>>

\* The control frames go out here; a failed transfer disarms.  A failed heartbeat does not,
\* but it clears ready_.
Transmitting == ctl.pc = "send" /\ node.vehicle_safety_mode /\ panda.ready /\ ctl.health.ready

ControlSend ==
    /\ ctl.pc = "send" /\ LockFree
    /\ \/ ~Transmitting /\ UNCHANGED <<node, newer, panda, budget>>
       \/ Transmitting /\ Works /\ UNCHANGED <<node, newer, panda>>
       \/ /\ Transmitting /\ Fails
          /\ node' = InternalDisarm(node, TRUE) /\ newer' = TRUE
          /\ panda' \in AfterFailure(panda)
       \/ panda.ready /\ Fails /\ panda' = Broken(panda) /\ UNCHANGED <<node, newer>>
    /\ ctl' = PeriodEnded(ctl)
    /\ UNCHANGED <<sup, unseen, in_flight, latest_health, silenced, disabled,
                   retry, transition, rx, main>>

-----------------------------------------------------------------------------
(* receive_loop *)

RxStop ==
    /\ rx.pc = "poll" /\ ~node.running
    /\ rx' = [rx EXCEPT !.pc = "done"]
    /\ UNCHANGED <<node, newer, sup, unseen, in_flight, latest_health, panda,
                   silenced, disabled, retry, transition, ctl, main, budget>>

MutantOwnershipDropped(n) == n

\* A reconnect or a disconnect: the Panda is no longer in the mode the node put it in.
OwnershipDropped(n) == [n EXCEPT !.vehicle_safety_mode = FALSE]

\* connect(): a new handle, plain NO_OUTPUT, then the button listener.
RxConnect ==
    /\ rx.pc = "poll" /\ node.running /\ ~panda.ready /\ LockFree
    /\ \/ /\ panda.plugged
          /\ panda' = Connected(panda)
          /\ node' = OwnershipDropped(node)
          /\ rx' = [rx EXCEPT !.pc = IF disabled # {} THEN "restore" ELSE "poll"]
          /\ UNCHANGED budget
       \/ /\ IF panda.plugged THEN Spend ELSE UNCHANGED budget
          /\ panda' = Closed(panda)
          /\ rx' = [rx EXCEPT !.pc = "failed"]
          /\ UNCHANGED node
    /\ UNCHANGED <<newer, sup, unseen, in_flight, latest_health, silenced,
                   disabled, retry, transition, ctl, main>>

\* Reconnected while an ECU restore is pending.
RxRestorePending ==
    /\ rx.pc = "restore"
    /\ node' = InternalDisarm(node, TRUE) /\ newer' = TRUE
    /\ rx' = [rx EXCEPT !.pc = "poll"]
    /\ UNCHANGED <<sup, unseen, in_flight, latest_health, panda, silenced,
                   disabled, retry, transition, ctl, main, budget>>

\* Frames are received (their content is chosen at each sample), then health is read without
\* the lock; a failure of receive() looks like one of health().  Health that is read during a
\* transition fails the epoch test.
RxRead ==
    /\ rx.pc = "poll" /\ node.running /\ panda.ready
    /\ \/ /\ Reachable
          /\ \E ready \in BOOLEAN :
                /\ IF ready THEN UNCHANGED budget ELSE Spend
                /\ rx' = [rx EXCEPT !.pc = "commit",
                              !.health = IF LockFree THEN HealthOf(panda, ready) ELSE NoHealth]
          /\ UNCHANGED panda
       \/ /\ Fails
          /\ panda' \in AfterFailure(panda)
          /\ rx' = [rx EXCEPT !.pc = "failed"]
    /\ UNCHANGED <<node, newer, sup, unseen, in_flight, latest_health, silenced, disabled,
                   retry, transition, ctl, main>>

RxCommit ==
    /\ rx.pc = "commit"
    /\ latest_health' = IF rx.health.connected THEN rx.health ELSE latest_health
    /\ rx' = [rx EXCEPT !.pc = "poll", !.health = NoHealth]
    /\ UNCHANGED <<node, newer, sup, unseen, in_flight, panda, silenced, disabled, retry,
                   transition, ctl, main, budget>>

\* The catch block: disconnect, request_internal_disarm, then the last two stores.
RxFailed ==
    /\ rx.pc = "failed" /\ LockFree
    /\ panda' = Closed(panda)
    /\ node' = OwnershipDropped(node)
    /\ rx' = [rx EXCEPT !.pc = "disarm"]
    /\ UNCHANGED <<newer, sup, unseen, in_flight, latest_health, silenced,
                   disabled, retry, transition, ctl, main, budget>>

RxDisarm ==
    /\ rx.pc = "disarm"
    /\ node' = InternalDisarm(node, TRUE) /\ newer' = TRUE
    /\ rx' = [rx EXCEPT !.pc = "reset"]
    /\ UNCHANGED <<sup, unseen, in_flight, latest_health, panda, silenced,
                   disabled, retry, transition, ctl, main, budget>>

RxReset ==
    /\ rx.pc = "reset"
    /\ node' = [node EXCEPT !.applied_arm = FALSE]
    /\ latest_health' = NoHealth
    /\ rx' = [rx EXCEPT !.pc = "poll"]
    /\ UNCHANGED <<newer, sup, unseen, in_flight, panda, silenced, disabled,
                   retry, transition, ctl, main, budget>>

-----------------------------------------------------------------------------
(* The main thread: arm_callback and the destructor *)

\* The two early returns of arm_callback; the check of recovery_pending_ precedes the stores.
ArmCall(arm) ==
    /\ main.pc = "spin"
    /\ budget.calls > 0
    /\ budget' = [budget EXCEPT !.calls = @ - 1]
    /\ main' = IF arm /\ (~AllowActuation \/ node.recovery_pending) THEN main
               ELSE [pc |-> "arm", arm |-> arm]
    /\ UNCHANGED <<node, newer, sup, unseen, in_flight, latest_health, panda,
                   silenced, disabled, retry, transition, ctl, rx>>

ArmStore ==
    /\ main.pc = "arm"
    /\ node' = [node EXCEPT
                   !.auto_arm_inhibited = ~main.arm, !.operator_disarmed = ~main.arm,
                   !.button_rearm_takeover = FALSE, !.gap_resume_qualified = FALSE,
                   !.preserve_command_session = FALSE,
                   !.recovery_rearm_required = @ /\ ~main.arm,
                   !.requested_arm = main.arm]
    /\ newer' = TRUE
    /\ main' = [pc |-> "spin", arm |-> FALSE]
    /\ UNCHANGED <<sup, unseen, in_flight, latest_health, panda, silenced,
                   disabled, retry, transition, ctl, rx, budget>>

Shutdown ==
    /\ MayShutDown /\ main.pc = "spin"
    /\ node' = [node EXCEPT
                   !.auto_arm_inhibited = TRUE, !.operator_disarmed = TRUE,
                   !.button_rearm_takeover = FALSE, !.preserve_command_session = FALSE,
                   !.gap_resume_qualified = FALSE, !.requested_arm = FALSE]
    /\ newer' = TRUE
    /\ main' = [main EXCEPT !.pc = IF panda.ready THEN "no_output" ELSE "stop"]
    /\ UNCHANGED <<sup, unseen, in_flight, latest_health, panda, silenced,
                   disabled, retry, transition, ctl, rx, budget>>

MutantMainStop ==
    /\ main.pc = "stop"
    /\ main' = [main EXCEPT !.pc = "join"]
    /\ UNCHANGED <<node, newer, sup, unseen, in_flight, latest_health, panda, silenced,
                   disabled, retry, transition, ctl, rx, budget>>

MainStop ==
    /\ main.pc = "stop"
    /\ node' = [node EXCEPT !.running = FALSE]
    /\ main' = [main EXCEPT !.pc = "join"]
    /\ UNCHANGED <<newer, sup, unseen, in_flight, latest_health, panda,
                   silenced, disabled, retry, transition, ctl, rx, budget>>

MainJoin ==
    /\ main.pc = "join" /\ ctl.pc = "done" /\ rx.pc = "done"
    /\ panda' = IF panda.ready THEN Closed(panda) ELSE panda
    /\ main' = [main EXCEPT !.pc = "exited"]
    /\ UNCHANGED <<node, newer, sup, unseen, in_flight, latest_health,
                   silenced, disabled, retry, transition, ctl, rx, budget>>

-----------------------------------------------------------------------------
(* The driver, the firmware and the cable (external) *)

\* A press reaches the firmware session at once and the host later.
Press(button) ==
    /\ budget.presses > 0 /\ panda.plugged /\ main.pc # "exited"
    /\ budget' = [budget EXCEPT !.presses = @ - 1]
    /\ LET both == panda.lateral /\ panda.longitudinal
       IN  panda' = IF ~panda.profile \/ panda.blocked THEN panda
                    ELSE IF button = "lane_keep"
                    THEN [panda EXCEPT !.lateral = ~panda.lateral \/ both, !.longitudinal = FALSE]
                    ELSE [panda EXCEPT !.lateral = ~both, !.longitudinal = ~both]
    /\ in_flight' = in_flight \cup {button}
    /\ UNCHANGED <<node, newer, sup, unseen, latest_health, silenced, disabled, retry,
                   transition, ctl, rx, main>>

\* The firmware aborts its session (invalid CAN, heartbeat mismatch, CANCEL).
SessionAbort ==
    /\ panda.profile /\ ~panda.blocked /\ main.pc # "exited"
    /\ Spend
    /\ panda' = [panda EXCEPT !.lateral = FALSE, !.longitudinal = FALSE, !.blocked = TRUE]
    /\ UNCHANGED <<node, newer, sup, unseen, in_flight, latest_health, silenced,
                   disabled, retry, transition, ctl, rx, main>>

Unplug ==
    /\ panda.plugged /\ budget.unplugs > 0 /\ main.pc # "exited"
    /\ budget' = [budget EXCEPT !.unplugs = @ - 1]
    /\ panda' = [panda EXCEPT !.plugged = FALSE]
    /\ UNCHANGED <<node, newer, sup, unseen, in_flight, latest_health, silenced,
                   disabled, retry, transition, ctl, rx, main>>

\* The old handle stays dead after a replug, so nothing is lost by waiting until it is closed.
Replug ==
    /\ ~panda.plugged /\ ~panda.handle /\ main.pc # "exited"
    /\ panda' = [panda EXCEPT !.plugged = TRUE]
    /\ UNCHANGED <<node, newer, sup, unseen, in_flight, latest_health, silenced,
                   disabled, retry, transition, ctl, rx, main, budget>>

Exited == main.pc = "exited" /\ UNCHANGED vars

-----------------------------------------------------------------------------
Transitioning ==
    \/ \E owner \in {"control", "main"} : NoOutputBegin(owner)
    \/ NoOutputRestore \/ NoOutputStandby \/ NoOutputFinish
    \/ TakeoverBegin
    \/ \E e \in ECUs : DisableEcu(e)
    \/ TakeoverConfigure

Control ==
    \/ ControlStop \/ ControlRetry \/ ControlNoRetry \/ ControlSample \/ ControlRearm \/ ControlAuto
    \/ ControlApply \/ ControlListen \/ ControlApplyFailed \/ ControlUpdate \/ ControlDrop
    \/ ControlGap \/ ControlGapFailed \/ ControlTake \/ ControlTook \/ ControlTakeFailed
    \/ ControlCleanup \/ ControlOutput \/ ControlSend

Receive ==
    \/ RxStop \/ RxConnect \/ RxRestorePending \/ RxRead \/ RxCommit
    \/ RxFailed \/ RxDisarm \/ RxReset

Main == ArmStore \/ MainStop \/ MainJoin
Request == Shutdown \/ \E arm \in BOOLEAN : ArmCall(arm)

Environment ==
    \/ \E button \in DriverButtons : Press(button)
    \/ SessionAbort \/ Unplug \/ Replug

Next == Transitioning \/ Control \/ Receive \/ Main \/ Request \/ Environment \/ Exited

Spec == Init /\ [][Next]_vars

\* The threads are scheduled, their waits time out and each of them gets actuation_mutex_ in
\* the end (the control thread sleeps without it in every period); a back-off, at most 30 s,
\* ends.  No fairness for requests, the driver, failures or the cable.
FairSpec ==
    /\ Spec
    /\ WF_vars(Transitioning) /\ WF_vars(Control) /\ WF_vars(Main)
    /\ SF_vars(Receive) /\ SF_vars(NoOutputBegin("main")) /\ SF_vars(ControlRetry)

-----------------------------------------------------------------------------
(* Properties *)

\* Whenever actuator frames may leave the node, the ECUs they replace are off the bus and
\* remembered as disabled, and the Panda (if still there) is in the vehicle safety mode: no
\* interleaving of reconnect, recovery and takeover makes two senders of one frame.
ExclusiveOwnership ==
    Transmitting /\ LockFree =>
        /\ ECUs \subseteq silenced \cap disabled
        /\ Reachable => panda.mode = "hyundai_canfd"

\* An ECU that is off the bus has its flag set, so that recovery knows it must be restored.
SilencedEcuIsRemembered == silenced \subseteq disabled

\* As long as an ECU is flagged and the node does not drive, recovery is pending or the thread
\* that will request it is on its way: no failure forgets the stock ECUs.
RecoveryIsScheduled ==
    disabled # {} /\ ~node.vehicle_safety_mode =>
        \/ node.recovery_pending \/ ~LockFree
        \/ ctl.pc = "take_failed" \/ rx.pc \in {"restore", "disarm"}

\* Frames go out only in a period whose Panda health was read after the takeover, although the
\* receive thread reads health without the lock and a takeover lasts longer than a period.
FreshHealthWhenTransmitting == Transmitting => ctl.health.mode = "hyundai_canfd"

\* The three threads together give away and take back the stock ECUs as one node would: it
\* drives only with both noted and silent, keeps both until it has stopped driving, and drops a
\* note only for an ECU that is heard again.
Ownership ==
    INSTANCE EcuOwnership WITH driving <- node.vehicle_safety_mode,
                               heard <- {e \in ECUs : StockTraffic(e, silenced)}
KeepsOwnership == Ownership!Spec

\* "Explicit set_armed false or shutdown; a physical button press never overrides it": once
\* the control thread has caught up with every request, an operator's OFF has reached the
\* supervisor.
OperatorOffIsApplied ==
    node.operator_disarmed /\ ~newer /\ ctl.pc = "top" => ~sup.arm_requested

\* On shutdown "both communications are restored": with a healthy Panda no ECU is left off the
\* bus when the process is gone.
StockRestoredOnExit == main.pc = "exited" => silenced = {}

\* A pending recovery completes, so that a button press can connect again after a fault.
RecoveryCompletes == node.recovery_pending ~> ~node.recovery_pending

\* The destructor returns: neither the lock, a wait for replies nor the joins hang it.
ShutdownTerminates == main.pc \in {"no_output", "stop"} ~> main.pc = "exited"
=============================================================================
