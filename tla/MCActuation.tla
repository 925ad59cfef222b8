----------------------------- MODULE MCActuation -----------------------------
(***************************************************************************)
(* Actuation for TLC: few samples, because the supervisor's own run and    *)
(* proofs cover the others, and one lost permission of each kind.          *)
(***************************************************************************)
EXTENDS Actuation

MCNominal ==
    [vehicle |-> [brake_pressed |-> FALSE, gas_pressed |-> FALSE, eps_fault |-> FALSE,
                  acc_fault |-> FALSE, valid |-> TRUE, speed |-> 0, steering_angle |-> 0],
     panda |-> [connected |-> TRUE, stamped |-> TRUE, age |-> 0,
                session_active |-> FALSE, session_ready |-> FALSE, session_blocked |-> FALSE,
                ignition_on |-> TRUE, lateral_selected |-> FALSE, longitudinal_selected |-> FALSE,
                controls_allowed |-> TRUE, heartbeat_lost |-> FALSE, rx_checks_invalid |-> FALSE,
                bus_off |-> FALSE, faults |-> {}, ignored_faults |-> {},
                fault_status |-> FALSE, harness_ok |-> TRUE, safety_mode |-> "hyundai_canfd",
                param_matches |-> TRUE, tx_blocked_rose |-> FALSE, last_rejected |-> "0x12A"],
     command |-> [stamped |-> TRUE, age |-> 0, valid |-> TRUE, enable |-> TRUE]]

MCHighAngle == [MCNominal EXCEPT !.vehicle.steering_angle = CutoffAngle]
MCSamples ==
    {MCNominal, MCHighAngle,
     [MCNominal EXCEPT !.vehicle.brake_pressed = TRUE],
     [MCHighAngle EXCEPT !.panda.heartbeat_lost = TRUE]}

MCTorques == {3}
MCDriverTorques == {-2}

\* The control thread sees of a message only its stamp, validity and enable.  So numbers, losses
\* and restarts of the publisher are explored while the node is as it started, and the node's
\* threads with messages that come without numbers.  Only Judge reads them, the buttons and the
\* clock, so it is enough that these move just before it.
Started == node = InitialNode /\ sup = InitialSupervisor /\ decision = InitialDecision
Unnumbered == latest.last_sequence = 0 /\ ~stream.restarted /\ latest.stamped /\ latest.valid
MCNext ==
    \/ Started /\ (Topic \/ Others(Tick))
    \/ At({"judge"}) /\ (UnnumberedCallback(UseEnableField) \/ Outside)
    \/ Unnumbered /\ (Requests \/ Link \/ Control)
MCSpec == ActuationInit /\ [][MCNext]_allVars
=============================================================================
