-------------------------- MODULE MCSafetySupervisor --------------------------
(***************************************************************************)
(* Instances of SafetySupervisor for TLC.  A sample is the nominal one     *)
(* (everything fresh, healthy and selected) with one deviation of any      *)
(* kind, or with two of the kinds whose combinations the code tells apart. *)
(***************************************************************************)
EXTENDS SafetySupervisor

MCNominal ==
    [vehicle |-> [brake_pressed |-> FALSE, gas_pressed |-> FALSE, eps_fault |-> FALSE,
                  acc_fault |-> FALSE, valid |-> TRUE, speed |-> 0, steering_angle |-> 0],
     panda |-> [connected |-> TRUE, stamped |-> TRUE, age |-> 0,
                session_active |-> TRUE, session_ready |-> TRUE, session_blocked |-> FALSE,
                ignition_on |-> TRUE, lateral_selected |-> TRUE, longitudinal_selected |-> TRUE,
                controls_allowed |-> TRUE, heartbeat_lost |-> FALSE, rx_checks_invalid |-> FALSE,
                bus_off |-> FALSE, faults |-> {}, ignored_faults |-> {"disabled_bus"},
                fault_status |-> FALSE, harness_ok |-> TRUE, safety_mode |-> "hyundai_canfd",
                param_matches |-> TRUE, tx_blocked_rose |-> FALSE, last_rejected |-> "0x12A"],
     command |-> [stamped |-> TRUE, age |-> 0, valid |-> TRUE, enable |-> TRUE]]

\* Flags whose combinations the code distinguishes, and flags that decide on their own.
MCFlips ==
    {"vehicle"} \X {"brake_pressed", "gas_pressed", "eps_fault", "acc_fault"}
    \cup {"panda"} \X {"session_ready", "lateral_selected", "longitudinal_selected",
                       "controls_allowed", "fault_status", "tx_blocked_rose"}
    \cup {"command"} \X {"enable"}
MCLoneFlips ==
    {"vehicle"} \X {"valid"}
    \cup {"panda"} \X {"connected", "stamped", "session_active", "session_blocked", "ignition_on",
                       "heartbeat_lost", "rx_checks_invalid", "bus_off", "harness_ok",
                       "param_matches"}
    \cup {"command"} \X {"stamped", "valid"}

MCFlipped(S, flips) == {[x EXCEPT ![f[1]][f[2]] = ~@] : x \in S, f \in flips}

\* S with one more deviation: a flipped flag, or another value of a wider field.
MCDeviate(S) ==
    S \cup MCFlipped(S, MCFlips)
      \cup {[x EXCEPT !.command.age = CommandTimeout + 1] : x \in S}
      \cup {[x EXCEPT !.panda.safety_mode = "no_output"] : x \in S}
      \cup {[x EXCEPT !.panda.faults = {"disabled_bus"}] : x \in S}
      \cup {[x EXCEPT !.panda.last_rejected = a] : x \in S, a \in {"0x1A0", "other"}}

MCLone(S) ==
    MCFlipped(S, MCLoneFlips)
      \cup {[x EXCEPT !.panda.age = a] : x \in S, a \in {-1, PandaTimeout, PandaTimeout + 1}}
      \cup {[x EXCEPT !.command.age = a] : x \in S, a \in {-1, CommandTimeout}}
      \cup {[x EXCEPT !.panda.safety_mode = "other"] : x \in S}
      \cup {[x EXCEPT !.panda.faults = {"ecan"}] : x \in S}
      \cup {[x EXCEPT !.panda.last_rejected = "0x160"] : x \in S}
      \cup {[x EXCEPT !.vehicle.speed = MaxActiveSpeed + n] : x \in S, n \in {0, 1}}
      \cup {[x EXCEPT !.vehicle.steering_angle = n - MaxAbsSteeringAngle] : x \in S, n \in {0, 1}}

MCSamples == MCDeviate(MCDeviate({MCNominal})) \cup MCLone({MCNominal})
=============================================================================
