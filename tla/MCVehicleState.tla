---------------------------- MODULE MCVehicleState ----------------------------
(***************************************************************************)
(* VehicleState for TLC: frames of one to three cells in USB packets of    *)
(* two, so that a packet boundary falls inside a frame and on its end.     *)
(* The driver presses SET twice, leaves it for RES+ once, presses LDA      *)
(* twice and CANCEL; one frame is malformed, one of no interest.           *)
(***************************************************************************)
EXTENDS VehicleState

MCCells == <<2, 3, 1, 3, 2, 1, 3, 1, 3>>
MCButtons(l, c) == [kind |-> "buttons", lane_keep |-> l, cruise |-> c]
MCBus == <<MCButtons(FALSE, "set"), MCButtons(FALSE, "none"), MCButtons(FALSE, "none"),
           [MCButtons(FALSE, "set") EXCEPT !.kind = "malformed"],
           MCButtons(TRUE, "set"), MCButtons(FALSE, "res"), MCButtons(TRUE, "none"),
           [MCButtons(FALSE, "none") EXCEPT !.kind = "other"], MCButtons(TRUE, "cancel")>>
=============================================================================
