------------------------------ MODULE MCEcanNode ------------------------------
(***************************************************************************)
(* Instances of EcanNode for TLC: which samples a control period may see.  *)
(***************************************************************************)
EXTENDS EcanNode

MCInput(command, standstill, brake, valid) ==
    [command |-> command, standstill |-> standstill, brake |-> brake, vehicle_valid |-> valid]

MCDriving == {MCInput("fresh", TRUE, FALSE, TRUE), MCInput("gap", TRUE, FALSE, TRUE)}
MCCommanded == {MCInput("fresh", TRUE, FALSE, TRUE)}
MCAnything == MCDriving \cup
    {MCInput("fresh", FALSE, FALSE, TRUE), MCInput("fresh", TRUE, TRUE, TRUE),
     MCInput("invalid", TRUE, FALSE, TRUE), MCInput("fresh", TRUE, FALSE, FALSE)}
=============================================================================
