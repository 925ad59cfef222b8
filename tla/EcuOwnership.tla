----------------------------- MODULE EcuOwnership -----------------------------
(***************************************************************************)
(* Who sends the camera's and the radar's frames.  The node sends them     *)
(* only while none of the stock ones is on the bus; before it silences an  *)
(* ECU it makes a note, and it drops the note only when it hears the ECU   *)
(* again.  EcanNode and EcuRecovery implement this.                        *)
(***************************************************************************)
CONSTANT ECUs

VARIABLES
    driving,     \* the node may send actuator frames
    heard,       \* the ECUs whose stock frames are on the bus
    disabled     \* the ECUs the node knows it has to give back

Init == ~driving /\ heard = ECUs /\ disabled = {}

TakeOver ==
    /\ ~driving /\ ~driving'
    /\ disabled \subseteq disabled' /\ disabled' \subseteq ECUs
    /\ heard' \subseteq heard
    /\ heard' # heard => disabled' # {}

Drive ==
    /\ ~driving /\ driving'
    /\ heard = {} /\ disabled = ECUs
    /\ UNCHANGED <<heard, disabled>>

Stop ==
    /\ driving /\ ~driving'
    /\ UNCHANGED <<heard, disabled>>

GiveBack ==
    /\ ~driving /\ ~driving'
    /\ heard \subseteq heard' /\ heard' \subseteq ECUs
    /\ disabled' \subseteq disabled
    /\ disabled \ disabled' \subseteq heard'
    /\ disabled' = {} => heard' = ECUs

Next == TakeOver \/ Drive \/ Stop \/ GiveBack

Spec == Init /\ [][Next]_<<driving, heard, disabled>>
=============================================================================
