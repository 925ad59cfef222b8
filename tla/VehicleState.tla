----------------------------- MODULE VehicleState -----------------------------
(***************************************************************************)
(* The button part of src/vehicle_state_parser.cpp on what the receive     *)
(* thread gets from UsbLink: frames may be missing, and the parser keeps   *)
(* the last levels over a disconnect.                                      *)
(*                                                                         *)
(* Abstractions.  A frame is well formed and carries button levels, is     *)
(* malformed (size or checksum), or is of no interest here.                *)
(* Mutant... definitions are wrong variants that show a property can fail. *)
(***************************************************************************)
EXTENDS UsbLink

CONSTANT Bus         \* Bus[i] is the content of frame i

Buttons == {"lane_keep", "set", "cancel"}
CruiseButtons == {"none", "res", "set", "cancel"}

BusFrame == [kind : {"buttons", "malformed", "other"}, lane_keep : BOOLEAN, cruise : CruiseButtons]
ASSUME BusAssumption == Bus \in [Frames -> BusFrame]

VARIABLE parser      \* previous levels and event counters

stateVars == <<linkVars, parser>>

Parser == [lane_keep : BOOLEAN, cruise : CruiseButtons, events : [Buttons -> Nat], malformed : Nat]

StateInit ==
    /\ LinkInit
    /\ parser = [lane_keep |-> FALSE, cruise |-> "none",
                 events |-> [b \in Buttons |-> 0], malformed |-> 0]

-----------------------------------------------------------------------------

\* parse_buttons: LDA counts when pressed, SET when released to nothing, CANCEL when pressed.
Edges(p, f) ==
    {b \in Buttons :
        CASE b = "lane_keep" -> f.lane_keep /\ ~p.lane_keep
          [] b = "set" -> p.cruise = "set" /\ f.cruise = "none"
          [] b = "cancel" -> f.cruise = "cancel" /\ p.cruise # "cancel"}

MutantLevels(p, f) ==
    [p EXCEPT !.lane_keep = f.lane_keep, !.cruise = IF f.cruise = "none" THEN @ ELSE f.cruise]
Levels(p, f) == [p EXCEPT !.lane_keep = f.lane_keep, !.cruise = f.cruise]

Counted(p, f) ==
    [Levels(p, f) EXCEPT !.events = [b \in Buttons |-> p.events[b] + IF b \in Edges(p, f) THEN 1 ELSE 0]]

\* update()
Parsed(p, i) ==
    CASE Bus[i].kind = "buttons" -> Counted(p, Bus[i])
      [] Bus[i].kind = "malformed" -> [p EXCEPT !.malformed = @ + 1]
      [] Bus[i].kind = "other" -> p

\* The receive loop hands every frame that receive() returned to the parser.
ParsedAll(p, frames) ==
    LET upTo[n \in 0..Len(frames)] == IF n = 0 THEN p ELSE Parsed(upTo[n - 1], frames[n])
    IN  upTo[Len(frames)]

StateNext == LinkNext /\ parser' = ParsedAll(parser, arrived')

StateSpec == StateInit /\ [][StateNext]_stateVars /\ LinkFairness

-----------------------------------------------------------------------------
(* Properties *)

\* The well-formed button frame of the bus before frame i, and the levels the car then had.
Before(i) == Max({0} \cup {j \in 1..i - 1 : Bus[j].kind = "buttons"})
LevelsBefore(i) ==
    IF Before(i) = 0 THEN [lane_keep |-> FALSE, cruise |-> "none"] ELSE Bus[Before(i)]

\* An edge of the driver's on the bus, of a button already held in its first frame included: LDA
\* pressed, SET left for any other button, CANCEL pressed.
OnTheBus(b, i) ==
    /\ Bus[i].kind = "buttons"
    /\ CASE b = "lane_keep" -> Bus[i].lane_keep /\ ~LevelsBefore(i).lane_keep
         [] b = "set" -> Bus[i].cruise # "set" /\ LevelsBefore(i).cruise = "set"
         [] b = "cancel" -> Bus[i].cruise = "cancel" /\ LevelsBefore(i).cruise # "cancel"

\* Frames lost by the firmware, in a disconnect or to their checksum never make the host count
\* an edge that the bus did not carry: the levels kept over the gap lose edges but invent none.
\* The bound is the bus, not the count of firmware, whose listener takes a button held when it is
\* installed for its baseline while the host counts its press or release
\* (opendbc-command-session.patch:164-175).
EventsHappened ==
    \A b \in Buttons : parser.events[b] <= Cardinality({i \in 1..sent : OnTheBus(b, i)})
=============================================================================
