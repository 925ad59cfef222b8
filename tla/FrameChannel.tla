----------------------------- MODULE FrameChannel -----------------------------
(***************************************************************************)
(* What the receive thread may rely on: the CAN frames of one connection   *)
(* come in the order of the bus, each at most once, and while the link is  *)
(* up none that entered the channel is lost.  UsbLink implements it with   *)
(* USB packets that begin and end anywhere inside a frame.                 *)
(***************************************************************************)
EXTENDS Integers, Sequences

VARIABLES
    up,         \* the link hands frames over
    inflight,   \* frames, by their number on the bus, on their way to the host
    arrived,    \* the frames handed over by the last read
    newest      \* the number of the last frame that entered the channel or passed it by

Ascending(s) == \A i \in 1..Len(s) - 1 : s[i] < s[i + 1]
Above(s, n) == \A i \in 1..Len(s) : s[i] > n

Init == ~up /\ inflight = <<>> /\ arrived = <<>> /\ newest = 0

\* A frame of the bus enters the channel, or is lost before it does.
Put ==
    /\ newest' = newest + 1
    /\ arrived' = <<>>
    /\ inflight' \in {inflight} \cup IF up THEN {Append(inflight, newest + 1)} ELSE {}
    /\ UNCHANGED up

Connect ==
    /\ ~up /\ up'
    /\ inflight' \in Seq(1..newest) /\ Ascending(inflight')
    /\ arrived' = <<>>
    /\ UNCHANGED newest

Take ==
    /\ up
    /\ \E n \in 0..Len(inflight) :
          /\ arrived' = SubSeq(inflight, 1, n)
          /\ inflight' = SubSeq(inflight, n + 1, Len(inflight))
    /\ UNCHANGED <<up, newest>>

Break ==
    /\ ~up' /\ inflight' = <<>> /\ arrived' = <<>>
    /\ UNCHANGED newest

Quiet == arrived' = <<>> /\ UNCHANGED <<up, inflight, newest>>

Next == Put \/ Connect \/ Take \/ Break \/ Quiet

Spec == Init /\ [][Next]_<<up, inflight, arrived, newest>>
=============================================================================
