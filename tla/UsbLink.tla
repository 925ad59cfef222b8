------------------------------- MODULE UsbLink -------------------------------
(***************************************************************************)
(* The CAN stream from the Panda to the host: connect(), receive() and     *)
(* disconnect() of src/panda_usb.cpp with unpack_frames of                 *)
(* src/panda_protocol.cpp, against the firmware's USB endpoint.            *)
(*                                                                         *)
(* Abstractions.  A CAN packet is a sequence of cells <<frame, position>>, *)
(* a header and its payload; frames are numbered in the order of the bus.  *)
(* Nothing corrupts bytes, so that every checksum failure is one the host  *)
(* brought upon itself by taking the middle of a packet for its header; it *)
(* is reported at once, where the code may first wait for as many bytes as *)
(* the false header announces.  The firmware (external) cuts its stream    *)
(* into USB packets of UsbSize cells; a shorter one says that everything   *)
(* it had was in it.  Mutant... definitions are wrong variants that show   *)
(* a property can fail.                                                    *)
(***************************************************************************)
EXTENDS Integers, Sequences, FiniteSets, FiniteSetsExt

CONSTANTS
    Cells,         \* Cells[i] is the number of cells of frame i; the run ends with the last
    UsbSize,       \* cells of a full USB packet
    Capacity,      \* cells of the host's receive buffer
    QueueSize      \* the firmware drops frames when it holds more cells than this

ASSUME CellsAssumption == Cells \in Seq(Nat \ {0})
ASSUME UsbAssumption ==
    /\ UsbSize \in Nat \ {0}
    /\ Capacity \in Nat \ {0} /\ Capacity % UsbSize = 0
    /\ QueueSize \in Nat

VARIABLES
    sent,        \* frames that were on the bus
    device,      \* cells waiting in the firmware, and the USB packet queued at the endpoint
    host,        \* connection phase, the transfer in progress, receive_carry_
    arrived,     \* what the last receive() returned
    failed       \* history: a checksum failure was reported

linkVars == <<sent, device, host, arrived, failed>>

Frames == DOMAIN Cells
Packet(i) == [k \in 1..Cells[i] |-> <<i, k>>]
Cell == {c \in Frames \X (Nat \ {0}) : c[2] <= Cells[c[1]]}
IsFirst(c) == c[2] = 1
IsLast(c) == c[2] = Cells[c[1]]

\* The frames that end in cells, in the order in which they do.
FramesIn(cells) ==
    LET upTo[n \in 0..Len(cells)] ==
            IF n = 0 THEN <<>>
            ELSE IF IsLast(cells[n]) THEN Append(upTo[n - 1], cells[n][1]) ELSE upTo[n - 1]
    IN  upTo[Len(cells)]

TypeOK ==
    /\ sent \in 0..Len(Cells)
    /\ device \in [pending : Seq(Cell), endpoint : Seq(Seq(Cell))]
    /\ Len(device.endpoint) <= 1
    /\ host \in [phase : {"closed", "open", "sync", "ready"}, buffer : Seq(Cell),
                 short : BOOLEAN, carry : Seq(Cell)]
    /\ Len(host.buffer) <= Capacity
    /\ host.carry # <<>> => \E i \in Frames : Len(host.carry) < Cells[i]
    /\ arrived \in Seq(Frames)
    /\ failed \in BOOLEAN

Closed == [phase |-> "closed", buffer |-> <<>>, short |-> FALSE, carry |-> <<>>]

LinkInit ==
    /\ sent = 0
    /\ device = [pending |-> <<>>, endpoint |-> <<>>]
    /\ host = Closed
    /\ arrived = <<>>
    /\ failed = FALSE

-----------------------------------------------------------------------------
(* The firmware (external) *)

\* A frame of the bus is queued, or dropped when the queue is full.
CanReceive ==
    /\ sent < Len(Cells)
    /\ sent' = sent + 1
    /\ device' = IF Len(device.pending) > QueueSize THEN device
                 ELSE [device EXCEPT !.pending = @ \o Packet(sent + 1)]
    /\ arrived' = <<>>
    /\ UNCHANGED <<host, failed>>

\* comms_can_read: the next USB packet, an empty one when there is nothing.
FillEndpoint ==
    /\ device.endpoint = <<>>
    /\ LET n == Min({UsbSize, Len(device.pending)})
       IN  device' = [pending |-> SubSeq(device.pending, n + 1, Len(device.pending)),
                      endpoint |-> <<SubSeq(device.pending, 1, n)>>]
    /\ arrived' = <<>>
    /\ UNCHANGED <<sent, host, failed>>

\* Request 0xC0 forgets the rest of a packet that was cut, but not what is queued at the endpoint.
WithoutTail(cells) ==
    IF cells = <<>> \/ IsFirst(Head(cells)) THEN cells
    ELSE SubSeq(cells, 2 + Cells[Head(cells)[1]] - Head(cells)[2], Len(cells))

-----------------------------------------------------------------------------
(* connect() *)

Open ==
    /\ host.phase = "closed"
    /\ host' = [Closed EXCEPT !.phase = "open"]
    /\ arrived' = <<>>
    /\ UNCHANGED <<sent, device, failed>>

\* Reset of the CAN communication, then the version, bitrate and NO_OUTPUT requests.
ResetCommunication ==
    /\ host.phase = "open"
    /\ host' = [host EXCEPT !.phase = "sync"]
    /\ device' = [device EXCEPT !.pending = WithoutTail(@)]
    /\ arrived' = <<>>
    /\ UNCHANGED <<sent, failed>>

-----------------------------------------------------------------------------
(* A bulk transfer: USB packets until a short one, a full buffer or the timeout *)

Reading == host.phase \in {"sync", "ready"}
TransferDone == host.short \/ Len(host.buffer) = Capacity

ReadUsbPacket ==
    /\ Reading /\ ~TransferDone /\ device.endpoint # <<>>
    /\ host' = [host EXCEPT !.buffer = @ \o Head(device.endpoint),
                            !.short = Len(Head(device.endpoint)) < UsbSize]
    /\ device' = [device EXCEPT !.endpoint = <<>>]
    /\ arrived' = <<>>
    /\ UNCHANGED <<sent, failed>>

MutantBoundary(status) == Len(host.buffer) < Capacity

\* initial_receive_boundary: only a successful short transfer is one.
Boundary(status) == status = "success" /\ Len(host.buffer) < Capacity

\* synchronize_can_receive discards what it reads, until the boundary.
Drained(status) ==
    IF Boundary(status) THEN [Closed EXCEPT !.phase = "ready"] ELSE [Closed EXCEPT !.phase = "sync"]

\* Cells that begin with a header and go on without a gap.
Aligned(cells) ==
    /\ cells # <<>> => IsFirst(Head(cells))
    /\ \A k \in 1..Len(cells) - 1 :
          IF IsLast(cells[k]) THEN IsFirst(cells[k + 1])
          ELSE cells[k + 1] = <<cells[k][1], cells[k][2] + 1>>

MutantUnpacked(cells) ==
    Max({0} \cup {k \in 1..Len(cells) - 1 : IsLast(cells[k])})

\* unpack_frames takes every complete packet and leaves the incomplete one in the carry.
Unpacked(cells) == Max({0} \cup {k \in 1..Len(cells) : IsLast(cells[k])})

MutantDecoded(status) == IF status = "success" THEN host.carry \o host.buffer ELSE host.carry

\* decode_bulk_read: a timeout may have transferred complete USB packets; they are kept.
Decoded(status) == host.carry \o host.buffer

\* receive() in the receive loop: a checksum failure ends the connection.
Receive(status) ==
    LET cells == Decoded(status)
        n == Unpacked(cells)
    IN  IF Aligned(cells)
        THEN /\ host' = [Closed EXCEPT !.phase = "ready", !.carry = SubSeq(cells, n + 1, Len(cells))]
             /\ arrived' = FramesIn(SubSeq(cells, 1, n))
             /\ UNCHANGED failed
        ELSE /\ host' = Closed
             /\ arrived' = <<>>
             /\ failed' = TRUE

TransferEnds(status) ==
    /\ Reading
    /\ (status = "success") <=> TransferDone
    /\ IF host.phase = "ready" THEN Receive(status)
       ELSE host' = Drained(status) /\ arrived' = <<>> /\ UNCHANGED failed
    /\ UNCHANGED <<sent, device>>

\* A transfer error, a connect() that fails or gives up, a receive loop that reports an error.
Disconnect ==
    /\ host.phase # "closed"
    /\ host' = Closed
    /\ arrived' = <<>>
    /\ UNCHANGED <<sent, device, failed>>

\* The device loses power: nothing of its stream is left.
Unplug ==
    /\ host' = Closed
    /\ device' = [pending |-> <<>>, endpoint |-> <<>>]
    /\ arrived' = <<>>
    /\ UNCHANGED <<sent, failed>>

LinkNext ==
    \/ CanReceive
    \/ FillEndpoint
    \/ Open
    \/ ResetCommunication
    \/ ReadUsbPacket
    \/ \E status \in {"success", "timeout"} : TransferEnds(status)
    \/ Disconnect
    \/ Unplug

\* The firmware answers the host's tokens, the receive loop reads, every transfer ends.
LinkFairness ==
    /\ WF_linkVars(FillEndpoint)
    /\ WF_linkVars(ReadUsbPacket)
    /\ WF_linkVars(TransferEnds("success"))

-----------------------------------------------------------------------------
(* Properties *)

\* "runtime checksum errors remain fatal": they must not come from the host itself, although
\* reset, reconnect, timeouts and a short read may find the stream anywhere inside a packet.
NoFalseChecksumError == ~failed

Inflight ==
    IF host.phase = "ready"
    THEN FramesIn(host.carry \o host.buffer \o
                  (IF device.endpoint = <<>> THEN <<>> ELSE Head(device.endpoint)) \o device.pending)
    ELSE <<>>

Channel ==
    INSTANCE FrameChannel WITH up <- host.phase = "ready", inflight <- Inflight, newest <- sent

\* Whatever the cuts of the USB packets and the timeouts of the transfers, one connection is a
\* channel that keeps the order of the bus, repeats nothing and loses nothing it took.
KeepsFrames == Channel!Spec

\* A frame in the channel reaches the parser unless the connection ends: no part of it waits
\* in a buffer for later traffic to push it out.
FramesArrive == Inflight # <<>> ~> Inflight = <<>>
=============================================================================
