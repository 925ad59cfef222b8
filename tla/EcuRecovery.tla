------------------------------ MODULE EcuRecovery ------------------------------
(***************************************************************************)
(* Taking the stock ECUs off the bus and giving them back, message by      *)
(* message: disable_ecu, restore_ecu, confirm_ecu_restored, uds_request    *)
(* and observe_control_frame of src/node.cpp, paced by RecoveryRetry       *)
(* (include/ioniq5_ecan/recovery_retry.hpp).  EcanNode has the threads and *)
(* sees all this as a few steps; here is one thread, and requests, replies *)
(* and stock frames that are lost, late, negative or left over.            *)
(*                                                                         *)
(* Abstractions.  A positive reply carries the name of its request.  The   *)
(* ECUs (external) act on a request before the node's wait for it is over, *)
(* while the reply may come later; a diagnostic session expires only       *)
(* between attempts; a talking ECU is heard in every observation window;   *)
(* and the receive thread has delivered what was on the bus when a wait    *)
(* ends.  Shutdown is EcanNode's.                                          *)
(* Mutant... definitions are wrong variants that show a property can fail. *)
(***************************************************************************)
EXTENDS Integers, Sequences, SequencesExt

CONSTANTS
    FirstDelay,      \* back-off after the first failed attempt
    MaxDelay,        \* its cap
    MaxFailures,     \* where the count of failed attempts stops, once the cap is reached
    MaxFaults        \* bound on lost, late and negative messages, disconnects, failed checks

ASSUME DelayAssumption ==
    /\ FirstDelay \in Nat \ {0} /\ MaxDelay \in Nat /\ FirstDelay <= MaxDelay
    /\ MaxFailures \in Nat \ {0} /\ FirstDelay * 2^(MaxFailures - 1) >= MaxDelay
    /\ MaxFaults \in Nat

ECUs == {"camera", "radar"}

\* 10 03, 28 83, 28 00 and 10 01.
Requests == {"extended", "silence", "talk", "default"}
Replies == {"extended", "talk", "default", "negative"}

Job(name, e) == [name |-> name, ecu |-> e]
Jobs == [name : {"disable", "restore", "confirm", "standby"}, ecu : ECUs]
Takeover == <<Job("disable", "camera"), Job("disable", "radar")>>
\* enter_no_output_mode restores both before it confirms either.
Recovery == <<Job("restore", "radar"), Job("restore", "camera"),
              Job("confirm", "radar"), Job("confirm", "camera"), Job("standby", "camera")>>

VARIABLES
    ecu,          \* what each ECU is doing
    requests,     \* requests on their way to each ECU
    replies,      \* replies each ECU has yet to send
    incoming,     \* frames between the bus and observe_control_frame
    linked,       \* PandaUsb::connected
    uds,          \* uds_waiting_, uds_response_address_ and uds_response_
    task,         \* the control thread: remaining jobs, position in the first, errors
    disabled,     \* camera_disabled_, radar_disabled_
    driving,      \* vehicle_safety_mode_
    retry,        \* recovery_retry_; wait is next_attempt_ minus the time
    since,        \* history: time since the last failed attempt
    faults        \* bound: faults left

vars == <<ecu, requests, replies, incoming, linked, uds, task, disabled, driving, retry,
          since, faults>>
bus == <<ecu, requests, replies, incoming>>

NoReply == "none"
NoUds == [waiting |-> FALSE, from |-> "none", response |-> NoReply]
Idle == [todo |-> <<>>, at |-> "start", step |-> 1, error |-> FALSE, heard |-> FALSE]

TypeOK ==
    /\ ecu \in [ECUs -> [session : {"default", "extended"}, silenced : BOOLEAN]]
    /\ requests \in [ECUs -> Seq(Requests)]
    /\ replies \in [ECUs -> Seq(Replies)]
    /\ incoming \in Seq([from : ECUs, what : Replies \cup {"stock"}])
    /\ linked \in BOOLEAN /\ driving \in BOOLEAN
    /\ uds \in [waiting : BOOLEAN, from : ECUs \cup {"none"}, response : Replies \cup {NoReply}]
    /\ uds.waiting => uds.response = NoReply
    /\ task \in [todo : Seq(Jobs), at : {"start", "request", "await", "silence", "settle", "watch"},
                 step : 1..3, error : BOOLEAN, heard : BOOLEAN]
    /\ disabled \subseteq ECUs
    /\ retry \in [pending : BOOLEAN, failures : 0..MaxFailures, delay : 1..MaxDelay, wait : 0..MaxDelay]
    /\ since \in 0..MaxDelay
    /\ faults \in 0..MaxFaults

Init ==
    /\ ecu = [e \in ECUs |-> [session |-> "default", silenced |-> FALSE]]
    /\ requests = [e \in ECUs |-> <<>>]
    /\ replies = [e \in ECUs |-> <<>>]
    /\ incoming = <<>>
    /\ linked = TRUE
    /\ uds = NoUds
    /\ task = Idle
    /\ disabled = {}
    /\ driving = FALSE
    /\ retry = [pending |-> FALSE, failures |-> 0, delay |-> FirstDelay, wait |-> 0]
    /\ since = 0
    /\ faults = MaxFaults

Spend == faults > 0 /\ faults' = faults - 1

-----------------------------------------------------------------------------
(* RecoveryRetry *)

MutantRequested == [pending |-> TRUE, failures |-> retry.failures, delay |-> FirstDelay, wait |-> 0]

\* request(): nothing while a schedule is pending.
Requested ==
    IF retry.pending THEN retry
    ELSE [pending |-> TRUE, failures |-> 0, delay |-> FirstDelay, wait |-> 0]

Counted(n) == IF n < MaxFailures THEN n + 1 ELSE n

MutantFailed(r) == [r EXCEPT !.failures = Counted(@), !.wait = r.delay, !.delay = r.delay + r.delay]

\* failed(): the delay doubles up to its cap, without the sum exceeding it.
Failed(r) ==
    [r EXCEPT !.failures = Counted(@), !.wait = r.delay,
              !.delay = IF r.delay >= MaxDelay - r.delay THEN MaxDelay ELSE r.delay + r.delay]

-----------------------------------------------------------------------------
(* The jobs of the control thread *)

Busy == task.todo # <<>>
Name == Head(task.todo).name
Ecu == Head(task.todo).ecu
At(name, at) == Busy /\ Name = name /\ task.at = at

MutantSteps == IF Name = "disable" THEN <<"extended">> ELSE <<"talk", "default">>

\* The requests that wait for a reply.  A restore re-enters the session, which may have expired.
Steps == IF Name = "disable" THEN <<"extended">> ELSE <<"extended", "talk", "default">>

NextJob(failed) ==
    [Idle EXCEPT !.todo = Tail(task.todo), !.error = task.error \/ failed]

\* An exception: a takeover is over and recovery is requested, a recovery goes on with its next job.
Throws ==
    IF Name = "disable" THEN task' = Idle /\ retry' = Requested
    ELSE task' = NextJob(TRUE) /\ UNCHANGED retry

\* The takeover preconditions, in particular that no recovery is pending.
BeginTakeover ==
    /\ ~Busy /\ ~driving /\ ~retry.pending /\ linked
    /\ task' = [Idle EXCEPT !.todo = Takeover]
    /\ UNCHANGED <<bus, linked, uds, disabled, driving, retry, since, faults>>

\* The node gives up driving: an internal disarm.
RequestRecovery ==
    /\ driving
    /\ driving' = FALSE
    /\ retry' = Requested
    /\ UNCHANGED <<bus, linked, uds, task, disabled, since, faults>>

\* retry_no_output_recovery when it is due, and the beginning of enter_no_output_mode.
BeginRecovery ==
    /\ ~Busy /\ retry.pending /\ linked
    /\ retry' = Requested /\ retry'.wait = 0
    /\ task' = [Idle EXCEPT !.todo = Recovery]
    /\ UNCHANGED <<bus, linked, uds, disabled, driving, since, faults>>

\* The early returns of the jobs, and the observation that precedes a repeated restore.  That of
\* disable_ecu is never taken: no flag is set when no recovery is pending.
StartJob ==
    /\ Busy /\ Name # "standby" /\ task.at = "start"
    /\ task' = CASE Name = "disable" -> [task EXCEPT !.at = "request"]
                 [] Name # "disable" /\ Ecu \notin disabled -> NextJob(FALSE)
                 [] Name = "restore" /\ Ecu \in disabled ->
                       [task EXCEPT !.at = IF retry.failures = 0 THEN "request" ELSE "watch"]
                 [] Name = "confirm" /\ Ecu \in disabled -> [task EXCEPT !.at = "watch"]
    /\ UNCHANGED <<bus, linked, uds, disabled, driving, retry, since, faults>>

OnTheWire(request) == requests' = [requests EXCEPT ![Ecu] = Append(@, request)]

SendRequest ==
    /\ Busy /\ task.at = "request"
    /\ IF linked
       THEN /\ OnTheWire(Steps[task.step])
            /\ uds' = [waiting |-> TRUE, from |-> Ecu, response |-> NoReply]
            /\ task' = [task EXCEPT !.at = "await"]
            /\ UNCHANGED retry
       ELSE Throws /\ UNCHANGED <<requests, uds>>
    /\ UNCHANGED <<ecu, replies, incoming, linked, disabled, driving, since, faults>>

LastStep == task.step = Len(Steps)

\* A reply of the right ECU has completed the wait, whichever request it answers.
Answered ==
    /\ Busy /\ task.at = "await" /\ ~uds.waiting
    /\ IF uds.response # Steps[task.step] THEN Throws
       ELSE /\ task' = IF ~LastStep THEN [task EXCEPT !.at = "request", !.step = @ + 1]
                       ELSE IF Name = "disable" THEN [task EXCEPT !.at = "silence"]
                       ELSE NextJob(FALSE)
            /\ UNCHANGED retry
    /\ uds' = NoUds
    /\ UNCHANGED <<bus, linked, disabled, driving, since, faults>>

\* Camera communication control also silences SCC on this vehicle.
Talking(e) == ~ecu[e].silenced /\ ~ecu["camera"].silenced

\* Nothing is left over on the way to the host when a wait ends.
Delivered == \A k \in DOMAIN incoming : incoming[k].what = "stock" /\ Talking(incoming[k].from)

\* The wait ends without a reply: none is coming, it is late, or the link is gone.
TimesOut ==
    /\ Busy /\ task.at = "await" /\ uds.waiting
    /\ IF ~linked THEN UNCHANGED faults
       ELSE /\ requests[Ecu] = <<>> /\ Delivered
            /\ IF replies[Ecu] = <<>> THEN UNCHANGED faults ELSE Spend
    /\ Throws
    /\ uds' = NoUds
    /\ UNCHANGED <<bus, linked, disabled, driving, since>>

MutantSendSilence ==
    /\ At("disable", "silence")
    /\ IF linked
       THEN OnTheWire("silence") /\ task' = [task EXCEPT !.at = "settle"] /\ UNCHANGED retry
       ELSE Throws /\ UNCHANGED requests
    /\ UNCHANGED <<ecu, replies, incoming, linked, uds, disabled, driving, since, faults>>

\* Communication control with a suppressed reply, then the flag.
SendSilence ==
    /\ At("disable", "silence")
    /\ IF linked
       THEN /\ OnTheWire("silence")
            /\ disabled' = disabled \cup {Ecu}
            /\ task' = [task EXCEPT !.at = "settle"]
            /\ UNCHANGED retry
       ELSE Throws /\ UNCHANGED <<requests, disabled>>
    /\ UNCHANGED <<ecu, replies, incoming, linked, uds, driving, since, faults>>

\* kEcuQuietSettle
Settle ==
    /\ At("disable", "settle") /\ requests[Ecu] = <<>> /\ Delivered
    /\ task' = [task EXCEPT !.at = "watch"]
    /\ UNCHANGED <<bus, linked, uds, disabled, driving, retry, since, faults>>

\* A stock frame was counted in the window: a takeover fails, an ECU is known to be back.
WatchHears ==
    /\ Busy /\ task.at = "watch" /\ task.heard
    /\ IF Name = "disable" THEN Throws /\ UNCHANGED disabled
       ELSE /\ disabled' = disabled \ {Ecu}
            /\ task' = NextJob(FALSE)
            /\ UNCHANGED retry
    /\ UNCHANGED <<bus, linked, uds, driving, since, faults>>

\* The window ends in silence.  Without the link a takeover fails on its tester present.
WatchEnds ==
    /\ Busy /\ task.at = "watch" /\ ~task.heard
    /\ Delivered /\ (linked => ~Talking(Ecu))
    /\ CASE Name = "disable" /\ ~linked -> Throws /\ UNCHANGED driving
         [] Name = "disable" /\ linked ->
               /\ task' = NextJob(FALSE)
               /\ driving' = (Tail(task.todo) = <<>>)
               /\ UNCHANGED retry
         [] Name = "restore" ->
               task' = [task EXCEPT !.at = "request"] /\ UNCHANGED <<retry, driving>>
         [] Name = "confirm" -> task' = NextJob(TRUE) /\ UNCHANGED <<retry, driving>>
    /\ UNCHANGED <<bus, linked, uds, disabled, since, faults>>

\* NO_OUTPUT and its confirmation; then the attempt has succeeded or failed as a whole.
FinishRecovery ==
    /\ At("standby", "start")
    /\ \E confirmed \in BOOLEAN :
          /\ IF confirmed THEN linked /\ UNCHANGED faults
             ELSE IF linked THEN Spend ELSE UNCHANGED faults
          /\ IF confirmed /\ ~task.error
             THEN retry' = [retry EXCEPT !.pending = FALSE] /\ UNCHANGED since
             ELSE retry' = Failed(retry) /\ since' = 0
    /\ task' = Idle
    /\ UNCHANGED <<bus, linked, uds, disabled, driving>>

-----------------------------------------------------------------------------
(* observe_control_frame, in the receive thread *)

\* Only the address of a reply is compared with what is waited for.
Observed(frame) ==
    uds' = IF frame.what = "stock" \/ ~uds.waiting \/ frame.from # uds.from THEN uds
           ELSE [uds EXCEPT !.waiting = FALSE, !.response = frame.what]

Deliver ==
    /\ linked /\ incoming # <<>>
    /\ incoming' = Tail(incoming)
    /\ Observed(Head(incoming))
    /\ task' = [task EXCEPT !.heard =
                   @ \/ (/\ Busy /\ task.at = "watch"
                         /\ Head(incoming) = [from |-> Ecu, what |-> "stock"])]
    /\ UNCHANGED <<ecu, requests, replies, linked, disabled, driving, retry, since, faults>>

-----------------------------------------------------------------------------
(* The ECUs, the bus, the link and time (external) *)

\* What an ECU does with a request, and what it answers.
Allowed(e, r) == r \in {"extended", "default"} \/ ecu[e].session = "extended"
Does(e, r) ==
    IF ~Allowed(e, r) THEN ecu[e]
    ELSE [session |-> IF r = "default" THEN "default" ELSE "extended",
          silenced |-> r = "silence" \/ (r = "extended" /\ ecu[e].silenced)]
Answers(e, r) ==
    IF ~Allowed(e, r) THEN <<"negative">> ELSE IF r = "silence" THEN <<>> ELSE <<r>>

\* It may also refuse, or answer "response pending" first.
Process(e) ==
    /\ requests[e] # <<>>
    /\ LET r == Head(requests[e])
       IN  \/ /\ ecu' = [ecu EXCEPT ![e] = Does(e, r)]
              /\ replies' = [replies EXCEPT ![e] = @ \o Answers(e, r)]
              /\ UNCHANGED faults
           \/ /\ Spend
              /\ ecu' = [ecu EXCEPT ![e] = Does(e, r)]
              /\ replies' = [replies EXCEPT ![e] = Append(@, "negative") \o Answers(e, r)]
           \/ /\ Spend
              /\ replies' = [replies EXCEPT ![e] = Append(@, "negative")]
              /\ UNCHANGED ecu
    /\ requests' = [requests EXCEPT ![e] = Tail(@)]
    /\ UNCHANGED <<incoming, linked, uds, task, disabled, driving, retry, since>>

LoseRequest(e) ==
    /\ requests[e] # <<>> /\ Spend
    /\ requests' = [requests EXCEPT ![e] = Tail(@)]
    /\ UNCHANGED <<ecu, replies, incoming, linked, uds, task, disabled, driving, retry, since>>

Reply(e) ==
    /\ replies[e] # <<>>
    /\ replies' = [replies EXCEPT ![e] = Tail(@)]
    /\ \/ /\ incoming' = IF linked THEN Append(incoming, [from |-> e, what |-> Head(replies[e])])
                         ELSE incoming
          /\ UNCHANGED faults
       \/ Spend /\ UNCHANGED incoming
    /\ UNCHANGED <<ecu, requests, linked, uds, task, disabled, driving, retry, since>>

\* One frame of each ECU on its way is enough to tell that it talks, while someone may count it.
StockFrame(e) ==
    LET frame == [from |-> e, what |-> "stock"]
    IN  /\ linked /\ Talking(e) /\ ~Contains(incoming, frame)
        /\ Busy /\ task.at \in {"settle", "watch"}
        /\ incoming' = Append(incoming, frame)
        /\ UNCHANGED <<ecu, requests, replies, linked, uds, task, disabled, driving, retry,
                       since, faults>>

\* A session that nobody keeps alive; communication control may or may not end with it.
Expire(e) ==
    /\ ~Busy /\ ~driving /\ ecu[e].session = "extended" /\ requests[e] = <<>>
    /\ \E silenced \in {ecu[e].silenced, FALSE} :
          ecu' = [ecu EXCEPT ![e] = [session |-> "default", silenced |-> silenced]]
    /\ UNCHANGED <<requests, replies, incoming, linked, uds, task, disabled, driving, retry,
                   since, faults>>

Unplug ==
    /\ linked /\ Spend
    /\ linked' = FALSE /\ incoming' = <<>>
    /\ driving' = FALSE
    /\ retry' = IF Busy THEN retry ELSE Requested
    /\ UNCHANGED <<ecu, requests, replies, uds, task, disabled, since>>

\* Reconnecting and waiting take a second or more.
Processed == \A e \in ECUs : requests[e] = <<>>

Replug ==
    /\ ~linked /\ Processed
    /\ linked' = TRUE
    /\ UNCHANGED <<bus, uds, task, disabled, driving, retry, since, faults>>

Tick ==
    /\ ~Busy /\ retry.pending /\ retry.wait > 0 /\ Processed
    /\ retry' = [retry EXCEPT !.wait = @ - 1]
    /\ since' = IF since < MaxDelay THEN since + 1 ELSE since
    /\ UNCHANGED <<bus, linked, uds, task, disabled, driving, faults>>

-----------------------------------------------------------------------------
Working ==
    \/ BeginRecovery \/ StartJob \/ SendRequest \/ Answered \/ TimesOut \/ SendSilence \/ Settle
    \/ WatchHears \/ WatchEnds \/ FinishRecovery

External(e) == Process(e) \/ Reply(e)

Next ==
    \/ BeginTakeover \/ RequestRecovery
    \/ Working
    \/ Deliver
    \/ \E e \in ECUs : External(e) \/ LoseRequest(e) \/ StockFrame(e) \/ Expire(e)
    \/ Unplug \/ Replug \/ Tick

Spec == Init /\ [][Next]_vars

\* The threads run, ECUs answer and talk, a cable comes back, time passes; faults are finite.
FairSpec ==
    /\ Spec
    /\ WF_vars(Working) /\ WF_vars(Deliver) /\ WF_vars(Replug) /\ WF_vars(Tick)
    /\ \A e \in ECUs : WF_vars(External(e)) /\ WF_vars(StockFrame(e))

-----------------------------------------------------------------------------
(* Properties *)

\* "Keep each disabled flag until new checksum-valid stock frames are observed": lost, late,
\* negative and left-over replies cannot make the node forget an ECU that is still silent, nor
\* make it drive while one still talks.
Ownership == INSTANCE EcuOwnership WITH heard <- {e \in ECUs : Talking(e)}
KeepsOwnership == Ownership!Spec

\* The retry after the n-th failure comes no sooner than 1, 2, 4 ... seconds after it, up to the
\* cap, although every control period requests the recovery again.
AttemptsAreSpaced ==
    [][~Busy /\ task'.todo = Recovery /\ retry.failures > 0 =>
          LET doubled == FirstDelay * 2^(retry.failures - 1)
          IN  since >= IF doubled < MaxDelay THEN doubled ELSE MaxDelay]_vars

\* A pending recovery ends with the ECUs given back: expired sessions and replies to requests
\* that were given up do not fail one attempt after the other for ever.
RecoveryEnds == retry.pending ~> ~retry.pending /\ disabled = {}
=============================================================================
