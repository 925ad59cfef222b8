--------------------------- MODULE EcuRecoveryProofs ---------------------------
(***************************************************************************)
(* Proofs about taking the stock ECUs off the bus and giving them back:    *)
(* types, and that the message-level protocol implements EcuOwnership, for *)
(* every back-off and every number of lost, late and negative messages.    *)
(*                                                                         *)
(* The implementation needs to know where a request to silence an ECU may  *)
(* still be on its way (only in the settle time of that ECU), that a stock *)
(* frame which is still to be counted comes from an ECU that talks, and    *)
(* that a silent ECU has its flag.                                         *)
(***************************************************************************)
EXTENDS EcuRecovery, FiniteSetTheorems, SequenceTheorems, TLAPS

\* What is left of a takeover or of a recovery.
Plans ==
    {<<>>, Takeover, <<Job("disable", "radar")>>,
     Recovery,
     <<Job("restore", "camera"), Job("confirm", "radar"), Job("confirm", "camera"),
       Job("standby", "camera")>>,
     <<Job("confirm", "radar"), Job("confirm", "camera"), Job("standby", "camera")>>,
     <<Job("confirm", "camera"), Job("standby", "camera")>>,
     <<Job("standby", "camera")>>}

\* The control thread drives only without a job and without a recovery to come, and it is told
\* of stock frames only while it watches.
TaskInStep ==
    /\ task.todo \in Plans
    /\ Busy /\ Name = "disable" => task.step = 1 /\ ~retry.pending
    /\ Busy /\ Name = "standby" => task.at = "start"
    /\ task.heard => Busy /\ task.at = "watch"
    /\ driving => ~Busy /\ ~retry.pending

\* A silent ECU has its flag, and so has one that is about to fall silent.
SilentIsNoted ==
    /\ \A e \in ECUs : ecu[e].silenced => e \in disabled
    /\ Busy /\ Name = "disable" /\ task.at \in {"settle", "watch"} => Ecu \in disabled

\* Requests to be silent are on their way only in the settle time.  Nothing is on its way to the
\* camera while the radar is taken, nor to anyone while the node drives.
RequestsInStep ==
    /\ \A e \in ECUs : \A k \in DOMAIN requests[e] :
          requests[e][k] = "silence" => At("disable", "settle") /\ Ecu = e
    /\ At("disable", "watch") => requests[Ecu] = <<>>
    /\ Busy /\ Name = "disable" /\ Ecu = "radar" =>
          ecu["camera"].silenced /\ requests["camera"] = <<>>
    /\ driving => \A e \in ECUs : requests[e] = <<>>

\* Outside of the settle time a stock frame tells that its ECU talks, now and when it is counted.
FramesTellTheTruth ==
    /\ ~At("disable", "settle") =>
          \A k \in DOMAIN incoming : incoming[k].what = "stock" => Talking(incoming[k].from)
    /\ task.heard => Talking(Ecu)

Inductive == TypeOK /\ TaskInStep /\ SilentIsNoted /\ RequestsInStep /\ FramesTellTheTruth

-----------------------------------------------------------------------------
(* Data *)

EcuType == [session : {"default", "extended"}, silenced : BOOLEAN]
Frames == [from : ECUs, what : Replies \cup {"stock"}]
UdsType == [waiting : BOOLEAN, from : ECUs \cup {"none"}, response : Replies \cup {NoReply}]
TaskType ==
    [todo : Seq(Jobs), at : {"start", "request", "await", "silence", "settle", "watch"},
     step : 1..3, error : BOOLEAN, heard : BOOLEAN]
RetryType == [pending : BOOLEAN, failures : 0..MaxFailures, delay : 1..MaxDelay, wait : 0..MaxDelay]

\* The bounds, without the power of two.
LEMMA BoundFacts ==
    /\ FirstDelay \in Nat \ {0} /\ MaxDelay \in Nat /\ FirstDelay <= MaxDelay
    /\ MaxFailures \in Nat \ {0} /\ MaxFaults \in Nat
  BY DelayAssumption, Zenon

\* A new last element changes none of those before it.
LEMMA AppendFacts ==
    ASSUME NEW S, NEW s \in Seq(S), NEW x \in S
    PROVE  /\ Append(s, x) \in Seq(S)
           /\ \A k \in DOMAIN Append(s, x) :
                 Append(s, x)[k] = x \/ (k \in DOMAIN s /\ Append(s, x)[k] = s[k])
  OBVIOUS

\* What is behind the head was in the sequence before.
LEMMA TailFacts ==
    ASSUME NEW S, NEW s \in Seq(S), s # <<>>
    PROVE  /\ Tail(s) \in Seq(S) /\ Head(s) \in S
           /\ 1 \in DOMAIN s /\ Head(s) = s[1]
           /\ \A k \in DOMAIN Tail(s) : k + 1 \in DOMAIN s /\ Tail(s)[k] = s[k + 1]
  <1>1. /\ Head(s) \in S /\ Tail(s) \in Seq(S)
        /\ Len(Tail(s)) = Len(s) - 1
        /\ \A i \in 1 .. Len(Tail(s)) : Tail(s)[i] = s[i+1]
    BY HeadTailProperties
  <1>2. Len(s) \in Nat \ {0} /\ DOMAIN s = 1..Len(s) /\ DOMAIN Tail(s) = 1..Len(Tail(s))
    BY <1>1, EmptySeq, LenProperties
  <1>3. Head(s) = s[1]
    OBVIOUS
  <1>4. QED  BY <1>1, <1>2, <1>3

\* Plans are sequences of jobs, and what is left of one is one.
LEMMA PlanFacts ==
    ASSUME NEW plan \in Plans
    PROVE  /\ plan \in Seq(Jobs)
           /\ plan # <<>> =>
                 /\ Head(plan) \in Jobs /\ Tail(plan) \in Plans
                 /\ Head(plan).name = "disable" =>
                       \/ Head(plan).ecu = "camera" /\ Tail(plan) = <<Job("disable", "radar")>>
                       \/ Head(plan).ecu = "radar" /\ Tail(plan) = <<>>
                 /\ Head(plan).name # "disable" =>
                       Tail(plan) = <<>> \/ Head(Tail(plan)).name # "disable"
  <1> DEFINE dc == Job("disable", "camera")
             dr == Job("disable", "radar")
             rr == Job("restore", "radar")
             rc == Job("restore", "camera")
             cr == Job("confirm", "radar")
             cc == Job("confirm", "camera")
             sc == Job("standby", "camera")
             Good(q) ==
                 /\ q \in Seq(Jobs)
                 /\ q # <<>> =>
                       /\ Head(q) \in Jobs /\ Tail(q) \in Plans
                       /\ Head(q).name = "disable" =>
                             \/ Head(q).ecu = "camera" /\ Tail(q) = <<dr>>
                             \/ Head(q).ecu = "radar" /\ Tail(q) = <<>>
                       /\ Head(q).name # "disable" =>
                             Tail(q) = <<>> \/ Head(Tail(q)).name # "disable"
  <1>1. /\ {dc, dr, rr, rc, cr, cc, sc} \subseteq Jobs
        /\ dc.name = "disable" /\ dc.ecu = "camera" /\ dr.name = "disable" /\ dr.ecu = "radar"
        /\ \A j \in {rr, rc, cr, cc, sc} : j.name # "disable"
    BY DEF Job, Jobs, ECUs
  <1>2. Plans = {<<>>, <<dc, dr>>, <<dr>>, <<rr, rc, cr, cc, sc>>, <<rc, cr, cc, sc>>,
                 <<cr, cc, sc>>, <<cc, sc>>, <<sc>>}
    BY DEF Plans, Takeover, Recovery
  <1> HIDE DEF dc, dr, rr, rc, cr, cc, sc
  <1>3. Good(<<>>)
    OBVIOUS
  <1>4. Good(<<dc, dr>>) /\ Good(<<dr>>)
    BY <1>1, <1>2
  <1>5. Good(<<rr, rc, cr, cc, sc>>)
    BY <1>1, <1>2
  <1>6. Good(<<rc, cr, cc, sc>>)
    BY <1>1, <1>2
  <1>7. Good(<<cr, cc, sc>>)
    BY <1>1, <1>2
  <1>8. Good(<<cc, sc>>) /\ Good(<<sc>>)
    BY <1>1, <1>2
  <1> HIDE DEF Good
  <1>9. Good(plan)
    BY <1>2, <1>3, <1>4, <1>5, <1>6, <1>7, <1>8
  <1>10. QED  BY <1>9 DEF Good, dr

\* request() gives a schedule, and leaves a pending one.
LEMMA RequestedFacts ==
    ASSUME retry \in RetryType
    PROVE  Requested \in RetryType /\ Requested.pending /\ (retry.pending => Requested = retry)
  BY BoundFacts DEF Requested, RetryType

\* failed() keeps the count and the delay in their bounds.
LEMMA FailedFacts ==
    ASSUME retry \in RetryType
    PROVE  Failed(retry) \in RetryType /\ (Failed(retry).pending <=> retry.pending)
  <1>1. Counted(retry.failures) \in 0..MaxFailures
    BY BoundFacts DEF Counted, RetryType
  <1>2. (IF retry.delay >= MaxDelay - retry.delay THEN MaxDelay ELSE retry.delay + retry.delay)
            \in 1..MaxDelay
    BY BoundFacts DEF RetryType
  <1>3. retry.delay \in 0..MaxDelay
    BY BoundFacts DEF RetryType
  <1>4. QED  BY <1>1, <1>2, <1>3 DEF Failed, RetryType

\* No job at all is a task, too.
LEMMA IdleFacts ==
    /\ Idle \in TaskType /\ Idle.todo = <<>> /\ Idle.at = "start" /\ Idle.step = 1 /\ ~Idle.heard
    /\ <<>> \in Plans
  BY DEF Idle, TaskType, Plans

\* A plan begins with its first job, and the next job of a plan starts afresh.
Begun(plan, error) == [Idle EXCEPT !.todo = plan, !.error = error]
First(plan) == [Idle EXCEPT !.todo = plan]

\* Both are tasks that have not heard anything yet.
LEMMA BeginFacts ==
    ASSUME NEW plan \in Plans, NEW error \in BOOLEAN
    PROVE  /\ Begun(plan, error) \in TaskType /\ Begun(plan, error).todo = plan
           /\ Begun(plan, error).at = "start" /\ Begun(plan, error).step = 1
           /\ ~Begun(plan, error).heard
           /\ First(plan) \in TaskType /\ First(plan).todo = plan
           /\ First(plan).at = "start" /\ First(plan).step = 1 /\ ~First(plan).heard
  <1>1. plan \in Seq(Jobs)
    BY PlanFacts
  <1>2. QED  BY <1>1, IdleFacts DEF TaskType, Begun, First

\* What is left of a plan is a plan.
LEMMA NextJobFacts ==
    ASSUME task \in TaskType, task.todo \in Plans, Busy, NEW failed \in BOOLEAN
    PROVE  /\ NextJob(failed) \in TaskType
           /\ NextJob(failed).todo = Tail(task.todo) /\ NextJob(failed).todo \in Plans
           /\ NextJob(failed).at = "start" /\ NextJob(failed).step = 1 /\ ~NextJob(failed).heard
  <1> DEFINE rest == Tail(task.todo)
             error == task.error \/ failed
  <1>1. rest \in Plans
    BY PlanFacts DEF Busy
  <1>2. error \in BOOLEAN
    OBVIOUS
  <1>3. NextJob(failed) = Begun(rest, error)
    BY DEF NextJob, Begun
  <1> HIDE DEF rest, error
  <1>4. QED  BY <1>1, <1>2, <1>3, BeginFacts DEF rest

-----------------------------------------------------------------------------
(* Types *)

Typed ==
    /\ ecu \in [ECUs -> EcuType]
    /\ requests \in [ECUs -> Seq(Requests)]
    /\ replies \in [ECUs -> Seq(Replies)]
    /\ incoming \in Seq(Frames)
    /\ linked \in BOOLEAN /\ driving \in BOOLEAN
    /\ uds \in UdsType /\ (uds.waiting => uds.response = NoReply)
    /\ task \in TaskType
    /\ disabled \subseteq ECUs
    /\ retry \in RetryType
    /\ since \in 0..MaxDelay
    /\ faults \in 0..MaxFaults

\* TypeOK with its sets named.
LEMMA TypedIsTypeOK == Typed <=> TypeOK
  BY DEF Typed, TypeOK, EcuType, Frames, UdsType, TaskType, RetryType

\* A spent fault was left.
LEMMA SpendFacts ==
    ASSUME faults \in 0..MaxFaults, Spend \/ UNCHANGED faults
    PROVE  faults' \in 0..MaxFaults
  BY BoundFacts DEF Spend

\* The names of the current job are names.
LEMMA CurrentJob ==
    ASSUME task \in TaskType, task.todo \in Plans, Busy
    PROVE  /\ Ecu \in ECUs /\ Name \in {"disable", "restore", "confirm", "standby"}
           /\ Steps \in Seq(Requests)
           /\ Len(Steps) = IF Name = "disable" THEN 1 ELSE 3
           /\ \A k \in 1..Len(Steps) : Steps[k] \in Requests \ {"silence"}
  <1>1. Head(task.todo) \in Jobs
    BY PlanFacts DEF Busy
  <1>2. Ecu \in ECUs /\ Name \in {"disable", "restore", "confirm", "standby"}
    BY <1>1 DEF Jobs, Ecu, Name
  <1>3. CASE Name = "disable"
    <2>1. Steps = <<"extended">>
      BY <1>3 DEF Steps
    <2>2. QED  BY <1>2, <1>3, <2>1 DEF Requests
  <1>4. CASE Name # "disable"
    <2>1. Steps = <<"extended", "talk", "default">>
      BY <1>4 DEF Steps
    <2>2. QED  BY <1>2, <1>4, <2>1 DEF Requests
  <1>5. QED  BY <1>3, <1>4

\* A failed job leaves a task and a schedule.
LEMMA ThrowsFacts ==
    ASSUME task \in TaskType, task.todo \in Plans, Busy, retry \in RetryType, Throws
    PROVE  /\ task' \in TaskType /\ task'.todo \in Plans /\ retry' \in RetryType
           /\ task'.at = "start" /\ task'.step = 1 /\ ~task'.heard
           /\ Name = "disable" => task'.todo = <<>>
           /\ Name # "disable" => task'.todo = Tail(task.todo) /\ retry' = retry
  <1>1. CASE Name = "disable"
    <2>1. task' = Idle /\ retry' = Requested
      BY <1>1 DEF Throws
    <2>2. QED  BY <1>1, <2>1, IdleFacts, RequestedFacts
  <1>2. CASE Name # "disable"
    <2>1. task' = NextJob(TRUE) /\ retry' = retry
      BY <1>2 DEF Throws
    <2>2. QED  BY <1>2, <2>1, NextJobFacts
  <1>3. QED  BY <1>1, <1>2

\* The steps of the control thread keep the types.
LEMMA JobsKeepTypes ==
    ASSUME Typed, TaskInStep,
           \/ BeginTakeover \/ RequestRecovery \/ BeginRecovery \/ StartJob \/ SendRequest
           \/ Answered \/ TimesOut \/ SendSilence \/ Settle \/ WatchHears \/ WatchEnds
           \/ FinishRecovery
    PROVE  Typed'
  <1>1. CASE BeginTakeover
    <2>1. task' = First(Takeover) /\ Takeover \in Plans
      BY <1>1 DEF BeginTakeover, First, Plans
    <2>2. task' \in TaskType
      BY <2>1, BeginFacts
    <2>3. QED  BY <1>1, <2>2 DEF BeginTakeover, Typed, bus
  <1>2. CASE RequestRecovery
    <2>1. retry' \in RetryType
      BY <1>2, RequestedFacts DEF RequestRecovery, Typed
    <2>2. QED  BY <1>2, <2>1 DEF RequestRecovery, Typed, bus
  <1>3. CASE BeginRecovery
    <2>1. task' = First(Recovery) /\ Recovery \in Plans
      BY <1>3 DEF BeginRecovery, First, Plans
    <2>2. task' \in TaskType
      BY <2>1, BeginFacts
    <2>3. retry' \in RetryType
      BY <1>3, RequestedFacts DEF BeginRecovery, Typed
    <2>4. QED  BY <1>3, <2>2, <2>3 DEF BeginRecovery, Typed, bus
  <1>4. CASE StartJob
    <2>1. /\ Busy /\ task.todo \in Plans /\ task \in TaskType
      BY <1>4 DEF StartJob, TaskInStep, Typed
    <2>2. \/ task' \in {[task EXCEPT !.at = "request"], [task EXCEPT !.at = "watch"]}
          \/ task' = NextJob(FALSE)
      BY <1>4, <2>1, CurrentJob DEF StartJob
    <2>3. task' \in TaskType
      BY <2>1, <2>2, NextJobFacts DEF TaskType
    <2>4. QED  BY <1>4, <2>3 DEF StartJob, Typed, bus
  <1>5. CASE SendRequest
    <2>1. /\ Busy /\ task.todo \in Plans /\ task \in TaskType
          /\ Name = "disable" => task.step = 1
      BY <1>5 DEF SendRequest, TaskInStep, Typed
    <2>2. CASE linked
      <3>1. Steps[task.step] \in Requests /\ Ecu \in ECUs
        BY <2>1, CurrentJob DEF TaskType
      <3>2. /\ requests' = [requests EXCEPT ![Ecu] = Append(requests[Ecu], Steps[task.step])]
            /\ uds' = [waiting |-> TRUE, from |-> Ecu, response |-> NoReply]
            /\ task' = [task EXCEPT !.at = "await"] /\ retry' = retry
            /\ UNCHANGED <<ecu, replies, incoming, linked, disabled, driving, since, faults>>
        BY <1>5, <2>2 DEF SendRequest, OnTheWire
      <3>3. Append(requests[Ecu], Steps[task.step]) \in Seq(Requests)
        BY <3>1, AppendFacts DEF Typed
      <3>4. requests' \in [ECUs -> Seq(Requests)]
        BY <3>2, <3>3 DEF Typed
      <3>5. uds' \in UdsType /\ uds'.response = NoReply /\ task' \in TaskType
        BY <2>1, <3>1, <3>2 DEF UdsType, TaskType
      <3>6. QED  BY <3>2, <3>4, <3>5 DEF Typed
    <2>3. CASE ~linked
      <3>1. Throws /\ UNCHANGED <<requests, uds>>
            /\ UNCHANGED <<ecu, replies, incoming, linked, disabled, driving, since, faults>>
        BY <1>5, <2>3 DEF SendRequest
      <3>2. task' \in TaskType /\ retry' \in RetryType
        BY <2>1, <3>1, ThrowsFacts DEF Typed
      <3>3. QED  BY <3>1, <3>2 DEF Typed
    <2>4. QED  BY <2>2, <2>3
  <1>6. CASE Answered
    <2>1. /\ Busy /\ task.todo \in Plans /\ task \in TaskType /\ retry \in RetryType
          /\ Name = "disable" => task.step = 1
      BY <1>6 DEF Answered, TaskInStep, Typed
    <2>2. uds' \in UdsType /\ ~uds'.waiting
      BY <1>6 DEF Answered, NoUds, UdsType
    <2>3. task' \in TaskType /\ retry' \in RetryType
      <3>1. CASE Throws
        BY <2>1, <3>1, ThrowsFacts
      <3>2. CASE ~Throws /\ ~LastStep
        <4>1. task' = [task EXCEPT !.at = "request", !.step = task.step + 1] /\ retry' = retry
          BY <1>6, <3>2 DEF Answered
        <4>2. task.step + 1 \in 1..3
          BY <2>1, <3>2, CurrentJob DEF LastStep, TaskType
        <4>3. QED  BY <2>1, <4>1, <4>2 DEF TaskType
      <3>3. CASE ~Throws /\ LastStep
        <4>1. task' \in {[task EXCEPT !.at = "silence"], NextJob(FALSE)} /\ retry' = retry
          BY <1>6, <3>3 DEF Answered
        <4>2. QED  BY <2>1, <4>1, NextJobFacts DEF TaskType
      <3>4. QED  BY <3>1, <3>2, <3>3
    <2>4. QED  BY <1>6, <2>2, <2>3 DEF Answered, Typed, bus
  <1>7. CASE TimesOut
    <2>1. /\ Busy /\ task.todo \in Plans /\ task \in TaskType /\ retry \in RetryType
      BY <1>7 DEF TimesOut, TaskInStep, Typed
    <2>2. uds' \in UdsType /\ ~uds'.waiting
      BY <1>7 DEF TimesOut, NoUds, UdsType
    <2>3. task' \in TaskType /\ retry' \in RetryType
      BY <1>7, <2>1, ThrowsFacts DEF TimesOut
    <2>4. faults' \in 0..MaxFaults
      BY <1>7, SpendFacts DEF TimesOut, Typed
    <2>5. QED  BY <1>7, <2>2, <2>3, <2>4 DEF TimesOut, Typed, bus
  <1>8. CASE SendSilence
    <2>1. /\ Busy /\ task.todo \in Plans /\ task \in TaskType /\ Ecu \in ECUs
      BY <1>8, CurrentJob DEF SendSilence, At, TaskInStep, Typed
    <2>2. CASE linked
      <3>1. /\ requests' = [requests EXCEPT ![Ecu] = Append(requests[Ecu], "silence")]
            /\ disabled' = disabled \cup {Ecu}
            /\ task' = [task EXCEPT !.at = "settle"] /\ retry' = retry
            /\ UNCHANGED <<ecu, replies, incoming, linked, uds, driving, since, faults>>
        BY <1>8, <2>2 DEF SendSilence, OnTheWire
      <3>2. Append(requests[Ecu], "silence") \in Seq(Requests)
        BY <2>1, AppendFacts DEF Typed, Requests
      <3>3. requests' \in [ECUs -> Seq(Requests)]
        BY <3>1, <3>2 DEF Typed
      <3>4. task' \in TaskType /\ disabled' \subseteq ECUs
        BY <2>1, <3>1 DEF Typed, TaskType
      <3>5. QED  BY <3>1, <3>3, <3>4 DEF Typed
    <2>3. CASE ~linked
      <3>1. /\ Throws /\ UNCHANGED <<requests, disabled>>
            /\ UNCHANGED <<ecu, replies, incoming, linked, uds, driving, since, faults>>
        BY <1>8, <2>3 DEF SendSilence
      <3>2. task' \in TaskType /\ retry' \in RetryType
        BY <2>1, <3>1, ThrowsFacts DEF Typed
      <3>3. QED  BY <3>1, <3>2 DEF Typed
    <2>4. QED  BY <2>2, <2>3
  <1>9. CASE Settle
    <2>1. task' \in TaskType
      BY <1>9 DEF Settle, Typed, TaskType
    <2>2. QED  BY <1>9, <2>1 DEF Settle, Typed, bus
  <1>10. CASE WatchHears
    <2>1. /\ Busy /\ task.todo \in Plans /\ task \in TaskType /\ retry \in RetryType
      BY <1>10 DEF WatchHears, TaskInStep, Typed
    <2>2. \/ Throws /\ disabled' = disabled
          \/ task' = NextJob(FALSE) /\ retry' = retry /\ disabled' = disabled \ {Ecu}
      BY <1>10 DEF WatchHears
    <2>3. task' \in TaskType /\ retry' \in RetryType /\ disabled' \subseteq ECUs
      BY <2>1, <2>2, ThrowsFacts, NextJobFacts DEF Typed
    <2>4. QED  BY <1>10, <2>3 DEF WatchHears, Typed, bus
  <1>11. CASE WatchEnds
    <2>1. /\ Busy /\ task.todo \in Plans /\ task \in TaskType /\ retry \in RetryType
          /\ Name \in {"disable", "restore", "confirm"}
      BY <1>11, CurrentJob DEF WatchEnds, TaskInStep, Typed
    <2>2. \/ Throws /\ driving' = driving
          \/ /\ task' = NextJob(FALSE) /\ retry' = retry
             /\ driving' = (Tail(task.todo) = <<>>)
          \/ task' = [task EXCEPT !.at = "request"] /\ retry' = retry /\ driving' = driving
          \/ task' = NextJob(TRUE) /\ retry' = retry /\ driving' = driving
      BY <1>11, <2>1 DEF WatchEnds
    <2>3. task' \in TaskType /\ retry' \in RetryType /\ driving' \in BOOLEAN
      <3>1. CASE Throws /\ driving' = driving
        BY <2>1, <3>1, ThrowsFacts DEF Typed
      <3>2. CASE task' = NextJob(FALSE) /\ retry' = retry /\ driving' = (Tail(task.todo) = <<>>)
        BY <2>1, <3>2, NextJobFacts
      <3>3. CASE task' = [task EXCEPT !.at = "request"] /\ retry' = retry /\ driving' = driving
        BY <2>1, <3>3 DEF TaskType, Typed
      <3>4. CASE task' = NextJob(TRUE) /\ retry' = retry /\ driving' = driving
        BY <2>1, <3>4, NextJobFacts DEF Typed
      <3>5. QED  BY <2>2, <3>1, <3>2, <3>3, <3>4
    <2>4. QED  BY <1>11, <2>3 DEF WatchEnds, Typed, bus
  <1>12. CASE FinishRecovery
    <2>1. faults' \in 0..MaxFaults
      BY <1>12, SpendFacts DEF FinishRecovery, Typed
    <2>2. retry' \in RetryType /\ since' \in 0..MaxDelay
      <3>1. \/ retry' = [retry EXCEPT !.pending = FALSE] /\ since' = since
            \/ retry' = Failed(retry) /\ since' = 0
        BY <1>12 DEF FinishRecovery
      <3>2. /\ retry \in RetryType /\ since \in 0..MaxDelay
            /\ 0 \in 0..MaxDelay
        BY BoundFacts DEF Typed
      <3>3. [retry EXCEPT !.pending = FALSE] \in RetryType
        BY <3>2 DEF RetryType
      <3>4. Failed(retry) \in RetryType
        BY <3>2, FailedFacts
      <3>5. QED  BY <3>1, <3>2, <3>3, <3>4, Zenon
    <2>3. task' \in TaskType
      BY <1>12, IdleFacts DEF FinishRecovery
    <2>4. QED  BY <1>12, <2>1, <2>2, <2>3 DEF FinishRecovery, Typed, bus
  <1>13. QED
    BY <1>1, <1>2, <1>3, <1>4, <1>5, <1>6, <1>7, <1>8, <1>9, <1>10, <1>11, <1>12

\* So do those of the receive thread, the ECUs, the link and time.
LEMMA OthersKeepTypes ==
    ASSUME Typed, TaskInStep,
           \/ Deliver \/ Unplug \/ Replug \/ Tick
           \/ \E e \in ECUs : Process(e) \/ LoseRequest(e) \/ Reply(e) \/ StockFrame(e) \/ Expire(e)
    PROVE  Typed'
  <1>1. CASE Deliver
    <2>1. Head(incoming) \in Frames /\ incoming' \in Seq(Frames)
      BY <1>1, TailFacts DEF Deliver, Typed
    <2>2. uds' \in UdsType /\ (uds'.waiting => uds'.response = NoReply)
      <3> DEFINE frame == Head(incoming)
      <3>1. \/ uds' = uds
            \/ frame.what # "stock" /\ uds' = [uds EXCEPT !.waiting = FALSE, !.response = frame.what]
        BY <1>1 DEF Deliver, Observed
      <3>2. frame.what \in Replies \cup {"stock"}
        BY <2>1 DEF Frames
      <3> HIDE DEF frame
      <3>3. QED  BY <3>1, <3>2 DEF Typed, UdsType
    <2>3. task' \in TaskType
      <3> DEFINE counts == /\ Busy /\ task.at = "watch"
                           /\ Head(incoming) = [from |-> Ecu, what |-> "stock"]
      <3>1. task' = [task EXCEPT !.heard = task.heard \/ counts] /\ counts \in BOOLEAN
        BY <1>1 DEF Deliver
      <3> HIDE DEF counts
      <3>2. QED  BY <3>1 DEF Typed, TaskType
    <2>4. QED  BY <1>1, <2>1, <2>2, <2>3 DEF Deliver, Typed
  <1>2. CASE Unplug
    <2>1. retry' \in RetryType /\ faults' \in 0..MaxFaults /\ incoming' \in Seq(Frames)
      BY <1>2, RequestedFacts, SpendFacts DEF Unplug, Typed
    <2>2. QED  BY <1>2, <2>1 DEF Unplug, Typed
  <1>3. CASE Replug
    BY <1>3 DEF Replug, Typed, bus
  <1>4. CASE Tick
    <2>1. retry' \in RetryType
      BY <1>4, BoundFacts DEF Tick, Typed, RetryType
    <2>2. since' \in 0..MaxDelay
      BY <1>4, BoundFacts DEF Tick, Typed
    <2>3. QED  BY <1>4, <2>1, <2>2 DEF Tick, Typed, bus
  <1>5. ASSUME NEW e \in ECUs, Process(e)
        PROVE  Typed'
    <2>1. /\ Head(requests[e]) \in Requests /\ Tail(requests[e]) \in Seq(Requests)
          /\ replies[e] \in Seq(Replies)
      BY <1>5, TailFacts DEF Process, Typed
    <2> DEFINE answers == Answers(e, Head(requests[e]))
               does == Does(e, Head(requests[e]))
               refused == Append(replies[e], "negative")
    <2>2. does \in EcuType
      BY <2>1 DEF Does, EcuType, Typed
    <2>3. answers \in Seq(Replies)
      <3>1. CASE ~Allowed(e, Head(requests[e]))
        BY <3>1 DEF Answers, Replies
      <3>2. CASE Allowed(e, Head(requests[e])) /\ Head(requests[e]) = "silence"
        BY <3>2 DEF Answers
      <3>3. CASE Allowed(e, Head(requests[e])) /\ Head(requests[e]) # "silence"
        <4>1. Head(requests[e]) \in Replies
          BY <2>1, <3>3 DEF Replies, Requests
        <4>2. QED  BY <3>3, <4>1 DEF Answers
      <3>4. QED  BY <3>1, <3>2, <3>3
    <2>4. refused \in Seq(Replies)
      BY <2>1, AppendFacts DEF Replies
    <2>5. \/ /\ ecu' = [ecu EXCEPT ![e] = does]
             /\ replies' = [replies EXCEPT ![e] = replies[e] \o answers]
          \/ /\ ecu' = [ecu EXCEPT ![e] = does]
             /\ replies' = [replies EXCEPT ![e] = refused \o answers]
          \/ /\ ecu' = ecu
             /\ replies' = [replies EXCEPT ![e] = refused]
      BY <1>5 DEF Process
    <2>6. faults' \in 0..MaxFaults
      BY <1>5, SpendFacts DEF Process, Typed
    <2>7. requests' = [requests EXCEPT ![e] = Tail(requests[e])]
      BY <1>5 DEF Process
    <2> HIDE DEF answers, does, refused
    <2>8. replies[e] \o answers \in Seq(Replies) /\ refused \o answers \in Seq(Replies)
      BY <2>1, <2>3, <2>4, ConcatProperties
    <2>9. ecu' \in [ECUs -> EcuType] /\ replies' \in [ECUs -> Seq(Replies)]
      BY <2>2, <2>4, <2>5, <2>8 DEF Typed
    <2>10. requests' \in [ECUs -> Seq(Requests)]
      BY <2>1, <2>7 DEF Typed
    <2>11. QED  BY <1>5, <2>6, <2>9, <2>10 DEF Process, Typed
  <1>6. ASSUME NEW e \in ECUs, LoseRequest(e)
        PROVE  Typed'
    <2>1. Tail(requests[e]) \in Seq(Requests)
      BY <1>6, TailFacts DEF LoseRequest, Typed
    <2>2. requests' = [requests EXCEPT ![e] = Tail(requests[e])]
      BY <1>6 DEF LoseRequest
    <2>3. requests' \in [ECUs -> Seq(Requests)]
      BY <2>1, <2>2 DEF Typed
    <2>4. faults' \in 0..MaxFaults
      BY <1>6, SpendFacts DEF LoseRequest, Typed
    <2>5. QED  BY <1>6, <2>3, <2>4 DEF LoseRequest, Typed
  <1>7. ASSUME NEW e \in ECUs, Reply(e)
        PROVE  Typed'
    <2>1. Tail(replies[e]) \in Seq(Replies) /\ Head(replies[e]) \in Replies
      BY <1>7, TailFacts DEF Reply, Typed
    <2>2. replies' = [replies EXCEPT ![e] = Tail(replies[e])]
      BY <1>7 DEF Reply
    <2>3. replies' \in [ECUs -> Seq(Replies)]
      BY <2>1, <2>2 DEF Typed
    <2>4. [from |-> e, what |-> Head(replies[e])] \in Frames
      BY <2>1 DEF Frames
    <2>5. incoming' \in Seq(Frames)
      <3>1. \/ incoming' = incoming
            \/ incoming' = Append(incoming, [from |-> e, what |-> Head(replies[e])])
        BY <1>7 DEF Reply
      <3>2. incoming \in Seq(Frames)
        BY DEF Typed
      <3>3. QED  BY <2>4, <3>1, <3>2, AppendFacts
    <2>6. faults' \in 0..MaxFaults
      BY <1>7, SpendFacts DEF Reply, Typed
    <2>7. QED  BY <1>7, <2>3, <2>5, <2>6 DEF Reply, Typed
  <1>8. ASSUME NEW e \in ECUs, StockFrame(e)
        PROVE  Typed'
    <2>1. [from |-> e, what |-> "stock"] \in Frames
      BY DEF Frames
    <2>2. incoming' \in Seq(Frames)
      BY <1>8, <2>1, AppendFacts DEF StockFrame, Typed
    <2>3. QED  BY <1>8, <2>2 DEF StockFrame, Typed
  <1>9. ASSUME NEW e \in ECUs, Expire(e)
        PROVE  Typed'
    <2>1. PICK silenced \in {ecu[e].silenced, FALSE} :
              ecu' = [ecu EXCEPT ![e] = [session |-> "default", silenced |-> silenced]]
      BY <1>9 DEF Expire
    <2>2. [session |-> "default", silenced |-> silenced] \in EcuType
      BY <2>1 DEF EcuType, Typed
    <2>3. ecu' \in [ECUs -> EcuType]
      BY <2>1, <2>2 DEF Typed
    <2>4. QED  BY <1>9, <2>3 DEF Expire, Typed
  <1>10. QED  BY <1>1, <1>2, <1>3, <1>4, <1>5, <1>6, <1>7, <1>8, <1>9

-----------------------------------------------------------------------------
(* The invariant, by the kinds of steps *)

\* A step after which the control thread is at the start of a job: what it must leave behind.
LEMMA NewJob ==
    ASSUME Inductive, TypeOK', ~At("disable", "settle"),
           UNCHANGED <<ecu, requests, incoming>>,
           task'.todo \in Plans, task'.at = "start", task'.step = 1, ~task'.heard,
           \A e \in ECUs : ecu[e].silenced => e \in disabled',
           Busy' /\ Name' = "disable" => ~retry'.pending,
           Busy' /\ Name' = "disable" /\ Ecu' = "radar" =>
               ecu["camera"].silenced /\ requests["camera"] = <<>>,
           driving' => /\ task'.todo = <<>> /\ ~retry'.pending
                       /\ \A e \in ECUs : requests[e] = <<>>
    PROVE  Inductive'
  <1>1. TaskInStep'
    BY DEF TaskInStep, Busy
  <1>2. SilentIsNoted'
    BY DEF SilentIsNoted
  <1>3. RequestsInStep'
    <2>1. ~At("disable", "watch")' /\ \A e \in ECUs : requests'[e] = requests[e]
      BY DEF At
    <2>2. \A e \in ECUs : \A k \in DOMAIN requests[e] : requests[e][k] # "silence"
      BY DEF Inductive, RequestsInStep
    <2>3. QED  BY <2>1, <2>2 DEF RequestsInStep
  <1>4. FramesTellTheTruth'
    BY DEF Inductive, FramesTellTheTruth, Talking
  <1>5. QED  BY <1>1, <1>2, <1>3, <1>4 DEF Inductive

\* The end of a job of a recovery, or the end of all jobs.
LEMMA JobEnds ==
    ASSUME Inductive, TypeOK', Busy, ~At("disable", "settle"),
           UNCHANGED <<ecu, requests, incoming, driving>>,
           task'.todo \in Plans, task'.at = "start", task'.step = 1, ~task'.heard,
           \A e \in ECUs : ecu[e].silenced => e \in disabled',
           \/ task'.todo = <<>>
           \/ Name # "disable" /\ task'.todo = Tail(task.todo)
    PROVE  Inductive'
  <1>1. ~driving /\ task.todo \in Plans
    BY DEF Inductive, TaskInStep
  <1>2. ~(Busy' /\ Name' = "disable")
    <2>1. CASE task'.todo = <<>>
      BY <2>1 DEF Busy
    <2>2. CASE Name # "disable" /\ task'.todo = Tail(task.todo)
      BY <1>1, <2>2, PlanFacts DEF Busy, Name
    <2>3. QED  BY <2>1, <2>2
  <1>3. QED  BY <1>1, <1>2, NewJob

\* An exception ends a job.
LEMMA ThrowEnds ==
    ASSUME Inductive, TypeOK', Busy, ~At("disable", "settle"), Throws,
           UNCHANGED <<ecu, requests, incoming, disabled, driving>>
    PROVE  Inductive'
  <1>1. /\ task \in TaskType /\ task.todo \in Plans /\ retry \in RetryType
        /\ \A e \in ECUs : ecu[e].silenced => e \in disabled
    BY TypedIsTypeOK DEF Inductive, Typed, TaskInStep, SilentIsNoted
  <1>2. /\ task'.todo \in Plans /\ task'.at = "start" /\ task'.step = 1 /\ ~task'.heard
        /\ task'.todo = <<>> \/ (Name # "disable" /\ task'.todo = Tail(task.todo))
    BY <1>1, ThrowsFacts
  <1>3. QED  BY <1>1, <1>2, JobEnds

\* A step within a job that sends nothing and is not told anything.
LEMMA SameJob ==
    ASSUME Inductive, TypeOK', Busy, Name # "standby", ~At("disable", "settle"),
           UNCHANGED <<ecu, requests, incoming, disabled, driving, retry>>,
           task'.todo = task.todo, ~task'.heard, task'.at # "settle",
           Name = "disable" => task'.step = 1 /\ task'.at # "watch"
    PROVE  Inductive'
  <1>1. (Busy' <=> Busy) /\ Name' = Name /\ Ecu' = Ecu
    BY DEF Busy, Name, Ecu
  <1>2. TaskInStep'
    BY <1>1 DEF Inductive, TaskInStep
  <1>3. SilentIsNoted'
    BY <1>1 DEF Inductive, SilentIsNoted
  <1>4. RequestsInStep'
    <2>1. ~At("disable", "watch")' /\ \A e \in ECUs : requests'[e] = requests[e]
      BY <1>1 DEF At
    <2>2. \A e \in ECUs : \A k \in DOMAIN requests[e] : requests[e][k] # "silence"
      BY DEF Inductive, RequestsInStep
    <2>3. ~driving'
      BY DEF Inductive, TaskInStep
    <2>4. Busy' /\ Name' = "disable" /\ Ecu' = "radar" =>
              ecu'["camera"].silenced /\ requests'["camera"] = <<>>
      BY <1>1 DEF Inductive, RequestsInStep
    <2>5. QED  BY <2>1, <2>2, <2>3, <2>4 DEF RequestsInStep
  <1>5. FramesTellTheTruth'
    BY DEF Inductive, FramesTellTheTruth, Talking
  <1>6. QED  BY <1>2, <1>3, <1>4, <1>5 DEF Inductive

\* A step of the others that leaves the job alone.
LEMMA OutsideStep ==
    ASSUME Inductive, TypeOK', UNCHANGED <<task, disabled>>,
           driving' => driving /\ ~retry'.pending,
           Busy /\ Name = "disable" => ~retry'.pending,
           \A e \in ECUs : requests[e] = <<>> => requests'[e] = <<>>,
           \A e \in ECUs : \A k \in DOMAIN requests'[e] :
               requests'[e][k] = "silence" => At("disable", "settle") /\ Ecu = e,
           \A e \in ECUs : ecu'[e].silenced =>
               ecu[e].silenced \/ (At("disable", "settle") /\ Ecu = e),
           Busy /\ requests["camera"] = <<>> /\ ecu["camera"].silenced =>
               ecu'["camera"].silenced,
           \A k \in DOMAIN incoming' : incoming'[k].what = "stock" =>
               \/ \E e \in ECUs : incoming'[k].from = e /\ Talking(e)'
               \/ \E j \in DOMAIN incoming : incoming[j] = incoming'[k]
    PROVE  Inductive'
  <1>1. /\ (Busy' <=> Busy) /\ Name' = Name /\ Ecu' = Ecu
        /\ At("disable", "settle")' <=> At("disable", "settle")
        /\ At("disable", "watch")' <=> At("disable", "watch")
    BY DEF Busy, Name, Ecu, At
  <1>2. TaskInStep'
    BY <1>1 DEF Inductive, TaskInStep
  <1>3. SilentIsNoted'
    <2>1. At("disable", "settle") => Ecu \in disabled
      BY DEF Inductive, SilentIsNoted, At
    <2>2. \A e \in ECUs : ecu'[e].silenced => e \in disabled'
      BY <2>1 DEF Inductive, SilentIsNoted
    <2>3. QED  BY <1>1, <2>2 DEF Inductive, SilentIsNoted
  <1>4. RequestsInStep'
    <2>1. At("disable", "watch")' => Ecu \in ECUs /\ requests'[Ecu] = <<>>
      <3>1. ASSUME At("disable", "watch")
            PROVE  Ecu \in ECUs /\ requests[Ecu] = <<>>
        BY <3>1, CurrentJob, TypedIsTypeOK
           DEF At, Inductive, Typed, TaskInStep, RequestsInStep
      <3>2. QED  BY <1>1, <3>1
    <2>2. Busy' /\ Name' = "disable" /\ Ecu' = "radar" =>
              ecu'["camera"].silenced /\ requests'["camera"] = <<>>
      BY <1>1 DEF Inductive, RequestsInStep, ECUs
    <2>3. driving' => \A e \in ECUs : requests'[e] = <<>>
      BY DEF Inductive, RequestsInStep
    <2>4. QED  BY <1>1, <2>1, <2>2, <2>3 DEF RequestsInStep
  <1>5. FramesTellTheTruth'
    <2>1. ASSUME ~At("disable", "settle"), NEW e \in ECUs, Talking(e)
          PROVE  Talking(e)'
      BY <2>1 DEF Talking, ECUs
    <2>2. ASSUME ~At("disable", "settle")', NEW k \in DOMAIN incoming',
                 incoming'[k].what = "stock"
          PROVE  Talking(incoming[k].from)'
      <3>1. CASE \E e \in ECUs : incoming'[k].from = e /\ Talking(e)'
        BY <3>1 DEF Talking
      <3>2. CASE \E j \in DOMAIN incoming : incoming[j] = incoming'[k]
        <4>1. PICK j \in DOMAIN incoming : incoming[j] = incoming'[k]
          BY <3>2
        <4>2. PICK e \in ECUs : incoming[j].from = e /\ Talking(e)
          <5>1. incoming \in Seq(Frames)
            BY TypedIsTypeOK DEF Inductive, Typed
          <5>2. incoming[j] \in Frames
            BY <4>1, <5>1
          <5>3. QED
            BY <1>1, <2>2, <4>1, <5>2 DEF Inductive, FramesTellTheTruth, Frames
        <4>3. Talking(e)'
          BY <1>1, <2>1, <2>2, <4>2
        <4>4. incoming'[k].from = e
          BY <4>1, <4>2
        <4>5. QED  BY <4>3, <4>4 DEF Talking
      <3>3. QED  BY <2>2, <3>1, <3>2
    <2>3. task.heard => Ecu \in ECUs /\ Talking(Ecu) /\ ~At("disable", "settle")
      BY CurrentJob, TypedIsTypeOK DEF At, Inductive, Typed, TaskInStep, FramesTellTheTruth
    <2>4. task'.heard => Talking(Ecu)'
      BY <1>1, <2>1, <2>3
    <2>5. QED  BY <2>2, <2>4 DEF FramesTellTheTruth
  <1>6. QED  BY <1>2, <1>3, <1>4, <1>5 DEF Inductive

-----------------------------------------------------------------------------
(* The invariant, action by action *)

\* What the invariant says of a thread that has a job, in one place.
LEMMA BusyFacts ==
    ASSUME Inductive, Busy
    PROVE  /\ task \in TaskType /\ task.todo \in Plans /\ retry \in RetryType
           /\ Ecu \in ECUs /\ Name \in {"disable", "restore", "confirm", "standby"}
           /\ \A e \in ECUs : ecu[e].silenced => e \in disabled
           /\ ~driving
           /\ Name = "disable" => task.step = 1 /\ ~retry.pending
  BY CurrentJob, TypedIsTypeOK DEF Inductive, Typed, TaskInStep, SilentIsNoted

\* The steps of the control thread, one by one.
LEMMA JobsKeepInvariant ==
    ASSUME Inductive, TypeOK',
           \/ BeginTakeover \/ BeginRecovery \/ StartJob \/ SendRequest
           \/ Answered \/ TimesOut \/ SendSilence \/ Settle \/ WatchHears \/ WatchEnds
           \/ FinishRecovery
    PROVE  Inductive'
  <1>1. CASE BeginTakeover
    <2>1. /\ task' = First(Takeover) /\ Takeover \in Plans
          /\ UNCHANGED <<ecu, requests, incoming, disabled, driving, retry>>
          /\ ~Busy /\ ~driving /\ ~retry.pending
      BY <1>1 DEF BeginTakeover, First, Plans, bus
    <2>2. /\ task'.todo = Takeover /\ task'.at = "start" /\ task'.step = 1 /\ ~task'.heard
          /\ task'.todo \in Plans
      BY <2>1, BeginFacts
    <2>3. Ecu' = "camera"
      BY <2>2 DEF Ecu, Takeover, Job
    <2>4. \A e \in ECUs : ecu[e].silenced => e \in disabled'
      BY <2>1 DEF Inductive, SilentIsNoted
    <2>5. QED  BY <2>1, <2>2, <2>3, <2>4, NewJob DEF At
  <1>2. CASE BeginRecovery
    <2>1. /\ task' = First(Recovery) /\ Recovery \in Plans
          /\ UNCHANGED <<ecu, requests, incoming, disabled, driving>>
          /\ ~Busy /\ retry.pending
      BY <1>2 DEF BeginRecovery, First, Plans, bus
    <2>2. /\ task'.todo = Recovery /\ task'.at = "start" /\ task'.step = 1 /\ ~task'.heard
          /\ task'.todo \in Plans
      BY <2>1, BeginFacts
    <2>3. Name' # "disable"
      BY <2>2 DEF Name, Recovery, Job
    <2>4. (\A e \in ECUs : ecu[e].silenced => e \in disabled') /\ ~driving
      BY <2>1 DEF Inductive, SilentIsNoted, TaskInStep
    <2>5. QED  BY <2>1, <2>2, <2>3, <2>4, NewJob DEF At
  <1>3. CASE StartJob
    <2>1. /\ Busy /\ Name # "standby" /\ ~At("disable", "settle") /\ task.at = "start"
          /\ UNCHANGED <<ecu, requests, incoming, disabled, driving, retry>>
      BY <1>3 DEF StartJob, At, bus
    <2>2. ~task.heard
      BY <2>1 DEF Inductive, TaskInStep
    <2>3. \/ task' = [task EXCEPT !.at = "request"]
          \/ Name # "disable" /\ task' = [task EXCEPT !.at = "watch"]
          \/ Name # "disable" /\ task' = NextJob(FALSE)
      BY <1>3, <2>1, BusyFacts DEF StartJob
    <2>4. CASE Name # "disable" /\ task' = NextJob(FALSE)
      <3>1. /\ task'.todo = Tail(task.todo) /\ task'.todo \in Plans
            /\ task'.at = "start" /\ task'.step = 1 /\ ~task'.heard
        BY <2>1, <2>4, BusyFacts, NextJobFacts
      <3>2. QED  BY <2>1, <2>4, <3>1, BusyFacts, JobEnds
    <2>5. CASE \/ task' = [task EXCEPT !.at = "request"]
               \/ Name # "disable" /\ task' = [task EXCEPT !.at = "watch"]
      <3>1. /\ task'.todo = task.todo /\ ~task'.heard /\ task'.step = task.step
            /\ task'.at \in {"request", "watch"} /\ (Name = "disable" => task'.at = "request")
        BY <2>1, <2>2, <2>5, BusyFacts DEF TaskType
      <3>2. QED  BY <2>1, <3>1, BusyFacts, SameJob
    <2>6. QED  BY <2>3, <2>4, <2>5
  <1>4. CASE SendRequest
    <2>1. /\ Busy /\ task.at = "request" /\ ~At("disable", "settle")
          /\ UNCHANGED <<ecu, incoming, disabled, driving>>
      BY <1>4 DEF SendRequest, At
    <2>2. CASE linked
      <3> DEFINE request == Steps[task.step]
      <3>1. /\ requests' = [requests EXCEPT ![Ecu] = Append(requests[Ecu], request)]
            /\ task' = [task EXCEPT !.at = "await"] /\ retry' = retry
        BY <1>4, <2>2 DEF SendRequest, OnTheWire
      <3>2. request \in Requests \ {"silence"}
        BY <2>1, BusyFacts, CurrentJob DEF TaskType
      <3> HIDE DEF request
      <3>3. /\ task'.todo = task.todo /\ task'.at = "await" /\ task'.step = task.step
            /\ task'.heard = task.heard
        BY <2>1, <3>1, BusyFacts DEF TaskType
      <3>4. (Busy' <=> Busy) /\ Name' = Name /\ Ecu' = Ecu
        BY <3>3 DEF Busy, Name, Ecu
      <3>5. ~task'.heard /\ Name # "standby"
        BY <2>1, <3>3 DEF Inductive, TaskInStep
      <3>6. TaskInStep'
        BY <2>1, <3>1, <3>3, <3>4, <3>5 DEF Inductive, TaskInStep
      <3>7. SilentIsNoted'
        BY <2>1, <3>3, <3>4 DEF Inductive, SilentIsNoted
      <3>8. RequestsInStep'
        <4>1. \A e \in ECUs : requests[e] \in Seq(Requests)
          BY TypedIsTypeOK DEF Inductive, Typed
        <4>2. ASSUME NEW e \in ECUs, NEW k \in DOMAIN requests'[e]
              PROVE  requests'[e][k] # "silence"
          <5>1. ASSUME NEW j \in DOMAIN requests[e]
                PROVE  requests[e][j] # "silence"
            BY <2>1 DEF Inductive, RequestsInStep
          <5>2. CASE e # Ecu
            BY <3>1, <4>1, <5>1, <5>2 DEF Inductive, TypeOK
          <5>3. CASE e = Ecu
            <6>1. requests'[e] = Append(requests[e], request)
              BY <3>1, <5>3 DEF Inductive, TypeOK
            <6>2. requests'[e][k] = request \/
                      (k \in DOMAIN requests[e] /\ requests'[e][k] = requests[e][k])
              BY <3>2, <4>1, <4>2, <6>1, AppendFacts
            <6>3. QED  BY <3>2, <5>1, <6>2
          <5>4. QED  BY <5>2, <5>3
        <4>3. ~At("disable", "watch")' /\ ~driving'
          BY <2>1, <3>3, BusyFacts DEF At
        <4>4. Busy' /\ Name' = "disable" /\ Ecu' = "radar" =>
                  ecu'["camera"].silenced /\ requests'["camera"] = <<>>
          BY <2>1, <3>1, <3>4, SMTT(30) DEF Inductive, RequestsInStep, TypeOK
        <4>5. QED  BY <4>2, <4>3, <4>4 DEF RequestsInStep
      <3>9. FramesTellTheTruth'
        BY <2>1, <3>5 DEF Inductive, FramesTellTheTruth, Talking
      <3>10. QED  BY <3>6, <3>7, <3>8, <3>9 DEF Inductive
    <2>3. CASE ~linked
      BY <1>4, <2>1, <2>3, ThrowEnds DEF SendRequest
    <2>4. QED  BY <2>2, <2>3
  <1>5. CASE Answered
    <2>1. /\ Busy /\ task.at = "await" /\ ~At("disable", "settle")
          /\ UNCHANGED <<ecu, requests, incoming, disabled, driving>>
      BY <1>5 DEF Answered, At, bus
    <2>2. ~task.heard /\ Name # "standby"
      BY <2>1 DEF Inductive, TaskInStep
    <2>3. CASE Throws
      BY <2>1, <2>3, ThrowEnds
    <2>4. CASE ~Throws /\ LastStep /\ Name # "disable"
      <3>1. task' = NextJob(FALSE)
        BY <1>5, <2>4 DEF Answered
      <3>2. /\ task'.todo = Tail(task.todo) /\ task'.todo \in Plans
            /\ task'.at = "start" /\ task'.step = 1 /\ ~task'.heard
        BY <2>1, <3>1, BusyFacts, NextJobFacts
      <3>3. QED  BY <2>1, <2>4, <3>2, BusyFacts, JobEnds
    <2>5. CASE ~Throws /\ LastStep /\ Name = "disable"
      <3>1. task' = [task EXCEPT !.at = "silence"] /\ retry' = retry
        BY <1>5, <2>5 DEF Answered
      <3>2. /\ task'.todo = task.todo /\ ~task'.heard /\ task'.step = task.step
            /\ task'.at = "silence"
        BY <2>1, <2>2, <3>1, BusyFacts DEF TaskType
      <3>3. QED  BY <2>1, <2>2, <3>1, <3>2, BusyFacts, SameJob
    <2>6. CASE ~Throws /\ ~LastStep
      <3>1. task' = [task EXCEPT !.at = "request", !.step = task.step + 1] /\ retry' = retry
        BY <1>5, <2>6 DEF Answered
      <3>2. /\ task'.todo = task.todo /\ ~task'.heard
            /\ task'.at = "request"
        BY <2>1, <2>2, <3>1, BusyFacts DEF TaskType
      <3>3. Name # "disable"
        BY <2>1, <2>6, BusyFacts, CurrentJob DEF LastStep
      <3>4. QED  BY <2>1, <2>2, <3>1, <3>2, <3>3, SameJob
    <2>7. QED  BY <2>3, <2>4, <2>5, <2>6
  <1>6. CASE TimesOut
    BY <1>6, ThrowEnds DEF TimesOut, At, bus
  <1>7. CASE SendSilence
    <2>1. /\ Busy /\ Name = "disable" /\ task.at = "silence" /\ ~At("disable", "settle")
          /\ UNCHANGED <<ecu, incoming, driving>>
      BY <1>7 DEF SendSilence, At
    <2>2. CASE linked
      <3>1. /\ requests' = [requests EXCEPT ![Ecu] = Append(requests[Ecu], "silence")]
            /\ disabled' = disabled \cup {Ecu}
            /\ task' = [task EXCEPT !.at = "settle"] /\ retry' = retry
        BY <1>7, <2>2 DEF SendSilence, OnTheWire
      <3>2. /\ task'.todo = task.todo /\ task'.at = "settle" /\ task'.step = task.step
            /\ task'.heard = task.heard
        BY <2>1, <3>1, BusyFacts DEF TaskType
      <3>3. (Busy' <=> Busy) /\ Name' = Name /\ Ecu' = Ecu
        BY <3>2 DEF Busy, Name, Ecu
      <3>4. ~task'.heard
        BY <2>1, <3>2 DEF Inductive, TaskInStep
      <3>5. At("disable", "settle")'
        BY <2>1, <3>2, <3>3 DEF At
      <3>6. TaskInStep'
        BY <2>1, <3>1, <3>2, <3>3, <3>4 DEF Inductive, TaskInStep
      <3>7. SilentIsNoted'
        BY <2>1, <3>1, <3>2, <3>3 DEF Inductive, SilentIsNoted
      <3>8. RequestsInStep'
        <4>1. ASSUME NEW e \in ECUs, e # Ecu, NEW k \in DOMAIN requests'[e]
              PROVE  requests'[e][k] # "silence"
          <5>1. requests'[e] = requests[e]
            BY <3>1, <4>1 DEF Inductive, TypeOK
          <5>2. QED  BY <2>1, <4>1, <5>1 DEF Inductive, RequestsInStep
        <4>2. ~At("disable", "watch")' /\ ~driving'
          BY <2>1, <3>2, BusyFacts DEF At
        <4>3. Busy' /\ Name' = "disable" /\ Ecu' = "radar" =>
                  ecu'["camera"].silenced /\ requests'["camera"] = <<>>
          BY <2>1, <3>1, <3>3, SMTT(30) DEF Inductive, RequestsInStep, TypeOK
        <4>4. QED  BY <3>3, <3>5, <4>1, <4>2, <4>3 DEF RequestsInStep
      <3>9. FramesTellTheTruth'
        BY <3>4, <3>5 DEF FramesTellTheTruth
      <3>10. QED  BY <3>6, <3>7, <3>8, <3>9 DEF Inductive
    <2>3. CASE ~linked
      BY <1>7, <2>1, <2>3, ThrowEnds DEF SendSilence
    <2>4. QED  BY <2>2, <2>3
  <1>8. CASE Settle
    <2>1. /\ Busy /\ Name = "disable" /\ task.at = "settle" /\ requests[Ecu] = <<>> /\ Delivered
          /\ task' = [task EXCEPT !.at = "watch"]
          /\ UNCHANGED <<ecu, requests, incoming, disabled, driving, retry>>
      BY <1>8 DEF Settle, At, bus
    <2>2. /\ task'.todo = task.todo /\ task'.at = "watch" /\ task'.step = task.step
          /\ task'.heard = task.heard
      BY <2>1, BusyFacts DEF TaskType
    <2>3. (Busy' <=> Busy) /\ Name' = Name /\ Ecu' = Ecu
      BY <2>2 DEF Busy, Name, Ecu
    <2>4. ~task'.heard
      BY <2>1, <2>2 DEF Inductive, TaskInStep
    <2>5. TaskInStep'
      BY <2>1, <2>2, <2>3, <2>4 DEF Inductive, TaskInStep
    <2>6. SilentIsNoted'
      BY <2>1, <2>2, <2>3 DEF Inductive, SilentIsNoted
    <2>7. RequestsInStep'
      <3>1. \A e \in ECUs : \A k \in DOMAIN requests[e] : requests[e][k] # "silence"
        BY <2>1 DEF Inductive, RequestsInStep
      <3>2. ~driving' /\ requests'[Ecu'] = <<>>
        BY <2>1, <2>3, BusyFacts
      <3>3. Busy' /\ Name' = "disable" /\ Ecu' = "radar" =>
                ecu'["camera"].silenced /\ requests'["camera"] = <<>>
        BY <2>1, <2>3 DEF Inductive, RequestsInStep
      <3>4. QED  BY <2>1, <3>1, <3>2, <3>3 DEF RequestsInStep
    <2>8. FramesTellTheTruth'
      BY <2>1, <2>4 DEF FramesTellTheTruth, Delivered, Talking
    <2>9. QED  BY <2>5, <2>6, <2>7, <2>8 DEF Inductive
  <1>9. CASE WatchHears
    <2>1. /\ Busy /\ task.at = "watch" /\ task.heard /\ ~At("disable", "settle")
          /\ UNCHANGED <<ecu, requests, incoming, driving>>
      BY <1>9 DEF WatchHears, At, bus
    <2>2. CASE Name = "disable"
      BY <1>9, <2>1, <2>2, ThrowEnds DEF WatchHears
    <2>3. CASE Name # "disable"
      <3>1. task' = NextJob(FALSE) /\ disabled' = disabled \ {Ecu}
        BY <1>9, <2>3 DEF WatchHears
      <3>2. ~ecu[Ecu].silenced
        BY <2>1 DEF Inductive, FramesTellTheTruth, Talking
      <3>3. \A e \in ECUs : ecu[e].silenced => e \in disabled'
        BY <2>1, <3>1, <3>2, BusyFacts
      <3>4. /\ task'.todo = Tail(task.todo) /\ task'.todo \in Plans
            /\ task'.at = "start" /\ task'.step = 1 /\ ~task'.heard
        BY <2>1, <3>1, BusyFacts, NextJobFacts
      <3>5. QED  BY <2>1, <2>3, <3>3, <3>4, JobEnds
    <2>4. QED  BY <2>2, <2>3
  <1>10. CASE WatchEnds
    <2>1. /\ Busy /\ task.at = "watch" /\ ~task.heard /\ ~At("disable", "settle")
          /\ UNCHANGED <<ecu, requests, incoming, disabled>>
          /\ Name \in {"disable", "restore", "confirm"}
      BY <1>10, BusyFacts DEF WatchEnds, At, bus, Inductive, TaskInStep
    <2>2. CASE Name = "disable" /\ ~linked
      BY <1>10, <2>1, <2>2, ThrowEnds DEF WatchEnds
    <2>3. CASE Name = "disable" /\ linked
      <3>1. /\ task' = NextJob(FALSE) /\ retry' = retry /\ ~Talking(Ecu)
            /\ driving' = (Tail(task.todo) = <<>>)
        BY <1>10, <2>3 DEF WatchEnds
      <3>2. /\ task'.todo = Tail(task.todo) /\ task'.todo \in Plans
            /\ task'.at = "start" /\ task'.step = 1 /\ ~task'.heard
        BY <2>1, <3>1, BusyFacts, NextJobFacts
      <3>3. /\ requests[Ecu] = <<>>
            /\ Ecu = "radar" => ecu["camera"].silenced /\ requests["camera"] = <<>>
        BY <2>1, <2>3 DEF Inductive, RequestsInStep, At
      <3>4. \/ Ecu = "camera" /\ Tail(task.todo) = <<Job("disable", "radar")>>
            \/ Ecu = "radar" /\ Tail(task.todo) = <<>>
        BY <2>1, <2>3, BusyFacts, PlanFacts DEF Busy, Name, Ecu
      <3>5. Busy' /\ Name' = "disable" /\ Ecu' = "radar" =>
                ecu["camera"].silenced /\ requests["camera"] = <<>>
        <4>1. CASE Ecu = "camera"
          BY <3>1, <3>3, <4>1 DEF Talking
        <4>2. CASE Ecu = "radar"
          BY <3>3, <4>2
        <4>3. QED  BY <3>4, <4>1, <4>2
      <3>6. driving' => \A e \in ECUs : requests[e] = <<>>
        <4>1. driving' => Tail(task.todo) = <<>>
          BY <3>1
        <4>2. <<Job("disable", "radar")>> # <<>>
          OBVIOUS
        <4>3. driving' => Ecu = "radar"
          BY <3>4, <4>1, <4>2
        <4>4. QED  BY <3>3, <4>3 DEF ECUs
      <3>7. QED  BY <2>1, <2>3, <3>1, <3>2, <3>5, <3>6, BusyFacts, NewJob
    <2>4. CASE Name = "restore"
      <3>1. task' = [task EXCEPT !.at = "request"] /\ retry' = retry /\ driving' = driving
        BY <1>10, <2>4 DEF WatchEnds
      <3>2. /\ task'.todo = task.todo /\ ~task'.heard /\ task'.at = "request"
        BY <2>1, <3>1, BusyFacts DEF TaskType
      <3>3. QED  BY <2>1, <2>4, <3>1, <3>2, SameJob
    <2>5. CASE Name = "confirm"
      <3>1. task' = NextJob(TRUE) /\ driving' = driving
        BY <1>10, <2>5 DEF WatchEnds
      <3>2. /\ task'.todo = Tail(task.todo) /\ task'.todo \in Plans
            /\ task'.at = "start" /\ task'.step = 1 /\ ~task'.heard
        BY <2>1, <3>1, BusyFacts, NextJobFacts
      <3>3. QED  BY <2>1, <2>5, <3>1, <3>2, BusyFacts, JobEnds
    <2>6. QED  BY <2>1, <2>2, <2>3, <2>4, <2>5
  <1>11. CASE FinishRecovery
    <2>1. /\ Busy /\ ~At("disable", "settle") /\ task' = Idle
          /\ UNCHANGED <<ecu, requests, incoming, disabled, driving>>
      BY <1>11 DEF FinishRecovery, At, bus
    <2>2. QED  BY <2>1, BusyFacts, IdleFacts, JobEnds
  <1>12. QED
    BY <1>1, <1>2, <1>3, <1>4, <1>5, <1>6, <1>7, <1>8, <1>9, <1>10, <1>11

\* The steps of the receive thread, the ECUs, the link and time, and an internal disarm.
LEMMA OthersKeepInvariant ==
    ASSUME Inductive, TypeOK',
           \/ RequestRecovery \/ Deliver \/ Unplug \/ Replug \/ Tick
           \/ \E e \in ECUs : Process(e) \/ LoseRequest(e) \/ Reply(e) \/ StockFrame(e) \/ Expire(e)
    PROVE  Inductive'
  <1>1. /\ \A e \in ECUs : requests[e] \in Seq(Requests) /\ replies[e] \in Seq(Replies)
        /\ incoming \in Seq(Frames) /\ retry \in RetryType
        /\ ecu \in [ECUs -> EcuType]
    BY TypedIsTypeOK DEF Inductive, Typed
  <1>2. \A e \in ECUs : \A k \in DOMAIN requests[e] :
            requests[e][k] = "silence" => At("disable", "settle") /\ Ecu = e
    BY DEF Inductive, RequestsInStep
  <1>3. /\ driving => ~Busy /\ ~retry.pending
        /\ Busy /\ Name = "disable" => ~retry.pending
    BY DEF Inductive, TaskInStep
  <1>4. CASE RequestRecovery
    <2>1. /\ ~driving' /\ ~Busy
          /\ UNCHANGED <<ecu, requests, incoming, task, disabled>>
      BY <1>3, <1>4 DEF RequestRecovery, bus
    <2>2. QED  BY <1>2, <2>1, OutsideStep
  <1>5. CASE Deliver
    <2> DEFINE frame == Head(incoming)
               counts == /\ Busy /\ task.at = "watch"
                         /\ Head(incoming) = [from |-> Ecu, what |-> "stock"]
    <2>1. /\ incoming # <<>> /\ incoming' = Tail(incoming)
          /\ task' = [task EXCEPT !.heard = task.heard \/ counts]
          /\ UNCHANGED <<ecu, requests, disabled, driving, retry>>
      BY <1>5 DEF Deliver
    <2>2. counts \in BOOLEAN /\ task \in TaskType
      BY TypedIsTypeOK DEF Inductive, Typed
    <2>3. /\ 1 \in DOMAIN incoming /\ frame = incoming[1]
          /\ \A k \in DOMAIN Tail(incoming) :
                k + 1 \in DOMAIN incoming /\ Tail(incoming)[k] = incoming[k + 1]
      BY <1>1, <2>1, TailFacts
    <2>4. counts => Busy /\ task.at = "watch" /\ frame.what = "stock" /\ frame.from = Ecu
      OBVIOUS
    <2> HIDE DEF counts
    <2>5. /\ task'.todo = task.todo /\ task'.at = task.at /\ task'.step = task.step
          /\ task'.heard <=> (task.heard \/ counts)
      BY <2>1, <2>2 DEF TaskType
    <2>6. /\ (Busy' <=> Busy) /\ Name' = Name /\ Ecu' = Ecu
          /\ At("disable", "settle")' <=> At("disable", "settle")
          /\ At("disable", "watch")' <=> At("disable", "watch")
      BY <2>5 DEF Busy, Name, Ecu, At
    <2>7. TaskInStep'
      BY <2>1, <2>4, <2>5, <2>6 DEF Inductive, TaskInStep
    <2>8. SilentIsNoted'
      BY <2>1, <2>5, <2>6 DEF Inductive, SilentIsNoted
    <2>9. RequestsInStep'
      BY <2>1, <2>6 DEF Inductive, RequestsInStep
    <2>10. FramesTellTheTruth'
      <3>1. ASSUME ~At("disable", "settle")', NEW k \in DOMAIN incoming', incoming'[k].what = "stock"
            PROVE  Talking(incoming[k].from)'
        <4>1. k + 1 \in DOMAIN incoming /\ incoming'[k] = incoming[k + 1]
          BY <2>1, <2>3, <3>1
        <4>2. Talking(incoming[k + 1].from)
          BY <2>6, <3>1, <4>1 DEF Inductive, FramesTellTheTruth
        <4>3. QED  BY <2>1, <4>1, <4>2 DEF Talking
      <3>2. ASSUME counts
            PROVE  Talking(Ecu)
        <4>1. ~At("disable", "settle")
          BY <2>4, <3>2 DEF At
        <4>2. Talking(frame.from)
          BY <2>3, <2>4, <3>2, <4>1 DEF Inductive, FramesTellTheTruth
        <4>3. QED  BY <2>4, <3>2, <4>2
      <3>3. task'.heard => Talking(Ecu)
        BY <2>5, <3>2 DEF Inductive, FramesTellTheTruth
      <3>4. task'.heard => Talking(Ecu)'
        BY <2>1, <2>6, <3>3 DEF Talking
      <3>5. QED  BY <3>1, <3>4 DEF FramesTellTheTruth
    <2>11. QED  BY <2>7, <2>8, <2>9, <2>10 DEF Inductive
  <1>6. CASE Unplug
    <2>1. /\ ~driving' /\ (Busy => retry' = retry)
          /\ UNCHANGED <<ecu, requests, task, disabled>>
          /\ incoming' = <<>>
      BY <1>6 DEF Unplug
    <2>2. QED  BY <1>2, <1>3, <2>1, OutsideStep
  <1>7. CASE Replug
    BY <1>2, <1>3, <1>7, OutsideStep DEF Replug, bus
  <1>8. CASE Tick
    <2>1. /\ ~Busy /\ retry.pending
          /\ UNCHANGED <<ecu, requests, incoming, task, disabled, driving>>
      BY <1>8 DEF Tick, bus
    <2>2. QED  BY <1>2, <1>3, <2>1, OutsideStep
  <1>9. ASSUME NEW e \in ECUs, Process(e)
        PROVE  Inductive'
    <2> DEFINE r == Head(requests[e])
               does == Does(e, r)
    <2>1. /\ requests[e] # <<>>
          /\ requests' = [requests EXCEPT ![e] = Tail(requests[e])]
          /\ ecu' = [ecu EXCEPT ![e] = does] \/ ecu' = ecu
          /\ UNCHANGED <<incoming, task, disabled, driving, retry>>
      BY <1>9 DEF Process
    <2>2. requests \in [ECUs -> Seq(Requests)]
      BY TypedIsTypeOK DEF Inductive, Typed
    <2>3. \A f \in ECUs : f # e => requests'[f] = requests[f] /\ ecu'[f] = ecu[f]
      BY <1>1, <2>1, <2>2
    <2>4. /\ requests'[e] = Tail(requests[e])
          /\ 1 \in DOMAIN requests[e] /\ r = requests[e][1]
          /\ \A k \in DOMAIN Tail(requests[e]) :
                k + 1 \in DOMAIN requests[e] /\ Tail(requests[e])[k] = requests[e][k + 1]
      BY <1>1, <2>1, <2>2, TailFacts
    <2>5. does.silenced => r = "silence" \/ ecu[e].silenced
      BY DEF Does
    <2>6. r = "silence" => At("disable", "settle") /\ Ecu = e
      BY <1>2, <2>4
    <2>7. ecu'[e].silenced => ecu[e].silenced \/ (At("disable", "settle") /\ Ecu = e)
      <3>1. ecu'[e] = does \/ ecu'[e] = ecu[e]
        BY <1>1, <2>1
      <3>2. QED  BY <2>5, <2>6, <3>1
    <2>8. \A f \in ECUs : ecu'[f].silenced =>
              ecu[f].silenced \/ (At("disable", "settle") /\ Ecu = f)
      BY <2>3, <2>7
    <2>9. \A f \in ECUs : \A k \in DOMAIN requests'[f] :
              requests'[f][k] = "silence" => At("disable", "settle") /\ Ecu = f
      <3>1. ASSUME NEW k \in DOMAIN requests'[e], requests'[e][k] = "silence"
            PROVE  At("disable", "settle") /\ Ecu = e
        <4>1. k + 1 \in DOMAIN requests[e] /\ requests[e][k + 1] = "silence"
          BY <2>4, <3>1
        <4>2. QED  BY <1>2, <4>1
      <3>2. QED  BY <1>2, <2>3, <3>1
    <2>10. \A f \in ECUs : requests[f] = <<>> => requests'[f] = <<>>
      BY <2>1, <2>3
    <2>11. Busy /\ requests["camera"] = <<>> /\ ecu["camera"].silenced => ecu'["camera"].silenced
      BY <2>1, <2>3 DEF ECUs
    <2>12. driving' => driving /\ ~retry'.pending
      BY <1>3, <2>1
    <2>13. \A k \in DOMAIN incoming' : \E j \in DOMAIN incoming : incoming[j] = incoming'[k]
      BY <2>1
    <2> HIDE DEF r, does
    <2>14. QED
      BY <1>3, <2>1, <2>8, <2>9, <2>10, <2>11, <2>12, <2>13, OutsideStep
  <1>10. ASSUME NEW e \in ECUs, LoseRequest(e)
         PROVE  Inductive'
    <2>1. /\ requests[e] # <<>>
          /\ requests' = [requests EXCEPT ![e] = Tail(requests[e])]
          /\ UNCHANGED <<ecu, incoming, task, disabled, driving, retry>>
      BY <1>10 DEF LoseRequest
    <2>2. requests \in [ECUs -> Seq(Requests)]
      BY TypedIsTypeOK DEF Inductive, Typed
    <2>3. \A f \in ECUs : f # e => requests'[f] = requests[f]
      BY <2>1, <2>2
    <2>4. /\ requests'[e] = Tail(requests[e])
          /\ \A k \in DOMAIN Tail(requests[e]) :
                k + 1 \in DOMAIN requests[e] /\ Tail(requests[e])[k] = requests[e][k + 1]
      BY <1>1, <2>1, <2>2, TailFacts
    <2>5. \A f \in ECUs : \A k \in DOMAIN requests'[f] :
              requests'[f][k] = "silence" => At("disable", "settle") /\ Ecu = f
      <3>1. ASSUME NEW k \in DOMAIN requests'[e], requests'[e][k] = "silence"
            PROVE  At("disable", "settle") /\ Ecu = e
        <4>1. k + 1 \in DOMAIN requests[e] /\ requests[e][k + 1] = "silence"
          BY <2>4, <3>1
        <4>2. QED  BY <1>2, <4>1
      <3>2. QED  BY <1>2, <2>3, <3>1
    <2>6. \A f \in ECUs : requests[f] = <<>> => requests'[f] = <<>>
      BY <2>1, <2>3
    <2>7. \A k \in DOMAIN incoming' : \E j \in DOMAIN incoming : incoming[j] = incoming'[k]
      BY <2>1
    <2>8. QED  BY <1>3, <2>1, <2>5, <2>6, <2>7, OutsideStep
  <1>11. ASSUME NEW e \in ECUs, Reply(e)
         PROVE  Inductive'
    <2> DEFINE frame == [from |-> e, what |-> Head(replies[e])]
    <2>1. /\ replies[e] # <<>>
          /\ incoming' = Append(incoming, frame) \/ incoming' = incoming
          /\ UNCHANGED <<ecu, requests, task, disabled, driving, retry>>
      BY <1>11 DEF Reply
    <2>2. Head(replies[e]) \in Replies
      BY <1>1, <2>1, TailFacts
    <2>3. frame \in Frames /\ frame.what # "stock"
      BY <2>2 DEF Frames, Replies
    <2> HIDE DEF frame
    <2>4. \A k \in DOMAIN incoming' : incoming'[k].what = "stock" =>
              \E j \in DOMAIN incoming : incoming[j] = incoming'[k]
      <3>1. CASE incoming' = incoming
        BY <3>1
      <3>2. CASE incoming' = Append(incoming, frame)
        BY <1>1, <2>3, <3>2, AppendFacts
      <3>3. QED  BY <2>1, <3>1, <3>2
    <2>5. QED  BY <1>2, <1>3, <2>1, <2>4, OutsideStep
  <1>12. ASSUME NEW e \in ECUs, StockFrame(e)
         PROVE  Inductive'
    <2> DEFINE frame == [from |-> e, what |-> "stock"]
    <2>1. /\ Talking(e) /\ incoming' = Append(incoming, frame)
          /\ UNCHANGED <<ecu, requests, task, disabled, driving, retry>>
      BY <1>12 DEF StockFrame
    <2>2. frame \in Frames /\ frame.from = e
      BY DEF Frames
    <2>3. Talking(e)'
      BY <2>1 DEF Talking
    <2> HIDE DEF frame
    <2>4. \A k \in DOMAIN incoming' : incoming'[k].what = "stock" =>
              \/ \E f \in ECUs : incoming'[k].from = f /\ Talking(f)'
              \/ \E j \in DOMAIN incoming : incoming[j] = incoming'[k]
      BY <1>1, <2>1, <2>2, <2>3, AppendFacts
    <2>5. QED  BY <1>2, <1>3, <2>1, <2>4, OutsideStep
  <1>13. ASSUME NEW e \in ECUs, Expire(e)
         PROVE  Inductive'
    <2>1. PICK silenced \in {ecu[e].silenced, FALSE} :
              ecu' = [ecu EXCEPT ![e] = [session |-> "default", silenced |-> silenced]]
      BY <1>13 DEF Expire
    <2>2. /\ ~Busy /\ UNCHANGED <<requests, incoming, task, disabled, driving, retry>>
      BY <1>13 DEF Expire
    <2>3. \A f \in ECUs : ecu'[f].silenced => ecu[f].silenced
      BY <1>1, <2>1
    <2>4. \A k \in DOMAIN incoming' : \E j \in DOMAIN incoming : incoming[j] = incoming'[k]
      BY <2>2
    <2>5. QED  BY <1>2, <1>3, <2>2, <2>3, <2>4, OutsideStep
  <1>14. QED
    BY <1>4, <1>5, <1>6, <1>7, <1>8, <1>9, <1>10, <1>11, <1>12, <1>13

-----------------------------------------------------------------------------
(* Theorems *)

\* Every step is one of the control thread or one of the others.
LEMMA NextIsStep ==
    ASSUME Next
    PROVE  \/ BeginTakeover \/ BeginRecovery \/ StartJob \/ SendRequest
           \/ Answered \/ TimesOut \/ SendSilence \/ Settle \/ WatchHears \/ WatchEnds
           \/ FinishRecovery
           \/ RequestRecovery \/ Deliver \/ Unplug \/ Replug \/ Tick
           \/ \E e \in ECUs : Process(e) \/ LoseRequest(e) \/ Reply(e) \/ StockFrame(e) \/ Expire(e)
  BY DEF Next, Working, External

\* Both ECUs talk, and nothing is under way.
LEMMA InitInductive == Init => Inductive
  <1> SUFFICES ASSUME Init
               PROVE  Inductive
    OBVIOUS
  <1>1. Typed
    <2>1. /\ NoUds \in UdsType /\ ~NoUds.waiting
      BY DEF NoUds, UdsType
    <2>2. [pending |-> FALSE, failures |-> 0, delay |-> FirstDelay, wait |-> 0] \in RetryType
      BY BoundFacts DEF RetryType
    <2>3. \A e \in ECUs : ecu[e] \in EcuType
      BY DEF Init, EcuType
    <2>4. ecu \in [ECUs -> EcuType]
      BY <2>3 DEF Init
    <2>5. 0 \in 0..MaxDelay /\ MaxFaults \in 0..MaxFaults
      BY BoundFacts
    <2>6. /\ requests \in [ECUs -> Seq(Requests)] /\ replies \in [ECUs -> Seq(Replies)]
          /\ incoming \in Seq(Frames)
      BY DEF Init
    <2>7. /\ ecu \in [ECUs -> EcuType] /\ retry \in RetryType /\ task \in TaskType
          /\ uds \in UdsType /\ ~uds.waiting /\ since \in 0..MaxDelay /\ faults \in 0..MaxFaults
          /\ linked \in BOOLEAN /\ driving \in BOOLEAN /\ disabled \subseteq ECUs
      BY <2>1, <2>2, <2>4, <2>5, IdleFacts DEF Init
    <2>8. QED  BY <2>6, <2>7 DEF Typed
  <1>2. ~Busy /\ task.todo \in Plans /\ ~task.heard
    BY IdleFacts DEF Init, Busy
  <1>3. \A e \in ECUs : ~ecu[e].silenced /\ requests[e] = <<>>
    BY DEF Init
  <1>4. TaskInStep
    BY <1>2 DEF Init, TaskInStep
  <1>5. SilentIsNoted /\ RequestsInStep /\ FramesTellTheTruth
    BY <1>2, <1>3 DEF Init, SilentIsNoted, RequestsInStep, FramesTellTheTruth, At
  <1>6. QED  BY <1>1, <1>4, <1>5, TypedIsTypeOK DEF Inductive

\* Every step keeps the invariant.
LEMMA StepInductive == Inductive /\ [Next]_vars => Inductive'
  <1> SUFFICES ASSUME Inductive, [Next]_vars
               PROVE  Inductive'
    OBVIOUS
  <1>1. CASE Next
    <2>1. Typed /\ TaskInStep
      BY TypedIsTypeOK DEF Inductive
    <2>2. Typed'
      BY <1>1, <2>1, NextIsStep, JobsKeepTypes, OthersKeepTypes
    <2>3. TypeOK'
      BY <2>2 DEF Typed, TypeOK, EcuType, Frames, UdsType, TaskType, RetryType
    <2>4. QED  BY <1>1, <2>3, NextIsStep, JobsKeepInvariant, OthersKeepInvariant
  <1>2. CASE UNCHANGED vars
    BY <1>2 DEF vars, Inductive, TypeOK, TaskInStep, SilentIsNoted, RequestsInStep,
                FramesTellTheTruth, Busy, Name, Ecu, At, Talking
  <1>3. QED  BY <1>1, <1>2

\* A silent ECU has its flag, requests to be silent are on their way in the settle time only, and
\* a stock frame still to be counted outside of it is the truth, whatever is lost, late or negative.
THEOREM RecoveryInvariant == Spec => []Inductive
  BY InitInductive, StepInductive, PTL DEF Spec

\* Every variable of the recovery protocol keeps its type: no step of a job is beyond its requests,
\* the back-off stays between one and its cap, and no reply is held while one is waited for.
THEOREM RecoveryTypeCorrect == Spec => []TypeOK
  <1>1. Inductive => TypeOK
    BY DEF Inductive
  <1>2. QED  BY <1>1, RecoveryInvariant, PTL

\* The ECUs whose stock frames are on the bus.
Heard == {e \in ECUs : Talking(e)}

\* Each step takes over, drives, stops or gives back, or changes nothing of that.
LEMMA StepImplements ==
    ASSUME Inductive, Inductive', Next
    PROVE  Ownership!Next \/ UNCHANGED <<driving, Heard, disabled>>
  <1>1. ecu' = ecu => Heard' = Heard
    BY DEF Heard, Talking
  <1>2. /\ Heard \subseteq ECUs /\ Heard' \subseteq ECUs /\ disabled' \subseteq ECUs
        /\ disabled' = {} => Heard' = ECUs
    <2>1. disabled' = {} => Heard' = ECUs
      BY DEF Inductive, SilentIsNoted, Heard, Talking, ECUs
    <2>2. QED  BY <2>1 DEF Heard, Inductive, TypeOK
  <1>3. Busy => ~driving
    BY BusyFacts
  <1>4. driving \in BOOLEAN /\ driving' \in BOOLEAN
    BY DEF Inductive, TypeOK
  <1>5. ASSUME UNCHANGED <<ecu, driving, disabled>>
        PROVE  UNCHANGED <<driving, Heard, disabled>>
    BY <1>1, <1>5
  <1>6. ASSUME ~driving, ~driving', disabled \subseteq disabled', Heard' \subseteq Heard,
               Heard' # Heard => disabled' # {}
        PROVE  Ownership!TakeOver
    BY <1>2, <1>6 DEF Ownership!TakeOver, Heard
  <1>7. ASSUME ~driving, ~driving', disabled' \subseteq disabled, Heard \subseteq Heard',
               disabled \ disabled' \subseteq Heard'
        PROVE  Ownership!GiveBack
    BY <1>2, <1>7 DEF Ownership!GiveBack, Heard
  <1>8. CASE SendSilence /\ ecu' = ecu
    <2>1. Busy /\ driving' = driving /\ disabled \subseteq disabled'
      BY <1>8 DEF SendSilence, At
    <2>2. Ownership!TakeOver
      BY <1>1, <1>3, <1>6, <1>8, <2>1
    <2>3. QED  BY <2>2 DEF Ownership!Next
  <1>9. CASE WatchHears
    <2>1. /\ Busy /\ ecu' = ecu /\ driving' = driving
          /\ disabled' = disabled \/ disabled' = disabled \ {Ecu}
          /\ task.heard
      BY <1>9 DEF WatchHears, bus
    <2>2. Ecu \in Heard
      BY <2>1, BusyFacts DEF Inductive, FramesTellTheTruth, Heard
    <2>3. Ownership!GiveBack
      BY <1>1, <1>3, <1>7, <2>1, <2>2
    <2>4. QED  BY <2>3 DEF Ownership!Next
  <1>10. CASE WatchEnds
    <2>1. /\ Busy /\ task.at = "watch" /\ UNCHANGED <<ecu, disabled>>
      BY <1>10 DEF WatchEnds, bus
    <2>2. CASE ~driving'
      BY <1>3, <1>4, <1>5, <2>1, <2>2
    <2>3. CASE driving'
      <3>1. Name = "disable" /\ Tail(task.todo) = <<>>
        <4>1. Name \in {"disable", "restore", "confirm"}
          BY <2>1, BusyFacts DEF Inductive, TaskInStep
        <4>2. ~(UNCHANGED driving)
          BY <1>3, <2>1, <2>3
        <4>3. CASE Name = "disable"
          BY <1>10, <2>3, <4>2, <4>3 DEF WatchEnds
        <4>4. CASE Name # "disable"
          BY <1>10, <4>1, <4>2, <4>4 DEF WatchEnds
        <4>5. QED  BY <4>3, <4>4
      <3>2. <<Job("disable", "radar")>> # <<>>
        OBVIOUS
      <3>3. Ecu = "radar"
        BY <2>1, <3>1, <3>2, BusyFacts, PlanFacts DEF Busy, Name, Ecu
      <3>4. ecu["camera"].silenced /\ "camera" \in disabled /\ "radar" \in disabled
        BY <2>1, <3>1, <3>3 DEF Inductive, RequestsInStep, SilentIsNoted, ECUs
      <3>5. Heard = {} /\ disabled = ECUs
        <4>1. Heard = {}
          BY <3>4 DEF Heard, Talking
        <4>2. disabled \subseteq ECUs
          BY DEF Inductive, TypeOK
        <4>3. disabled = ECUs
          BY <3>4, <4>2 DEF ECUs
        <4>4. QED  BY <4>1, <4>3
      <3>6. Ownership!Drive
        BY <1>1, <1>3, <2>1, <2>3, <3>5 DEF Ownership!Drive, Heard
      <3>7. QED  BY <3>6 DEF Ownership!Next
    <2>4. QED  BY <2>2, <2>3
  <1>11. CASE RequestRecovery
    <2>1. Ownership!Stop
      BY <1>1, <1>11 DEF RequestRecovery, bus, Ownership!Stop, Heard
    <2>2. QED  BY <2>1 DEF Ownership!Next
  <1>12. CASE Unplug
    <2>1. /\ ~driving' /\ ecu' = ecu /\ disabled' = disabled
      BY <1>12 DEF Unplug
    <2>2. CASE driving
      <3>1. Ownership!Stop
        BY <1>1, <2>1, <2>2 DEF Ownership!Stop, Heard
      <3>2. QED  BY <3>1 DEF Ownership!Next
    <2>3. CASE ~driving
      BY <1>4, <1>5, <2>1, <2>3
    <2>4. QED  BY <2>2, <2>3
  <1>13. ASSUME NEW e \in ECUs, Process(e)
         PROVE  Ownership!Next
    <2> DEFINE r == Head(requests[e])
    <2>1. /\ requests[e] # <<>> /\ UNCHANGED <<disabled, driving>>
          /\ ecu' = [ecu EXCEPT ![e] = Does(e, r)] \/ ecu' = ecu
      BY <1>13 DEF Process
    <2>2. ~driving
      BY <2>1 DEF Inductive, RequestsInStep
    <2>3. ecu \in [ECUs -> EcuType]
      BY TypedIsTypeOK DEF Inductive, Typed
    <2>4. \A f \in ECUs : f # e => ecu'[f] = ecu[f]
      BY <2>1, <2>3
    <2> HIDE DEF r
    <2>5. CASE ecu'[e].silenced
      <3>1. Heard' \subseteq Heard
        BY <2>4, <2>5 DEF Heard, Talking, ECUs
      <3>2. disabled' # {}
        BY <2>5 DEF Inductive, SilentIsNoted
      <3>3. QED  BY <1>6, <2>1, <2>2, <3>1, <3>2 DEF Ownership!Next
    <2>6. CASE ~ecu'[e].silenced
      <3>1. Heard \subseteq Heard'
        BY <2>4, <2>6 DEF Heard, Talking, ECUs
      <3>2. QED  BY <1>7, <2>1, <2>2, <3>1 DEF Ownership!Next
    <2>7. QED  BY <2>5, <2>6
  <1>14. ASSUME NEW e \in ECUs, Expire(e)
         PROVE  Ownership!Next
    <2>1. PICK silenced \in {ecu[e].silenced, FALSE} :
              ecu' = [ecu EXCEPT ![e] = [session |-> "default", silenced |-> silenced]]
      BY <1>14 DEF Expire
    <2>2. ~driving /\ UNCHANGED <<disabled, driving>>
      BY <1>14 DEF Expire
    <2>3. ecu \in [ECUs -> EcuType]
      BY TypedIsTypeOK DEF Inductive, Typed
    <2>4. \A f \in ECUs : ecu'[f].silenced => ecu[f].silenced
      BY <2>1, <2>3
    <2>5. Heard \subseteq Heard'
      BY <2>4 DEF Heard, Talking, ECUs
    <2>6. QED  BY <1>7, <2>2, <2>5 DEF Ownership!Next
  <1>15. CASE \/ BeginTakeover \/ BeginRecovery \/ StartJob \/ SendRequest
              \/ Answered \/ TimesOut \/ Settle \/ FinishRecovery
              \/ Deliver \/ Replug \/ Tick
              \/ \E e \in ECUs : LoseRequest(e) \/ Reply(e) \/ StockFrame(e)
    <2>1. UNCHANGED <<ecu, driving, disabled>>
      BY <1>15 DEF BeginTakeover, BeginRecovery, StartJob, SendRequest, Answered, TimesOut,
                   Settle, FinishRecovery, Deliver, Replug, Tick, LoseRequest, Reply, StockFrame,
                   bus
    <2>2. QED  BY <1>5, <2>1
  <1>16. SendSilence => ecu' = ecu
    BY DEF SendSilence
  <1>17. QED
    BY NextIsStep, <1>8, <1>9, <1>10, <1>11, <1>12, <1>13, <1>14, <1>15, <1>16

\* The message-level takeover and recovery implement EcuOwnership: the node drives only while no
\* stock frame is on the bus and both flags are set, and it drops a flag only for an ECU that is
\* heard, however requests, replies and frames are lost, delayed, refused or left over.
THEOREM RecoveryKeepsOwnership == Spec => KeepsOwnership
  <1>1. Init => Ownership!Init
    <2>1. Init => \A e \in ECUs : Talking(e)
      BY DEF Init, Talking, ECUs
    <2>2. QED  BY <2>1 DEF Init, Ownership!Init
  <1>2. Inductive /\ Inductive' /\ [Next]_vars
            => [Ownership!Next]_<<driving, Heard, disabled>>
    <2>1. ASSUME UNCHANGED vars
          PROVE  UNCHANGED <<driving, Heard, disabled>>
      BY <2>1 DEF vars, Heard, Talking
    <2>2. QED  BY <2>1, StepImplements
  <1>3. Inductive /\ Inductive' /\ [Next]_vars
            => [Ownership!Next]_<<driving, {e \in ECUs : Talking(e)}, disabled>>
    BY <1>2 DEF Heard
  <1>4. QED
    BY <1>1, <1>3, RecoveryInvariant, PTL DEF Spec, KeepsOwnership, Ownership!Spec

-----------------------------------------------------------------------------
(* The back-off *)

\* A power of two counts the subsets of an interval.
LEMMA PowerIsNat ==
    ASSUME NEW n \in Nat
    PROVE  2^n \in Nat \ {0} /\ IsFiniteSet(SUBSET (1..n)) /\ Cardinality(SUBSET (1..n)) = 2^n
  <1>1. IsFiniteSet(1..n) /\ Cardinality(1..n) = n
    <2>1. IsFiniteSet(1..n) /\ Cardinality(1..n) = IF 1 > n THEN 0 ELSE n - 1 + 1
      BY FS_Interval
    <2>2. QED  BY <2>1
  <1>2. IsFiniteSet(SUBSET (1..n)) /\ Cardinality(SUBSET (1..n)) = 2^n
    BY <1>1, FS_SUBSET
  <1>3. SUBSET (1..n) # {}
    BY Zenon
  <1>4. QED  BY <1>2, <1>3, FS_CardinalityType, FS_EmptySet

\* An interval with one more number has twice the subsets: those without it, and those with it.
LEMMA PowerDoubles ==
    ASSUME NEW n \in Nat
    PROVE  2^(n + 1) = 2^n + 2^n
  <1> DEFINE A == SUBSET (1..n)
             B == {x \cup {n + 1} : x \in A}
  <1>1. /\ 2^n \in Nat /\ IsFiniteSet(A) /\ Cardinality(A) = 2^n
        /\ Cardinality(SUBSET (1..n + 1)) = 2^(n + 1)
    <2>1. n + 1 \in Nat
      OBVIOUS
    <2>2. 2^n \in Nat /\ IsFiniteSet(A) /\ Cardinality(A) = 2^n
      BY PowerIsNat
    <2> HIDE DEF A
    <2>3. Cardinality(SUBSET (1..n + 1)) = 2^(n + 1)
      BY <2>1, PowerIsNat, Zenon
    <2>4. QED  BY <2>2, <2>3
  <1>2. SUBSET (1..n + 1) = A \cup B
    <2>1. 1..n + 1 = (1..n) \cup {n + 1} /\ n + 1 \notin 1..n
      OBVIOUS
    <2>2. ASSUME NEW x \in SUBSET (1..n + 1) PROVE x \in A \cup B
      <3>1. CASE n + 1 \in x
        <4>1. x \ {n + 1} \in A /\ x = (x \ {n + 1}) \cup {n + 1}
          BY <2>1, <3>1
        <4>2. QED  BY <4>1
      <3>2. CASE n + 1 \notin x
        BY <2>1, <3>2
      <3>3. QED  BY <3>1, <3>2
    <2>3. ASSUME NEW x \in A \cup B PROVE x \in SUBSET (1..n + 1)
      <3>1. CASE x \in A
        BY <2>1, <3>1
      <3>2. CASE x \in B
        BY <2>1, <3>2
      <3>3. QED  BY <3>1, <3>2
    <2> HIDE DEF A, B
    <2>4. QED  BY <2>2, <2>3
  <1>3. A \cap B = {}
    <2>1. n + 1 \notin 1..n
      OBVIOUS
    <2>2. QED  BY <2>1
  <1>4. IsFiniteSet(B) /\ Cardinality(B) = 2^n
    <2> DEFINE f == [x \in A |-> x \cup {n + 1}]
    <2>1. n + 1 \notin 1..n
      OBVIOUS
    <2>2. \A x, y \in A : x \cup {n + 1} = y \cup {n + 1} => x = y
      BY <2>1
    <2>3. f \in Bijection(A, B)
      <3>1. f \in [A -> B] /\ \A b \in B : \E x \in A : f[x] = b
        OBVIOUS
      <3>2. \A x, y \in A : f[x] = f[y] => x = y
        BY <2>2
      <3>3. QED  BY <3>1, <3>2 DEF Bijection, Injection, IsInjective, Surjection
    <2> HIDE DEF A, B, f
    <2>4. QED  BY <1>1, <2>3, FS_Bijection DEF ExistsBijection
  <1> HIDE DEF A, B
  <1>5. Cardinality(A \cup B) = Cardinality(A) + Cardinality(B) - Cardinality(A \cap B)
    BY <1>1, <1>4, FS_Union
  <1>6. Cardinality(A \cap B) = 0
    BY <1>3, FS_EmptySet
  <1>7. Cardinality(SUBSET (1..n + 1)) = 2^n + 2^n - 0
    BY <1>1, <1>2, <1>4, <1>5, <1>6
  <1> DEFINE p == 2^n
             q == 2^(n + 1)
  <1>8. p \in Nat /\ q = p + p - 0
    BY <1>1, <1>7
  <1> HIDE DEF p, q
  <1>9. q = p + p
    BY <1>8
  <1>10. QED  BY <1>9 DEF p, q

\* The delay that a reader expects after the n-th failure: 1, 2, 4, ... seconds up to the cap.
Spacing(n) ==
    LET doubled == FirstDelay * 2^(n - 1) IN IF doubled < MaxDelay THEN doubled ELSE MaxDelay

\* failed() computes the next delay from the last one, and the count may stop at MaxFailures.
LEMMA SpacingFacts ==
    /\ Spacing(1) = FirstDelay
    /\ Spacing(MaxFailures) = MaxDelay /\ Spacing(MaxFailures + 1) = MaxDelay
    /\ \A n \in Nat \ {0} :
          /\ Spacing(n) \in 1..MaxDelay
          /\ Spacing(n + 1) = IF Spacing(n) >= MaxDelay - Spacing(n) THEN MaxDelay
                              ELSE Spacing(n) + Spacing(n)
  <1>1. /\ FirstDelay \in Nat \ {0} /\ MaxDelay \in Nat /\ FirstDelay <= MaxDelay
        /\ MaxFailures \in Nat \ {0}
    BY BoundFacts
  <1>2. ASSUME NEW n \in Nat \ {0}
        PROVE  /\ FirstDelay * 2^(n - 1) \in Nat \ {0}
               /\ FirstDelay * 2^n = FirstDelay * 2^(n - 1) + FirstDelay * 2^(n - 1)
    <2>1. n - 1 \in Nat /\ (n - 1) + 1 = n
      OBVIOUS
    <2>2. 2^((n - 1) + 1) = 2^(n - 1) + 2^(n - 1)
      BY <2>1, PowerDoubles
    <2>3. 2^n = 2^(n - 1) + 2^(n - 1)
      BY <2>1, <2>2
    <2>4. 2^(n - 1) \in Nat \ {0}
      BY <2>1, PowerIsNat
    <2> DEFINE p == 2^(n - 1)
               q == 2^n
    <2>5. p \in Nat \ {0} /\ q = p + p
      BY <2>3, <2>4
    <2> HIDE DEF p, q
    <2>6. FirstDelay * p \in Nat \ {0} /\ FirstDelay * q = FirstDelay * p + FirstDelay * p
      BY <1>1, <2>5
    <2>7. QED  BY <2>6 DEF p, q
  <1>3. ASSUME NEW n \in Nat \ {0}
        PROVE  /\ Spacing(n) \in 1..MaxDelay
               /\ Spacing(n + 1) = IF Spacing(n) >= MaxDelay - Spacing(n) THEN MaxDelay
                                   ELSE Spacing(n) + Spacing(n)
    <2> DEFINE a == FirstDelay * 2^(n - 1)
               b == FirstDelay * 2^n
    <2>1. a \in Nat \ {0} /\ b = a + a
      BY <1>2
    <2>2. (n + 1) - 1 = n
      OBVIOUS
    <2>3. /\ Spacing(n) = IF a < MaxDelay THEN a ELSE MaxDelay
          /\ Spacing(n + 1) = IF b < MaxDelay THEN b ELSE MaxDelay
      BY <2>2 DEF Spacing
    <2> HIDE DEF a, b
    <2>4. QED  BY <1>1, <2>1, <2>3
  <1>4. Spacing(1) = FirstDelay
    <2>1. 2^(1 - 1) = 1
      OBVIOUS
    <2>2. FirstDelay * 1 = FirstDelay
      BY <1>1
    <2>3. Spacing(1) = IF FirstDelay < MaxDelay THEN FirstDelay ELSE MaxDelay
      BY <2>1, <2>2 DEF Spacing
    <2>4. QED  BY <1>1, <2>3
  <1>5. Spacing(MaxFailures) = MaxDelay
    <2> DEFINE a == FirstDelay * 2^(MaxFailures - 1)
    <2>1. a >= MaxDelay
      BY DelayAssumption, Zenon
    <2>2. a \in Nat
      BY <1>1, <1>2
    <2>3. Spacing(MaxFailures) = IF a < MaxDelay THEN a ELSE MaxDelay
      BY DEF Spacing
    <2> HIDE DEF a
    <2>4. QED  BY <1>1, <2>1, <2>2, <2>3
  <1>6. Spacing(MaxFailures + 1) = MaxDelay
    BY <1>1, <1>3, <1>5
  <1>7. QED  BY <1>3, <1>4, <1>5, <1>6

\* The delay is the one that follows after the failures so far, and the time that has passed since
\* the last failure and the time still to wait make up its spacing.
RetryInStep ==
    /\ retry \in RetryType /\ since \in 0..MaxDelay
    /\ retry.delay = Spacing(retry.failures + 1)
    /\ retry.pending /\ retry.failures > 0 => since + retry.wait >= Spacing(retry.failures)

\* What the steps do to the schedule.
LEMMA RetrySteps ==
    ASSUME Inductive, [Next]_vars
    PROVE  \/ UNCHANGED <<retry, since>>
           \/ retry' = Requested /\ UNCHANGED since
           \/ retry' = [retry EXCEPT !.pending = FALSE] /\ UNCHANGED since
           \/ retry' = Failed(retry) /\ since' = 0
           \/ /\ retry.pending /\ retry.wait > 0
              /\ retry' = [retry EXCEPT !.wait = @ - 1]
              /\ since' = IF since < MaxDelay THEN since + 1 ELSE since
  <1>1. CASE UNCHANGED vars
    BY <1>1 DEF vars
  <1>2. CASE BeginTakeover \/ StartJob \/ Settle \/ Deliver \/ Replug
    BY <1>2 DEF BeginTakeover, StartJob, Settle, Deliver, Replug
  <1>3. CASE RequestRecovery \/ BeginRecovery
    BY <1>3 DEF RequestRecovery, BeginRecovery
  <1>4. CASE Unplug
    BY <1>4 DEF Unplug
  <1>5. Throws => (UNCHANGED retry \/ retry' = Requested)
    BY DEF Throws
  <1>6. CASE SendRequest
    BY <1>5, <1>6, Zenon DEF SendRequest
  <1>7. CASE Answered
    BY <1>5, <1>7, Zenon DEF Answered
  <1>8. CASE TimesOut
    BY <1>5, <1>8, Zenon DEF TimesOut
  <1>9. CASE SendSilence
    BY <1>5, <1>9, Zenon DEF SendSilence
  <1>10. CASE WatchHears
    BY <1>5, <1>10, Zenon DEF WatchHears
  <1>11. CASE WatchEnds
    <2>1. UNCHANGED since /\ Busy /\ Name \in {"disable", "restore", "confirm"}
      BY <1>11, BusyFacts DEF WatchEnds, Inductive, TaskInStep
    <2>2. UNCHANGED retry \/ Throws
      BY <1>11, <2>1 DEF WatchEnds
    <2>3. QED  BY <1>5, <2>1, <2>2
  <1>12. CASE FinishRecovery
    BY <1>12, Zenon DEF FinishRecovery
  <1>13. CASE Tick
    BY <1>13 DEF Tick
  <1>14. CASE \E e \in ECUs : Process(e) \/ LoseRequest(e) \/ Reply(e) \/ StockFrame(e) \/ Expire(e)
    BY <1>14 DEF Process, LoseRequest, Reply, StockFrame, Expire
  <1>15. QED  BY <1>1, <1>2, <1>3, <1>4, <1>6, <1>7, <1>8, <1>9, <1>10, <1>11, <1>12, <1>13,
                 <1>14, NextIsStep

\* A failure, with the delay that was computed for it, and the delay of the next one.
LEMMA FailureSpaced ==
    ASSUME RetryInStep
    PROVE  LET r == Failed(retry)
           IN  /\ r \in RetryType /\ r.delay = Spacing(r.failures + 1)
               /\ r.failures > 0 /\ r.wait = Spacing(r.failures)
  <1> DEFINE r == Failed(retry)
             n == retry.failures
             d == retry.delay
  <1>1. /\ n \in 0..MaxFailures /\ d \in 1..MaxDelay /\ d = Spacing(n + 1) /\ MaxFailures \in Nat \ {0}
        /\ MaxDelay \in Nat
    BY BoundFacts DEF RetryInStep, RetryType
  <1>2. r \in RetryType
    BY FailedFacts DEF RetryInStep
  <1>3. /\ r.failures = Counted(n) /\ r.wait = d
        /\ r.delay = IF d >= MaxDelay - d THEN MaxDelay ELSE d + d
    BY DEF Failed, RetryInStep, RetryType
  <1> HIDE DEF r, n, d
  <1>4. CASE n < MaxFailures
    <2>1. r.failures = n + 1 /\ n + 1 \in Nat \ {0}
      BY <1>1, <1>3, <1>4 DEF Counted
    <2>2. Spacing((n + 1) + 1) = IF Spacing(n + 1) >= MaxDelay - Spacing(n + 1) THEN MaxDelay
                                 ELSE Spacing(n + 1) + Spacing(n + 1)
      BY <2>1, SpacingFacts
    <2>3. r.delay = Spacing(r.failures + 1)
      BY <1>1, <1>3, <2>1, <2>2
    <2>4. r.failures > 0 /\ r.wait = Spacing(r.failures)
      BY <1>1, <1>3, <2>1
    <2>5. QED  BY <1>2, <2>3, <2>4 DEF r
  <1>5. CASE ~(n < MaxFailures)
    <2>1. n = MaxFailures /\ r.failures = n /\ n > 0
      BY <1>1, <1>3, <1>5 DEF Counted
    <2>2. d = MaxDelay /\ Spacing(n) = MaxDelay /\ Spacing(n + 1) = MaxDelay
      BY <1>1, <2>1, SpacingFacts
    <2>3. r.delay = MaxDelay
      BY <1>1, <1>3, <2>2
    <2>4. r.delay = Spacing(r.failures + 1) /\ r.wait = Spacing(r.failures)
      BY <1>3, <2>1, <2>2, <2>3
    <2>5. QED  BY <1>2, <2>1, <2>4 DEF r
  <1>6. QED  BY <1>4, <1>5

\* Every step keeps the schedule in step.
LEMMA RetryStepKeeps ==
    ASSUME Inductive, RetryInStep, [Next]_vars
    PROVE  RetryInStep'
  <1>1. /\ retry \in RetryType /\ since \in 0..MaxDelay
        /\ retry.delay = Spacing(retry.failures + 1)
    BY DEF RetryInStep
  <1>2. CASE UNCHANGED <<retry, since>>
    BY <1>2 DEF RetryInStep
  <1>3. CASE retry' = Requested /\ UNCHANGED since
    <2>1. CASE retry.pending
      BY <1>1, <1>3, <2>1, RequestedFacts DEF RetryInStep
    <2>2. CASE ~retry.pending
      <3>1. retry' \in RetryType
        BY <1>1, <1>3, RequestedFacts
      <3>2. retry'.failures = 0 /\ retry'.delay = FirstDelay
        BY <1>3, <2>2 DEF Requested
      <3>3. retry'.delay = Spacing(retry'.failures + 1)
        <4>1. retry'.failures + 1 = 1
          BY <3>2
        <4>2. QED  BY <3>2, <4>1, SpacingFacts
      <3>4. QED  BY <1>1, <1>3, <3>1, <3>2, <3>3 DEF RetryInStep
    <2>3. QED  BY <2>1, <2>2
  <1>4. CASE retry' = [retry EXCEPT !.pending = FALSE] /\ UNCHANGED since
    <2>1. /\ retry' \in RetryType /\ ~retry'.pending
          /\ retry'.failures = retry.failures /\ retry'.delay = retry.delay
      BY <1>1, <1>4 DEF RetryType
    <2>2. QED  BY <1>1, <1>4, <2>1 DEF RetryInStep
  <1>5. CASE retry' = Failed(retry) /\ since' = 0
    <2>1. /\ retry' \in RetryType /\ retry'.delay = Spacing(retry'.failures + 1)
          /\ retry'.failures > 0 /\ retry'.wait = Spacing(retry'.failures)
      BY <1>5, FailureSpaced
    <2>2. retry'.failures \in Nat \ {0} /\ MaxDelay \in Nat
      BY <2>1, BoundFacts DEF RetryType
    <2>3. Spacing(retry'.failures) \in 1..MaxDelay
      BY <2>2, SpacingFacts
    <2>4. since' + retry'.wait >= Spacing(retry'.failures) /\ since' \in 0..MaxDelay
      BY <1>5, <2>1, <2>2, <2>3
    <2>5. QED  BY <2>1, <2>4 DEF RetryInStep
  <1>6. CASE /\ retry.pending /\ retry.wait > 0
             /\ retry' = [retry EXCEPT !.wait = @ - 1]
             /\ since' = IF since < MaxDelay THEN since + 1 ELSE since
    <2>1. /\ retry.wait \in 0..MaxDelay /\ retry.failures \in 0..MaxFailures
          /\ MaxDelay \in Nat /\ MaxFailures \in Nat
      BY <1>1, BoundFacts DEF RetryType
    <2>2. retry.wait - 1 \in 0..MaxDelay
      BY <1>6, <2>1
    <2>3. /\ retry' \in RetryType /\ retry'.failures = retry.failures
          /\ retry'.delay = retry.delay /\ retry'.wait = retry.wait - 1
      BY <1>1, <1>6, <2>2 DEF RetryType
    <2>4. since' \in 0..MaxDelay
      BY <1>1, <1>6, <2>1
    <2>5. ASSUME retry.failures > 0 PROVE since' + retry'.wait >= Spacing(retry'.failures)
      <3>1. Spacing(retry.failures) \in 1..MaxDelay
        BY <2>1, <2>5, SpacingFacts
      <3>2. since + retry.wait >= Spacing(retry.failures)
        BY <1>6, <2>5 DEF RetryInStep
      <3>3. CASE since < MaxDelay
        <4>1. since' + retry'.wait = since + retry.wait
          BY <1>1, <1>6, <2>1, <2>3, <3>3
        <4>2. QED  BY <2>3, <3>2, <4>1
      <3>4. CASE ~(since < MaxDelay)
        <4>1. since' = MaxDelay /\ retry'.wait \in Nat
          BY <1>1, <1>6, <2>1, <2>2, <2>3, <3>4
        <4>2. since' + retry'.wait >= Spacing(retry.failures)
          BY <2>1, <3>1, <4>1
        <4>3. QED  BY <2>3, <4>2
      <3>5. QED  BY <3>3, <3>4
    <2>6. QED  BY <1>1, <2>3, <2>4, <2>5 DEF RetryInStep
  <1>7. QED  BY <1>2, <1>3, <1>4, <1>5, <1>6, RetrySteps

\* Only BeginRecovery starts a recovery, and only when nothing is left to wait.
LEMMA RecoveryBegins ==
    ASSUME [Next]_vars, ~Busy, task'.todo = Recovery
    PROVE  retry.pending /\ retry.wait = 0
  <1>1. task.todo = <<>> /\ Recovery # <<>>
    BY DEF Busy, Recovery
  <1>2. task'.todo # task.todo
    BY <1>1
  <1>3. CASE UNCHANGED vars
    BY <1>2, <1>3 DEF vars
  <1>4. CASE BeginTakeover
    <2>1. task'.todo = Takeover
      BY <1>4 DEF BeginTakeover, Idle
    <2>2. Len(Takeover) = 2 /\ Len(Recovery) = 5
      BY DEF Takeover, Recovery
    <2>3. QED  BY <2>1, <2>2
  <1>5. CASE BeginRecovery
    <2>1. retry.pending /\ retry' = Requested /\ retry'.wait = 0
      BY <1>5 DEF BeginRecovery
    <2>2. QED  BY <2>1 DEF Requested
  <1>6. CASE RequestRecovery \/ Unplug \/ Replug \/ Tick
    BY <1>2, <1>6 DEF RequestRecovery, Unplug, Replug, Tick
  <1>7. CASE \E e \in ECUs : Process(e) \/ LoseRequest(e) \/ Reply(e) \/ StockFrame(e) \/ Expire(e)
    BY <1>2, <1>7 DEF Process, LoseRequest, Reply, StockFrame, Expire
  <1>8. CASE Deliver
    <2>1. \E heard : task' = [task EXCEPT !.heard = heard]
      BY <1>8 DEF Deliver
    <2>2. task'.todo = task.todo
      BY <2>1
    <2>3. QED  BY <1>2, <2>2
  <1>9. Busy \/ ~(\/ StartJob \/ SendRequest \/ Answered \/ TimesOut \/ SendSilence \/ Settle
                  \/ WatchHears \/ WatchEnds \/ FinishRecovery)
    BY DEF StartJob, SendRequest, Answered, TimesOut, SendSilence, Settle, WatchHears, WatchEnds,
           FinishRecovery, At
  <1>10. QED  BY <1>3, <1>4, <1>5, <1>6, <1>7, <1>8, <1>9, NextIsStep

\* However often recovery is requested, and however the attempts end, the attempt after the n-th
\* failure comes no sooner than 1, 2, 4, ... seconds after it, up to the cap.
THEOREM RecoveryAttemptsSpaced == Spec => AttemptsAreSpaced
  <1>1. Init => RetryInStep
    <2>1. SUFFICES ASSUME Init PROVE RetryInStep
      OBVIOUS
    <2>2. [pending |-> FALSE, failures |-> 0, delay |-> FirstDelay, wait |-> 0] \in RetryType
          /\ 0 \in 0..MaxDelay
      BY BoundFacts DEF RetryType
    <2>3. 0 + 1 = 1
      OBVIOUS
    <2>4. QED  BY <2>1, <2>2, <2>3, SpacingFacts DEF Init, RetryInStep
  <1>2. Inductive /\ RetryInStep /\ [Next]_vars => RetryInStep'
    BY RetryStepKeeps
  <1>3. ASSUME RetryInStep, [Next]_vars
        PROVE  [~Busy /\ task'.todo = Recovery /\ retry.failures > 0 =>
                  LET doubled == FirstDelay * 2^(retry.failures - 1)
                  IN  since >= IF doubled < MaxDelay THEN doubled ELSE MaxDelay]_vars
    <2>1. SUFFICES ASSUME ~Busy, task'.todo = Recovery, retry.failures > 0
                   PROVE  since >= Spacing(retry.failures)
      BY DEF Spacing
    <2>2. retry.pending /\ retry.wait = 0
      BY <1>3, <2>1, RecoveryBegins
    <2>3. since + 0 >= Spacing(retry.failures) /\ since \in 0..MaxDelay
      BY <1>3, <2>1, <2>2 DEF RetryInStep
    <2>4. since + 0 = since
      BY <2>3
    <2>5. QED  BY <2>3, <2>4
  <1>4. QED  BY <1>1, <1>2, <1>3, RecoveryInvariant, PTL DEF Spec, AttemptsAreSpaced
=============================================================================
