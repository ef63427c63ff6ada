----------------------------- MODULE TimerProofs ----------------------------
(***************************************************************************)
(* Proofs about the timer, for any set of ids, delays and intervals, any   *)
(* sleep of the thread and any length of its channel: no once job is sent  *)
(* twice, a Cancel is final, no message comes early, and the messages of a *)
(* repeat job keep their distance.                                         *)
(***************************************************************************)
EXTENDS Timer, SequenceTheorems, TLAPS

Job == OnceJob \cup RepeatJob \cup CancelJob

IsJob(j) == j.job # "Cancel"

(* The fields of a job.                                                    *)
LEMMA JobFacts ==
    ASSUME NEW j \in Job
    PROVE  /\ j.id \in Id /\ j.job \in {"Once", "Repeat", "Cancel"}
           /\ j.job = "Once" => j \in OnceJob
           /\ j.job = "Repeat" => j \in RepeatJob
           /\ IsJob(j) => j.send_in \in Nat
  BY DEF Job, OnceJob, RepeatJob, CancelJob, IsJob

(* What a tick makes of a job.                                             *)
LEMMA NearerFacts ==
    ASSUME NEW j \in Job
    PROVE  /\ Nearer(j) \in Job /\ Nearer(j).id = j.id /\ Nearer(j).job = j.job
           /\ j \in OnceJob => Nearer(j) \in OnceJob
           /\ j \in RepeatJob => Nearer(j) \in RepeatJob /\ Nearer(j).interval = j.interval
           /\ IsJob(j) => Nearer(j).send_in = Less(j.send_in)
<1>1. \A n \in Nat : Less(n) \in Nat
  BY DEF Less
<1>2. ASSUME j \in OnceJob
      PROVE  /\ Nearer(j) \in OnceJob /\ Nearer(j).id = j.id /\ Nearer(j).job = j.job
             /\ Nearer(j).send_in = Less(j.send_in)
  BY <1>1, <1>2 DEF Nearer, OnceJob
<1>3. ASSUME j \in RepeatJob
      PROVE  /\ Nearer(j) \in RepeatJob /\ Nearer(j).id = j.id /\ Nearer(j).job = j.job
             /\ Nearer(j).send_in = Less(j.send_in) /\ Nearer(j).interval = j.interval
  BY <1>1, <1>3 DEF Nearer, RepeatJob
<1>4. ASSUME j \in CancelJob
      PROVE  Nearer(j) = j /\ ~IsJob(j) /\ j \notin OnceJob /\ j \notin RepeatJob
  BY <1>4 DEF Nearer, CancelJob, IsJob, OnceJob, RepeatJob
<1>5. QED
  BY <1>2, <1>3, <1>4 DEF Job

(* The channel when a job is sent down it, taken out of it, and by a tick. *)
LEMMA ChannelAppend ==
    ASSUME NEW s \in Seq(Job), NEW job \in Job
    PROVE  /\ Append(s, job) \in Seq(Job)
           /\ Len(s) \in Nat /\ DOMAIN s = 1..Len(s)
           /\ DOMAIN Append(s, job) = 1..(Len(s) + 1)
           /\ \A n \in 1..Len(s) : Append(s, job)[n] = s[n]
           /\ Append(s, job)[Len(s) + 1] = job
  BY AppendProperties, LenProperties

(* What is left in the channel when a job is received.                     *)
LEMMA ChannelTail ==
    ASSUME NEW s \in Seq(Job), s # <<>>
    PROVE  /\ Tail(s) \in Seq(Job)
           /\ 1 \in DOMAIN s /\ Head(s) = s[1] /\ Head(s) \in Job
           /\ \A n \in DOMAIN Tail(s) :
                 n \in Nat /\ n # 0 /\ n + 1 \in DOMAIN s /\ Tail(s)[n] = s[n + 1]
<1>1. /\ Tail(s) \in Seq(Job) /\ Len(Tail(s)) = Len(s) - 1 /\ Len(s) \in Nat
      /\ \A i \in 1..Len(Tail(s)) : Tail(s)[i] = s[i + 1]
      /\ Head(s) = s[1] /\ Head(s) \in Job /\ Len(s) # 0
  BY HeadTailProperties, EmptySeq
<1>2. DOMAIN s = 1..Len(s) /\ DOMAIN Tail(s) = 1..Len(Tail(s))
  BY <1>1, LenProperties
<1>3. QED
  BY <1>1, <1>2

(* A tick brings the jobs in the channel nearer and keeps their order.     *)
LEMMA ChannelTick ==
    ASSUME NEW s \in Seq(Job)
    PROVE  /\ [n \in DOMAIN s |-> Nearer(s[n])] \in Seq(Job)
           /\ DOMAIN [n \in DOMAIN s |-> Nearer(s[n])] = DOMAIN s
           /\ \A n \in DOMAIN s : s[n] \in Job /\ n \in Nat
<1>1. Len(s) \in Nat /\ DOMAIN s = 1..Len(s) /\ \A n \in DOMAIN s : s[n] \in Job
  BY LenProperties, ElementOfSeq
<1>2. [n \in DOMAIN s |-> Nearer(s[n])] \in [1..Len(s) -> Job]
  BY <1>1, NearerFacts
<1>3. QED
  BY <1>1, <1>2, SeqDef

(* Numbers                                                                 *)
LEMMA NumberFacts ==
    /\ \A n \in Nat : Less(n) \in Nat /\ Less(n) <= n /\ n <= Less(n) + 1
    /\ \A n \in Nat : Cap(n) \in Nat /\ n <= Cap(n)
    /\ \A n \in Nat, k \in Interval : n < k => Cap(n) = n + 1
  BY DEF Less, Cap

(* A time cut to full seconds is less than a second early                  *)
(* (schedule_at_time).                                                     *)
LEMMA TruncatedFacts ==
    ASSUME subsecond \in 0..(Second - 1), NEW d \in Time
    PROVE  /\ NotPast(d) \in Nat /\ NotPast(Truncated(d)) \in Nat
           /\ NotPast(d) <= NotPast(Truncated(d)) + (Second - 1)
<1>1. Second \in Nat /\ Second > 0 /\ d \in Int /\ subsecond \in Nat
  BY TimerAssumption
<1> DEFINE x == subsecond + d
<1>2. x \in Int /\ d <= x
  BY <1>1
<1> HIDE DEF x
<1>3. /\ x \div Second \in Int /\ x % Second \in 0..(Second - 1)
      /\ x = Second * (x \div Second) + (x % Second)
  BY <1>1, <1>2
<1> DEFINE q == x \div Second
           t == q * Second
<1>4. q \in Int /\ t \in Int /\ t = Second * q
  BY <1>1, <1>3
<1>5. Truncated(d) = t
  BY DEF Truncated, x
<1> HIDE DEF q, t
<1>6. QED
  <2>1. d <= t + (Second - 1)
    BY <1>1, <1>2, <1>3, <1>4 DEF q
  <2>2. QED
    BY <1>1, <1>4, <1>5, <2>1 DEF NotPast

-----------------------------------------------------------------------------
(* Types                                                                   *)

(* A Cancel comes from cancel_schedule.                                    *)
CancelsKnown == \A n \in DOMAIN rx : ~IsJob(rx[n]) => rx[n].id \in cancelled

(* Sending counts the messages of a job, up to where counting stops.       *)
LEMMA SentType ==
    ASSUME TypeOK, NEW ids, Sent(ids)
    PROVE  /\ sent' \in [Id -> 0..3] /\ since' \in [Id -> Nat]
           /\ \A i \in Id : i \notin ids => sent'[i] = sent[i] /\ since'[i] = since[i]
           /\ \A i \in Id : i \in ids => /\ sent'[i] # 0 /\ since'[i] = 0
                                         /\ sent[i] = 0 => sent'[i] = 1
                                         /\ sent[i] # 0 => sent'[i] > 1
<1>1. /\ sent' = [i \in Id |-> IF i \notin ids THEN sent[i]
                               ELSE IF sent[i] < 3 THEN sent[i] + 1 ELSE 2]
      /\ since' = [i \in Id |-> IF i \in ids THEN 0 ELSE since[i]]
      /\ sent \in [Id -> 0..3] /\ since \in [Id -> Nat]
  BY DEF Sent, TypeOK
<1>2. QED
  BY <1>1

(* A job asked for is put last into the channel.                           *)
LEMMA AskType ==
    ASSUME TypeOK, NEW i \in Id, NEW d \in Nat, NEW job \in Job,
           NEW call \in {"schedule", "schedule_once", "schedule_at_time"},
           Ask(i, call, d, job)
    PROVE  TypeOK'
<1>1. rx' \in Seq(Job)
  BY ChannelAppend DEF Ask, TypeOK, Job
<1>2. QED
  BY <1>1 DEF Ask, TypeOK, Job, timer_vars

(* The jobs that the callers make.                                         *)
LEMMA CallTypes ==
    ASSUME TypeOK, NEW i \in Id
    PROVE  /\ \A d \in Delay : /\ d \in Nat /\ Once(i, d) \in OnceJob
                               /\ \A n \in Interval : Repeat(i, d, n) \in RepeatJob
           /\ \A d \in Time : /\ NotPast(d) \in Nat
                              /\ Once(i, NotPast(Truncated(d))) \in OnceJob
           /\ Cancel(i) \in CancelJob
  BY TruncatedFacts, TimerAssumption DEF TypeOK, Once, Repeat, Cancel, OnceJob, RepeatJob, CancelJob

(* Every step keeps the types.                                             *)
LEMMA TypeStep == TypeOK /\ CancelsKnown /\ [Next]_vars => TypeOK'
<1> SUFFICES ASSUME TypeOK, CancelsKnown, [Next]_vars
             PROVE  TypeOK'
  OBVIOUS
<1>0. /\ rx \in Seq(Job) /\ frequency \in Nat /\ Second \in Nat \ {0}
      /\ once_jobs \subseteq OnceJob /\ repeat_jobs \subseteq RepeatJob
  BY TimerAssumption DEF TypeOK, Job
<1>1. ASSUME NEW i \in Id, NEW d \in Delay,
             schedule_once(i, d) \/ \E n \in Interval : schedule(i, d, n)
      PROVE  TypeOK'
  BY <1>1, AskType, CallTypes DEF schedule_once, schedule, Job
<1>1a. ASSUME NEW i \in Id, NEW d \in Time, schedule_at_time(i, d)
       PROVE  TypeOK'
  BY <1>1a, AskType, CallTypes DEF schedule_at_time, Job
<1>2. ASSUME NEW i \in Id, cancel_schedule(i)
      PROVE  TypeOK'
  <2>1. rx' \in Seq(Job)
    BY <1>0, <1>2, ChannelAppend DEF cancel_schedule, Cancel, Job, CancelJob
  <2>2. QED
    BY <1>2, <2>1 DEF cancel_schedule, TypeOK, timer_vars, Job
<1>3. CASE execute_once_jobs
  <2>1. sent' \in [Id -> 0..3] /\ since' \in [Id -> Nat]
    BY <1>3, SentType DEF execute_once_jobs
  <2>2. QED
    BY <1>3, <2>1 DEF execute_once_jobs, TypeOK
<1>4. CASE execute_repeat_jobs
  <2>1. sent' \in [Id -> 0..3] /\ since' \in [Id -> Nat]
    BY <1>4, SentType DEF execute_repeat_jobs
  <2>2. \A j \in RepeatJob : j.interval \in Nat /\ [j EXCEPT !.send_in = j.interval] \in RepeatJob
    BY TimerAssumption DEF RepeatJob
  <2>3. repeat_jobs' \subseteq RepeatJob
    BY <1>0, <1>4, <2>2 DEF execute_repeat_jobs
  <2>4. QED
    BY <1>4, <2>1, <2>3 DEF execute_repeat_jobs, TypeOK
<1>5. ASSUME NEW job, Recv(job)
      PROVE  /\ rx' \in Seq(Job) /\ Head(rx) \in Job
             /\ pc' = "sleep" /\ sleep_in' \in 0..frequency
             /\ UNCHANGED <<subsecond, asked, wait, cancelled>>
  BY <1>0, <1>5, ChannelTail DEF Recv
<1>6. CASE cancel
  <2>1. Head(rx).id \in cancelled'
    BY <1>0, <1>5, <1>6, ChannelTail DEF cancel, Recv, CancelsKnown, IsJob
  <2>2. QED
    BY <1>0, <1>5, <1>6, <2>1 DEF cancel, TypeOK, Job
<1>7. CASE RecvOnce
  <2>1. sent' \in [Id -> 0..3] /\ since' \in [Id -> Nat]
    BY <1>7, SentType DEF RecvOnce
  <2>2. Head(rx) \in OnceJob
    BY <1>5, <1>7, JobFacts DEF RecvOnce, Recv
  <2>3. QED
    BY <1>5, <1>7, <2>1, <2>2 DEF RecvOnce, TypeOK, Job
<1>8. CASE RecvRepeat
  <2>1. sent' \in [Id -> 0..3] /\ since' \in [Id -> Nat]
    BY <1>8, SentType DEF RecvRepeat
  <2>2. Head(rx) \in RepeatJob
    BY <1>5, <1>8, JobFacts DEF RecvRepeat, Recv
  <2>3. QED
    BY <1>5, <1>8, <2>1, <2>2 DEF RecvRepeat, TypeOK, Job
<1>9. CASE RecvNothing \/ Wake
  BY <1>0, <1>9 DEF RecvNothing, Wake, TypeOK, history
<1>10. CASE Tick
  <2>1. rx' \in Seq(Job)
    BY <1>0, <1>10, ChannelTick DEF Tick
  <2>2. once_jobs' \subseteq OnceJob /\ repeat_jobs' \subseteq RepeatJob
    BY <1>0, <1>10, NearerFacts DEF Tick, Job
  <2>3. sleep_in' \in 0..frequency
    BY <1>0, <1>10 DEF Tick, Less, TypeOK
  <2>4. subsecond' \in 0..(Second - 1)
    BY <1>0, <1>10 DEF Tick, TypeOK
  <2>5. wait' \in [Id -> Nat] /\ since' \in [Id -> Nat]
    BY <1>10, NumberFacts DEF Tick, TypeOK
  <2>6. QED
    BY <1>10, <2>1, <2>2, <2>3, <2>4, <2>5 DEF Tick, TypeOK, Job
<1>11. CASE UNCHANGED vars
  BY <1>11 DEF vars, timer_vars, history, TypeOK
<1>12. QED
  BY <1>1, <1>1a, <1>2, <1>3, <1>4, <1>6, <1>7, <1>8, <1>9, <1>10, <1>11
     DEF Next, Caller, Round

(* Every step keeps that a Cancel on its way was asked for.                *)
LEMMA CancelsStep == TypeOK /\ CancelsKnown /\ [Next]_vars => CancelsKnown'
<1> SUFFICES ASSUME TypeOK, CancelsKnown, [Next]_vars
             PROVE  CancelsKnown'
  OBVIOUS
<1>0. rx \in Seq(Job)
  BY DEF TypeOK, Job
<1>1. ASSUME NEW i \in Id,
             \/ \E d \in Delay : schedule_once(i, d) \/ \E n \in Interval : schedule(i, d, n)
             \/ \E d \in Time : schedule_at_time(i, d)
      PROVE  CancelsKnown'
  <2>1. PICK job \in Job : IsJob(job) /\ rx' = Append(rx, job) /\ cancelled' = cancelled
    BY <1>1, CallTypes DEF schedule_once, schedule_at_time, schedule, Ask, IsJob, Once, Repeat, Job
  <2>2. QED
    BY <1>0, <2>1, ChannelAppend DEF CancelsKnown
<1>2. ASSUME NEW i \in Id, cancel_schedule(i)
      PROVE  CancelsKnown'
  <2>1. Cancel(i) \in Job /\ Cancel(i).id = i
    BY DEF Cancel, Job, CancelJob
  <2>2. QED
    BY <1>0, <1>2, <2>1, ChannelAppend DEF cancel_schedule, CancelsKnown
<1>3. ASSUME NEW job, Recv(job)
      PROVE  CancelsKnown'
  BY <1>0, <1>3, ChannelTail DEF Recv, CancelsKnown
<1>4. CASE Tick
  BY <1>0, <1>4, ChannelTick, NearerFacts DEF Tick, CancelsKnown, IsJob
<1>5. CASE UNCHANGED <<rx, cancelled>>
  BY <1>5 DEF CancelsKnown
<1>6. QED
  BY <1>1, <1>2, <1>3, <1>4, <1>5
     DEF Next, Caller, Round, execute_once_jobs, execute_repeat_jobs, cancel, RecvOnce,
         RecvRepeat, RecvNothing, Wake, vars, history

(* Both hold at first.                                                     *)
LEMMA TypeInit == Init => TypeOK /\ CancelsKnown
  BY TimerAssumption DEF Init, TypeOK, CancelsKnown

(* Each Vec holds jobs of its own kind, the channel holds jobs and the     *)
(* thread forgets only what a caller cancelled (timer.rs, the job types).  *)
THEOREM TimerTypeOK == Spec => []TypeOK
  BY TypeInit, TypeStep, CancelsStep, PTL DEF Spec

-----------------------------------------------------------------------------
(* Where the jobs are.  An id has one job at most, and its Cancel comes    *)
(* after it in the channel.                                                *)
ChannelOK ==
    /\ \A m, n \in DOMAIN rx :
          (IsJob(rx[m]) /\ IsJob(rx[n]) /\ rx[m].id = rx[n].id) => m = n
    /\ \A m, n \in DOMAIN rx :
          (IsJob(rx[m]) /\ ~IsJob(rx[n]) /\ rx[m].id = rx[n].id) => m < n

(* The job is of the kind that its caller asked for.                       *)
KindOK(j) == /\ j.job = "Once" => AskedOnce(j.id)
             /\ j.job = "Repeat" => asked[j.id] = "schedule"

(* A job on its way is in neither Vec and has not been sent.               *)
FreshOK ==
    \A n \in DOMAIN rx : IsJob(rx[n]) =>
        /\ KindOK(rx[n]) /\ sent[rx[n].id] = 0
        /\ rx[n].id \notin Ids(once_jobs) /\ rx[n].id \notin Ids(repeat_jobs)

VecsOK ==
    /\ \A j, k \in once_jobs : j.id = k.id => j = k
    /\ \A j, k \in repeat_jobs : j.id = k.id => j = k
    /\ \A j \in once_jobs : KindOK(j) /\ sent[j.id] = 0
    /\ \A j \in repeat_jobs : KindOK(j)

(* Nothing is sent or cancelled before it is asked for.                    *)
AskedFirst == \A i \in Id : asked[i] = "nothing" => sent[i] = 0 /\ i \notin cancelled

JobsInv == /\ TypeOK /\ CancelsKnown
           /\ ChannelOK /\ FreshOK /\ VecsOK /\ AskedFirst
           /\ OnceAtMostOnce /\ CancelIsFinal

(* A call of one of the three schedule functions.                          *)
Asks(i, job) ==
    /\ IsJob(job) /\ job.id = i
    /\ asked[i] = "nothing"
    /\ asked' \in [Id -> {"nothing", "schedule", "schedule_once", "schedule_at_time"}]
    /\ \A k \in Id : k # i => asked'[k] = asked[k] /\ wait'[k] = wait[k]
    /\ KindOK(job)' /\ asked'[i] # "nothing"
    /\ wait'[i] <= job.send_in + (IF asked'[i] = "schedule_at_time" THEN Second - 1 ELSE 0)
    /\ rx' = Append(rx, job)
    /\ UNCHANGED <<timer_vars, since, sent, cancelled, forgotten>>

(* A caller cancels a job, or asks for a new one.                          *)
LEMMA CallerShape ==
    ASSUME TypeOK, Caller
    PROVE  \/ \E i \in Id : cancel_schedule(i)
           \/ \E i \in Id, job \in OnceJob \cup RepeatJob : Asks(i, job)
<1>1. ASSUME NEW i \in Id, NEW d \in Nat, NEW job \in OnceJob \cup RepeatJob,
             NEW call \in {"schedule", "schedule_once", "schedule_at_time"},
             job.id = i, (call = "schedule") <=> (job.job = "Repeat"),
             d <= job.send_in + (IF call = "schedule_at_time" THEN Second - 1 ELSE 0),
             Ask(i, call, d, job)
      PROVE  Asks(i, job)
  <2>1. IsJob(job) /\ job.job \in {"Once", "Repeat"}
    BY DEF IsJob, OnceJob, RepeatJob
  <2>2. /\ asked' = [asked EXCEPT ![i] = call] /\ wait' = [wait EXCEPT ![i] = d]
        /\ asked \in [Id -> {"nothing", "schedule", "schedule_once", "schedule_at_time"}]
        /\ wait \in [Id -> Nat]
    BY <1>1 DEF Ask, TypeOK
  <2>3. /\ asked' \in [Id -> {"nothing", "schedule", "schedule_once", "schedule_at_time"}]
        /\ \A k \in Id : k # i => asked'[k] = asked[k] /\ wait'[k] = wait[k]
        /\ asked'[i] = call /\ wait'[i] = d
    BY <2>2
  <2>4. KindOK(job)'
    BY <1>1, <2>1, <2>3 DEF KindOK, AskedOnce
  <2>5. QED
    BY <1>1, <2>1, <2>3, <2>4 DEF Asks, Ask
<1>2. ASSUME NEW i \in Id, NEW d \in Delay, schedule_once(i, d)
      PROVE  \E job \in OnceJob \cup RepeatJob : Asks(i, job)
  <2>1. /\ Once(i, d) \in OnceJob /\ d \in Nat
        /\ Once(i, d).id = i /\ Once(i, d).job = "Once" /\ Once(i, d).send_in = d
    BY CallTypes DEF Once
  <2>2. Asks(i, Once(i, d))
    BY <1>1, <1>2, <2>1 DEF schedule_once
  <2>3. QED
    BY <2>1, <2>2
<1>3. ASSUME NEW i \in Id, NEW d \in Time, schedule_at_time(i, d)
      PROVE  \E job \in OnceJob \cup RepeatJob : Asks(i, job)
  <2> DEFINE job == Once(i, NotPast(Truncated(d)))
             e == NotPast(d)
  <2>1. /\ job \in OnceJob /\ e \in Nat /\ e <= job.send_in + (Second - 1)
        /\ job.id = i /\ job.job = "Once"
    BY CallTypes, TruncatedFacts DEF Once, TypeOK
  <2>2. Ask(i, "schedule_at_time", e, job)
    BY <1>3 DEF schedule_at_time
  <2> HIDE DEF job, e
  <2>3. Asks(i, job)
    BY <1>1, <2>1, <2>2
  <2>4. QED
    BY <2>1, <2>3
<1>4. ASSUME NEW i \in Id, NEW d \in Delay, NEW n \in Interval, schedule(i, d, n)
      PROVE  \E job \in OnceJob \cup RepeatJob : Asks(i, job)
  <2>1. /\ Repeat(i, d, n) \in RepeatJob /\ d \in Nat
        /\ Repeat(i, d, n).id = i /\ Repeat(i, d, n).job = "Repeat"
        /\ Repeat(i, d, n).send_in = d
    BY CallTypes DEF Repeat
  <2>2. Asks(i, Repeat(i, d, n))
    BY <1>1, <1>4, <2>1 DEF schedule
  <2>3. QED
    BY <2>1, <2>2
<1>5. QED
  BY <1>2, <1>3, <1>4 DEF Caller

(* The id of a new job is in no queue and no Vec.                          *)
LEMMA NewId ==
    ASSUME JobsInv, NEW i \in Id, asked[i] = "nothing"
    PROVE  /\ \A n \in DOMAIN rx : rx[n].id # i
           /\ i \notin Ids(once_jobs) /\ i \notin Ids(repeat_jobs)
           /\ i \notin cancelled /\ i \notin forgotten /\ sent[i] = 0
<1>1. rx \in Seq(Job) /\ once_jobs \subseteq OnceJob /\ repeat_jobs \subseteq RepeatJob
      /\ forgotten \subseteq cancelled
  BY DEF JobsInv, TypeOK, Job
<1>2. i \notin cancelled /\ sent[i] = 0
  BY DEF JobsInv, AskedFirst
<1>3. ASSUME NEW n \in DOMAIN rx, rx[n].id = i
      PROVE  FALSE
  <2>1. rx[n] \in Job
    BY <1>1, ChannelTick
  <2>2. IsJob(rx[n])
    BY <1>2, <1>3 DEF JobsInv, CancelsKnown
  <2>3. KindOK(rx[n]) /\ rx[n].job \in {"Once", "Repeat"}
    BY <2>1, <2>2, JobFacts DEF JobsInv, FreshOK, IsJob
  <2>4. QED
    BY <1>3, <2>3 DEF KindOK, AskedOnce
<1>4. \A j \in once_jobs \cup repeat_jobs : j.id # i
  BY <1>1 DEF JobsInv, VecsOK, KindOK, AskedOnce, OnceJob, RepeatJob
<1>5. QED
  BY <1>1, <1>2, <1>3, <1>4 DEF Ids

(* The types and the invariants of what the thread takes out.              *)
LEMMA HeadFacts ==
    ASSUME JobsInv, NEW job, Recv(job)
    PROVE  /\ Head(rx) \in Job /\ Head(rx).id \in Id /\ Head(rx).job = job
           /\ rx' = Tail(rx) /\ Head(rx) = rx[1] /\ 1 \in DOMAIN rx
           /\ \A n \in DOMAIN rx' :
                 /\ n \in Nat /\ n # 0 /\ n + 1 \in DOMAIN rx /\ n + 1 # 1
                 /\ rx'[n] = rx[n + 1] /\ rx'[n] \in Job
           /\ job # "Cancel" => /\ IsJob(Head(rx)) /\ KindOK(Head(rx)) /\ sent[Head(rx).id] = 0
                                /\ Head(rx).id \notin Ids(once_jobs)
                                /\ Head(rx).id \notin Ids(repeat_jobs)
           /\ UNCHANGED <<subsecond, asked, wait, cancelled>>
<1>1. rx \in Seq(Job) /\ rx # <<>> /\ rx' = Tail(rx) /\ Head(rx).job = job
  BY DEF JobsInv, TypeOK, Job, Recv
<1>2. /\ Head(rx) = rx[1] /\ 1 \in DOMAIN rx /\ Head(rx) \in Job /\ Tail(rx) \in Seq(Job)
      /\ \A n \in DOMAIN Tail(rx) :
            n \in Nat /\ n # 0 /\ n + 1 \in DOMAIN rx /\ Tail(rx)[n] = rx[n + 1]
  BY <1>1, ChannelTail
<1>3. \A n \in DOMAIN rx' : rx'[n] \in Job /\ n + 1 # 1
  BY <1>1, <1>2, ChannelTick
<1>4. QED
  BY <1>1, <1>2, <1>3, JobFacts DEF Recv, JobsInv, FreshOK, IsJob

(* What the thread sends: jobs that are due, for calls that were made, and *)
(* of a once job nothing was sent before.                                  *)
Sendable(i) ==
    /\ i \in Id /\ asked[i] # "nothing"
    /\ AskedOnce(i) => sent[i] = 0

DueJob(i) ==
    \E j \in Job :
        /\ j.id = i /\ j.send_in = 0 /\ IsJob(j)
        /\ j \in once_jobs \/ j \in repeat_jobs \/ (rx # <<>> /\ j = Head(rx))

(* A round of the thread asks for nothing, and sends only jobs that it     *)
(* holds or receives.                                                      *)
LEMMA Senders ==
    ASSUME JobsInv, Round
    PROVE  /\ UNCHANGED <<asked, wait, cancelled>>
           /\ \/ UNCHANGED <<sent, since>>
              \/ \E ids : Sent(ids) /\ \A i \in ids : Sendable(i) /\ DueJob(i)
<1>0. /\ once_jobs \subseteq OnceJob /\ repeat_jobs \subseteq RepeatJob
      /\ once_jobs \subseteq Job /\ repeat_jobs \subseteq Job
  BY DEF JobsInv, TypeOK, Job
<1>1. CASE execute_once_jobs
  <2>1. \A i \in Ids(Due(once_jobs)) : Sendable(i) /\ DueJob(i)
    BY <1>0 DEF Ids, Due, Sendable, DueJob, IsJob, JobsInv, VecsOK, KindOK, AskedOnce, OnceJob
  <2>2. QED
    BY <1>1, <2>1 DEF execute_once_jobs
<1>2. CASE execute_repeat_jobs
  <2>1. \A i \in Ids(Due(repeat_jobs)) : Sendable(i) /\ DueJob(i)
    BY <1>0 DEF Ids, Due, Sendable, DueJob, IsJob, JobsInv, VecsOK, KindOK, AskedOnce, RepeatJob
  <2>2. QED
    BY <1>2, <2>1 DEF execute_repeat_jobs
<1>3. ASSUME NEW job \in {"Once", "Repeat"}, Recv(job), Sent(Ids(Due({Head(rx)})))
      PROVE  /\ UNCHANGED <<asked, wait, cancelled>>
             /\ \E ids : Sent(ids) /\ \A i \in ids : Sendable(i) /\ DueJob(i)
  <2>1. /\ Head(rx).id \in Id /\ KindOK(Head(rx)) /\ Head(rx).job = job
        /\ Head(rx) \in Job /\ rx # <<>> /\ IsJob(Head(rx))
        /\ sent[Head(rx).id] = 0 /\ UNCHANGED <<asked, wait, cancelled>>
    BY <1>3, HeadFacts DEF Recv
  <2>2. \A i \in Ids(Due({Head(rx)})) : Sendable(i) /\ DueJob(i)
    BY <2>1 DEF Ids, Due, Sendable, DueJob, KindOK, AskedOnce
  <2>3. QED
    BY <1>3, <2>1, <2>2
<1>4. CASE cancel
  BY <1>4 DEF cancel, Recv
<1>5. CASE RecvNothing \/ Wake
  BY <1>5 DEF RecvNothing, Wake, history
<1>6. QED
  BY <1>1, <1>2, <1>3, <1>4, <1>5 DEF Round, RecvOnce, RecvRepeat

(* Every step keeps that only jobs asked for are sent, and once ones once. *)
LEMMA AskedFirstStep == JobsInv /\ [Next]_vars => AskedFirst' /\ OnceAtMostOnce'
<1> SUFFICES ASSUME JobsInv, [Next]_vars
             PROVE  AskedFirst' /\ OnceAtMostOnce'
  OBVIOUS
<1>0. TypeOK /\ AskedFirst /\ OnceAtMostOnce
      /\ sent \in [Id -> 0..3]
  BY DEF JobsInv, TypeOK
<1>1. ASSUME NEW i \in Id, cancel_schedule(i)
      PROVE  AskedFirst' /\ OnceAtMostOnce'
  BY <1>0, <1>1 DEF cancel_schedule, AskedFirst, OnceAtMostOnce, AskedOnce
<1>2. ASSUME NEW i \in Id, NEW job, Asks(i, job)
      PROVE  AskedFirst' /\ OnceAtMostOnce'
  <2>1. sent[i] = 0 /\ sent' = sent /\ cancelled' = cancelled /\ asked'[i] # "nothing"
        /\ \A k \in Id : k # i => asked'[k] = asked[k]
    BY <1>2, NewId DEF Asks
  <2>2. QED
    BY <1>0, <2>1 DEF AskedFirst, OnceAtMostOnce, AskedOnce
<1>3. CASE UNCHANGED <<asked, sent, cancelled>>
  BY <1>0, <1>3 DEF AskedFirst, OnceAtMostOnce, AskedOnce
<1>4. ASSUME NEW ids, Sent(ids), \A i \in ids : Sendable(i), UNCHANGED <<asked, cancelled>>
      PROVE  AskedFirst' /\ OnceAtMostOnce'
  <2>1. /\ \A i \in Id : i \notin ids => sent'[i] = sent[i]
        /\ \A i \in Id : i \in ids /\ sent[i] = 0 => sent'[i] = 1
    BY <1>0, <1>4, SentType
  <2>2. QED
    BY <1>0, <1>4, <2>1 DEF AskedFirst, OnceAtMostOnce, AskedOnce, Sendable
<1>5. CASE Round
  BY <1>3, <1>4, <1>5, Senders
<1>6. CASE Caller
  BY <1>0, <1>1, <1>2, <1>6, CallerShape
<1>7. CASE Tick \/ UNCHANGED vars
  BY <1>3, <1>7 DEF Tick, vars, history
<1>8. QED
  BY <1>5, <1>6, <1>7 DEF Next

(* Every step keeps one job per id in the channel, its Cancel behind it.   *)
LEMMA ChannelStep == JobsInv /\ [Next]_vars => ChannelOK'
<1> SUFFICES ASSUME JobsInv, [Next]_vars
             PROVE  ChannelOK'
  OBVIOUS
<1>0. TypeOK /\ ChannelOK /\ rx \in Seq(Job)
  BY DEF JobsInv, TypeOK, Job
<1>1. CASE rx' = rx
  BY <1>0, <1>1 DEF ChannelOK
<1>2. ASSUME NEW i \in Id, cancel_schedule(i)
      PROVE  ChannelOK'
  <2>1. Cancel(i) \in Job /\ ~IsJob(Cancel(i)) /\ rx' = Append(rx, Cancel(i))
    BY <1>2 DEF cancel_schedule, Cancel, Job, CancelJob, IsJob
  <2>2. QED
    BY <1>0, <2>1, ChannelAppend DEF ChannelOK
<1>3. ASSUME NEW i \in Id, NEW job \in OnceJob \cup RepeatJob, Asks(i, job)
      PROVE  ChannelOK'
  <2>1. /\ job \in Job /\ IsJob(job) /\ job.id = i /\ rx' = Append(rx, job)
        /\ \A n \in DOMAIN rx : rx[n].id # i
    BY <1>3, NewId DEF Asks, Job
  <2>2. QED
    BY <1>0, <2>1, ChannelAppend DEF ChannelOK
<1>4. ASSUME NEW job, Recv(job)
      PROVE  ChannelOK'
  <2>1. \A n \in DOMAIN rx' : n \in Nat /\ n + 1 \in DOMAIN rx /\ rx'[n] = rx[n + 1]
    BY <1>4, HeadFacts
  <2>2. QED
    BY <1>0, <2>1 DEF ChannelOK
<1>5. CASE Tick
  <2>1. /\ DOMAIN rx' = DOMAIN rx
        /\ \A n \in DOMAIN rx : rx'[n].id = rx[n].id /\ rx'[n].job = rx[n].job
    BY <1>0, <1>5, ChannelTick, NearerFacts DEF Tick
  <2>2. QED
    BY <1>0, <2>1 DEF ChannelOK, IsJob
<1>6. CASE Caller
  BY <1>0, <1>2, <1>3, <1>6, CallerShape
<1>7. QED
  BY <1>1, <1>4, <1>5, <1>6
     DEF Next, Round, execute_once_jobs, execute_repeat_jobs, cancel, RecvOnce, RecvRepeat,
         RecvNothing, Wake, vars

(* The ids in a Vec when time passes or the due jobs are moved on.         *)
Moved(j) == IF j.send_in = 0 THEN [j EXCEPT !.send_in = j.interval] ELSE j

(* A repeat job moved on by its interval is the same job.                  *)
LEMMA MovedFacts ==
    ASSUME NEW j \in RepeatJob
    PROVE  /\ Moved(j) \in RepeatJob /\ Moved(j).id = j.id /\ Moved(j).job = j.job
           /\ Moved(j).interval = j.interval /\ j.interval \in Nat
           /\ Moved(j).send_in = IF j.send_in = 0 THEN j.interval ELSE j.send_in
  BY TimerAssumption DEF Moved, RepeatJob

(* A tick keeps the jobs in a Vec.                                         *)
LEMMA NearerIds ==
    ASSUME NEW jobs \in SUBSET Job
    PROVE  Ids({Nearer(j) : j \in jobs}) = Ids(jobs)
  BY NearerFacts DEF Ids

(* Moving jobs on keeps them in their Vec.                                 *)
LEMMA MovedIds ==
    ASSUME NEW jobs \in SUBSET RepeatJob
    PROVE  Ids({Moved(j) : j \in jobs}) = Ids(jobs)
  BY MovedFacts DEF Ids

(* No step but the arrival of a job puts an id into a Vec.                 *)
LEMMA VecIds ==
    ASSUME JobsInv, [Next]_vars, NEW i
    PROVE  /\ i \in Ids(once_jobs') \/ i \in Ids(repeat_jobs')
              => \/ i \in Ids(once_jobs) \/ i \in Ids(repeat_jobs)
                 \/ /\ rx # <<>> /\ IsJob(Head(rx)) /\ i = Head(rx).id /\ rx' = Tail(rx)
                    /\ forgotten' = forgotten
<1>0. /\ rx \in Seq(Job) /\ once_jobs \subseteq Job /\ repeat_jobs \subseteq Job
      /\ repeat_jobs \subseteq RepeatJob
  BY DEF JobsInv, TypeOK, Job
<1>1. CASE UNCHANGED <<once_jobs, repeat_jobs>>
  BY <1>1
<1>2. CASE execute_once_jobs
  BY <1>2 DEF execute_once_jobs, Ids, Due
<1>3. CASE execute_repeat_jobs
  <2>1. repeat_jobs' = {Moved(j) : j \in repeat_jobs} /\ once_jobs' = once_jobs
    BY <1>3 DEF execute_repeat_jobs, Moved
  <2>2. QED
    BY <1>0, <2>1, MovedIds
<1>4. CASE cancel
  BY <1>4 DEF cancel, Ids
<1>5. CASE RecvOnce
  BY <1>5, HeadFacts DEF RecvOnce, Recv, Ids
<1>6. CASE RecvRepeat
  BY <1>6, HeadFacts DEF RecvRepeat, Recv, Ids
<1>7. CASE Tick
  BY <1>0, <1>7, NearerIds DEF Tick
<1>8. QED
  BY <1>1, <1>2, <1>3, <1>4, <1>5, <1>6, <1>7
     DEF Next, Caller, Round, schedule_once, schedule_at_time, schedule, Ask, cancel_schedule,
         RecvNothing, Wake, vars, timer_vars

(* A Cancel finds all there is of its job: what is not in a Vec has been   *)
(* sent or cancelled, for the job came before its Cancel.                  *)
LEMMA FinalStep == JobsInv /\ [Next]_vars => CancelIsFinal'
<1> SUFFICES ASSUME JobsInv, [Next]_vars, NEW i \in forgotten', Pending(i)'
             PROVE  FALSE
  BY DEF CancelIsFinal
<1>0. TypeOK /\ rx \in Seq(Job) /\ CancelIsFinal /\ i \in Id /\ forgotten \subseteq Id
  BY TypeStep DEF JobsInv, TypeOK, Job
<1>1. InChannel(i)' \/ i \in Ids(once_jobs') \/ i \in Ids(repeat_jobs')
  BY DEF Pending, Ids
<1>2. i \in Ids(once_jobs) \/ i \in Ids(repeat_jobs) => Pending(i)
  BY DEF Pending, Ids
<1>3. ASSUME i \in Ids(once_jobs') \/ i \in Ids(repeat_jobs'), forgotten' = forgotten
      PROVE  FALSE
  <2>1. CASE rx # <<>> /\ IsJob(Head(rx)) /\ i = Head(rx).id
    BY <1>0, <1>3, <2>1, ChannelTail DEF CancelIsFinal, Pending, InChannel, IsJob
  <2>2. QED
    BY <1>0, <1>2, <1>3, <2>1, VecIds DEF CancelIsFinal
<1>4. ASSUME InChannel(i)', forgotten' = forgotten
      PROVE  FALSE
  <2>1. ~InChannel(i)
    BY <1>0, <1>4 DEF CancelIsFinal, Pending
  <2>2. PICK n \in DOMAIN rx' : IsJob(rx'[n]) /\ rx'[n].id = i
    BY <1>4 DEF InChannel, IsJob
  <2>3. CASE rx' = rx
    BY <2>1, <2>2, <2>3 DEF InChannel, IsJob
  <2>4. ASSUME NEW k \in Id, cancel_schedule(k)
        PROVE  FALSE
    <3>1. Cancel(k) \in Job /\ ~IsJob(Cancel(k)) /\ rx' = Append(rx, Cancel(k))
      BY <2>4 DEF cancel_schedule, Cancel, Job, CancelJob, IsJob
    <3>2. QED
      BY <1>0, <2>1, <2>2, <3>1, ChannelAppend DEF InChannel, IsJob
  <2>5. ASSUME NEW k \in Id, NEW job \in OnceJob \cup RepeatJob, Asks(k, job)
        PROVE  FALSE
    <3>1. /\ job \in Job /\ job.id = k /\ rx' = Append(rx, job) /\ k \notin forgotten
      BY <2>5, NewId DEF Asks, Job
    <3>2. QED
      BY <1>0, <1>4, <2>1, <2>2, <3>1, ChannelAppend DEF InChannel, IsJob
  <2>6. ASSUME NEW job, Recv(job)
        PROVE  FALSE
    BY <2>1, <2>2, <2>6, HeadFacts DEF InChannel, IsJob
  <2>7. CASE Tick
    BY <1>0, <2>1, <2>2, <2>7, ChannelTick, NearerFacts DEF Tick, InChannel, IsJob
  <2>8. CASE Caller
    BY <1>0, <2>4, <2>5, <2>8, CallerShape
  <2>9. QED
    BY <2>3, <2>6, <2>7, <2>8
       DEF Next, Round, execute_once_jobs, execute_repeat_jobs, cancel, RecvOnce, RecvRepeat,
           RecvNothing, Wake, vars
<1>5. ASSUME cancel
      PROVE  FALSE
  <2>1. /\ Recv("Cancel") /\ forgotten' = forgotten \cup {Head(rx).id}
        /\ once_jobs' = {j \in once_jobs : j.id # Head(rx).id}
        /\ repeat_jobs' = {j \in repeat_jobs : j.id # Head(rx).id}
    BY <1>5 DEF cancel
  <2>2. /\ Head(rx).job = "Cancel" /\ Head(rx) = rx[1] /\ 1 \in DOMAIN rx
        /\ \A n \in DOMAIN rx' : n \in Nat /\ n # 0 /\ n + 1 \in DOMAIN rx /\ rx'[n] = rx[n + 1]
    BY <2>1, HeadFacts
  <2>3. CASE i = Head(rx).id
    <3>1. ~InChannel(i)'
      BY <2>2, <2>3 DEF InChannel, JobsInv, ChannelOK, IsJob
    <3>2. i \notin Ids(once_jobs') /\ i \notin Ids(repeat_jobs')
      BY <2>1, <2>3 DEF Ids
    <3>3. QED
      BY <1>1, <3>1, <3>2
  <2>4. CASE i \in forgotten
    <3>1. ~InChannel(i)'
      BY <1>0, <2>2, <2>4 DEF InChannel, CancelIsFinal, Pending
    <3>2. i \notin Ids(once_jobs') /\ i \notin Ids(repeat_jobs')
      BY <1>0, <1>2, <2>1, <2>4 DEF Ids, CancelIsFinal
    <3>3. QED
      BY <1>1, <3>1, <3>2
  <2>5. QED
    BY <2>1, <2>3, <2>4
<1>6. CASE forgotten' = forgotten
  BY <1>1, <1>3, <1>4, <1>6
<1>7. QED
  BY <1>5, <1>6
     DEF Next, Caller, Round, schedule_once, schedule_at_time, schedule, Ask, cancel_schedule,
         execute_once_jobs, execute_repeat_jobs, RecvOnce, RecvRepeat, RecvNothing, Wake, Tick,
         vars, history

(* A send of one job touches no job of another id.                         *)
LEMMA SentHead ==
    ASSUME JobsInv, NEW job \in {"Once", "Repeat"}, Recv(job), Sent(Ids(Due({Head(rx)})))
    PROVE  /\ \A i \in Id : i # Head(rx).id => sent'[i] = sent[i] /\ since'[i] = since[i]
           /\ Head(rx).send_in # 0 => sent'[Head(rx).id] = 0
           /\ Head(rx).send_in = 0 => sent'[Head(rx).id] = 1 /\ since'[Head(rx).id] = 0
<1>1. Head(rx).id \in Id /\ sent[Head(rx).id] = 0 /\ TypeOK
  BY HeadFacts DEF JobsInv
<1>2. Ids(Due({Head(rx)})) = IF Head(rx).send_in = 0 THEN {Head(rx).id} ELSE {}
  BY DEF Ids, Due
<1>3. QED
  BY <1>1, <1>2, SentType

(* Every step keeps that a job on its way is not in a Vec and has sent     *)
(* nothing.                                                                *)
LEMMA FreshStep == JobsInv /\ [Next]_vars => FreshOK'
<1> SUFFICES ASSUME JobsInv, [Next]_vars, NEW n \in DOMAIN rx', IsJob(rx'[n])
             PROVE  /\ KindOK(rx[n])' /\ sent'[rx'[n].id] = 0
                    /\ rx'[n].id \notin Ids(once_jobs') /\ rx'[n].id \notin Ids(repeat_jobs')
  BY DEF FreshOK
<1>0. TypeOK /\ rx \in Seq(Job) /\ rx' \in Seq(Job) /\ rx'[n] \in Job /\ rx'[n].id \in Id
  <2>1. TypeOK' /\ TypeOK
    BY TypeStep DEF JobsInv
  <2>2. rx' \in Seq(Job) /\ rx \in Seq(Job)
    BY <2>1 DEF TypeOK, Job
  <2>3. QED
    BY <2>1, <2>2, ChannelTick, JobFacts
<1> DEFINE i == rx'[n].id
           Goal == /\ KindOK(rx[n])' /\ sent'[i] = 0
                   /\ i \notin Ids(once_jobs') /\ i \notin Ids(repeat_jobs')
(* a job that was in the channel before, at m, and not at the head if that *)
(* is taken out                                                            *)
<1>1. ASSUME NEW m \in DOMAIN rx, IsJob(rx[m]), rx[m].id = i, rx[m].job = rx'[n].job,
             asked'[i] = asked[i], sent'[i] = sent[i], rx' = Tail(rx) => m # 1
      PROVE  Goal
  <2>1. /\ KindOK(rx[m]) /\ sent[i] = 0
        /\ i \notin Ids(once_jobs) /\ i \notin Ids(repeat_jobs)
    BY <1>1 DEF JobsInv, FreshOK
  <2>2. KindOK(rx[n])'
    BY <1>1, <2>1 DEF KindOK, AskedOnce
  <2>3. ASSUME rx # <<>>, IsJob(Head(rx)), i = Head(rx).id, rx' = Tail(rx)
        PROVE  FALSE
    BY <1>0, <1>1, <2>3, ChannelTail DEF JobsInv, ChannelOK
  <2>4. i \notin Ids(once_jobs') /\ i \notin Ids(repeat_jobs')
    BY <2>1, <2>3, VecIds
  <2>5. QED
    BY <1>1, <2>1, <2>2, <2>4
<1>2. ASSUME rx' = rx, asked' = asked, sent'[i] = sent[i]
      PROVE  Goal
  <2>1. rx # <<>> => rx' # Tail(rx)
    <3>1. ASSUME rx # <<>> PROVE Len(Tail(rx)) # Len(rx)
      BY <1>0, <3>1, HeadTailProperties
    <3>2. QED
      BY <1>2, <3>1
  <2>2. n \in DOMAIN rx /\ rx # <<>>
    BY <1>2
  <2>3. QED
    BY <1>1, <1>2, <2>1, <2>2
<1>3. ASSUME NEW k \in Id, cancel_schedule(k)
      PROVE  Goal
  <2>1. /\ Cancel(k) \in Job /\ ~IsJob(Cancel(k)) /\ rx' = Append(rx, Cancel(k))
        /\ UNCHANGED <<asked, sent>>
    BY <1>3 DEF cancel_schedule, Cancel, Job, CancelJob, IsJob
  <2>2. n \in DOMAIN rx /\ rx'[n] = rx[n]
    BY <1>0, <2>1, ChannelAppend
  <2>3. rx' # Tail(rx) \/ n # 1
    <3>1. Len(rx') = Len(rx) + 1 /\ Len(rx) \in Nat
      BY <1>0, <2>1, AppendProperties
    <3>2. rx # <<>> => Len(Tail(rx)) = Len(rx) - 1
      BY <1>0, HeadTailProperties
    <3>3. rx # <<>>
      BY <2>2
    <3>4. QED
      BY <3>1, <3>2, <3>3
  <2>4. QED
    BY <1>1, <2>1, <2>2, <2>3
<1>4. ASSUME NEW k \in Id, NEW job \in OnceJob \cup RepeatJob, Asks(k, job)
      PROVE  Goal
  <2>1. /\ job \in Job /\ IsJob(job) /\ job.id = k /\ rx' = Append(rx, job)
        /\ \A l \in Id : l # k => asked'[l] = asked[l]
        /\ UNCHANGED <<sent, once_jobs, repeat_jobs>> /\ KindOK(job)'
        /\ k \notin Ids(once_jobs) /\ k \notin Ids(repeat_jobs) /\ sent[k] = 0
        /\ \A m \in DOMAIN rx : rx[m].id # k
    BY <1>4, NewId DEF Asks, Job, timer_vars
  <2>2. CASE rx'[n] = job
    BY <2>1, <2>2 DEF KindOK, AskedOnce
  <2>3. CASE n \in DOMAIN rx /\ rx'[n] = rx[n]
    <3>1. /\ KindOK(rx[n]) /\ sent[i] = 0 /\ i # k
          /\ i \notin Ids(once_jobs) /\ i \notin Ids(repeat_jobs)
      BY <2>1, <2>3 DEF JobsInv, FreshOK
    <3>2. QED
      BY <1>0, <2>1, <2>3, <3>1 DEF KindOK, AskedOnce
  <2>4. QED
    BY <1>0, <2>1, <2>2, <2>3, ChannelAppend
<1>5. ASSUME NEW job \in {"Once", "Repeat", "Cancel"}, Recv(job),
             job = "Cancel" => UNCHANGED sent,
             job # "Cancel" => Sent(Ids(Due({Head(rx)})))
      PROVE  Goal
  <2>1. /\ Head(rx) = rx[1] /\ 1 \in DOMAIN rx /\ n + 1 \in DOMAIN rx /\ n + 1 # 1
        /\ rx'[n] = rx[n + 1] /\ asked' = asked /\ rx' = Tail(rx)
        /\ job # "Cancel" => IsJob(Head(rx))
    BY <1>5, HeadFacts
  <2>2. job # "Cancel" => i # Head(rx).id
    BY <2>1 DEF JobsInv, ChannelOK
  <2>3. sent'[i] = sent[i]
    BY <1>0, <1>5, <2>2, SentHead
  <2>4. QED
    BY <1>1, <2>1, <2>3
<1>6. ASSUME execute_once_jobs \/ execute_repeat_jobs
      PROVE  Goal
  <2>1. PICK jobs \in {once_jobs, repeat_jobs} : Sent(Ids(Due(jobs)))
    BY <1>6 DEF execute_once_jobs, execute_repeat_jobs
  <2>2. rx' = rx /\ asked' = asked
    BY <1>6 DEF execute_once_jobs, execute_repeat_jobs
  <2>3. i \notin Ids(jobs)
    BY <2>2 DEF JobsInv, FreshOK
  <2>4. i \notin Ids(Due(jobs))
    BY <2>3 DEF Ids, Due
  <2>5. sent'[i] = sent[i]
    BY <1>0, <2>1, <2>4, SentType
  <2>6. QED
    BY <1>2, <2>2, <2>5
<1>7. CASE Tick
  <2>1. /\ DOMAIN rx' = DOMAIN rx /\ UNCHANGED <<asked, sent>>
        /\ rx'[n].id = rx[n].id /\ rx'[n].job = rx[n].job
    BY <1>0, <1>7, ChannelTick, NearerFacts DEF Tick
  <2>2. once_jobs' = {Nearer(j) : j \in once_jobs} /\ repeat_jobs' = {Nearer(j) : j \in repeat_jobs}
    BY <1>7 DEF Tick
  <2>3. Ids(once_jobs') = Ids(once_jobs) /\ Ids(repeat_jobs') = Ids(repeat_jobs)
    BY <1>0, <2>2, NearerIds DEF TypeOK, Job
  <2>4. QED
    BY <2>1, <2>3 DEF JobsInv, FreshOK, KindOK, AskedOnce, IsJob
<1>8. CASE Caller
  BY <1>0, <1>3, <1>4, <1>8, CallerShape
<1>9. CASE RecvNothing \/ Wake \/ UNCHANGED vars
  BY <1>2, <1>9 DEF RecvNothing, Wake, vars, history
<1>10. CASE cancel \/ RecvOnce \/ RecvRepeat
  BY <1>5, <1>10 DEF cancel, RecvOnce, RecvRepeat
<1>11. QED
  BY <1>6, <1>7, <1>8, <1>9, <1>10 DEF Next, Round

(* Every step keeps one job per id in each Vec, and no once job that was   *)
(* sent.                                                                   *)
LEMMA VecsStep == JobsInv /\ [Next]_vars => VecsOK'
<1> SUFFICES ASSUME JobsInv, [Next]_vars
             PROVE  VecsOK'
  OBVIOUS
<1>0. /\ TypeOK /\ VecsOK /\ once_jobs \subseteq OnceJob /\ repeat_jobs \subseteq RepeatJob
      /\ once_jobs \subseteq Job /\ repeat_jobs \subseteq Job
      /\ \A j \in Job : j.id \in Id
  BY JobFacts DEF JobsInv, TypeOK, Job
<1>1. \A j \in once_jobs, k \in repeat_jobs : j.id # k.id
  BY <1>0 DEF VecsOK, KindOK, AskedOnce, OnceJob, RepeatJob
<1>2. CASE UNCHANGED <<once_jobs, repeat_jobs, asked, sent>>
  BY <1>0, <1>2 DEF VecsOK, KindOK, AskedOnce
<1>3. ASSUME NEW i \in Id, NEW job, Asks(i, job)
      PROVE  VecsOK'
  <2>1. /\ UNCHANGED <<once_jobs, repeat_jobs, sent>>
        /\ \A k \in Id : k # i => asked'[k] = asked[k]
        /\ \A j \in once_jobs \cup repeat_jobs : j.id # i
    BY <1>3, NewId DEF Asks, timer_vars, Ids
  <2>2. QED
    BY <1>0, <2>1 DEF VecsOK, KindOK, AskedOnce
<1>4. CASE execute_once_jobs
  <2>1. /\ once_jobs' = {j \in once_jobs : j.send_in # 0} /\ UNCHANGED <<repeat_jobs, asked>>
    BY <1>4 DEF execute_once_jobs, Due
  <2>2. \A j \in once_jobs' : sent'[j.id] = sent[j.id]
    <3>1. \A j \in once_jobs' : j.id \notin Ids(Due(once_jobs))
      BY <1>0, <2>1 DEF Ids, Due, VecsOK
    <3>2. QED
      BY <1>0, <1>4, <2>1, <3>1, SentType DEF execute_once_jobs
  <2>3. QED
    BY <1>0, <2>1, <2>2 DEF VecsOK, KindOK, AskedOnce
<1>5. CASE execute_repeat_jobs
  <2>1. repeat_jobs' = {Moved(j) : j \in repeat_jobs} /\ UNCHANGED <<once_jobs, asked>>
    BY <1>5 DEF execute_repeat_jobs, Moved
  <2>2. \A j \in once_jobs : sent'[j.id] = sent[j.id]
    <3>1. \A j \in once_jobs : j.id \notin Ids(Due(repeat_jobs))
      BY <1>1 DEF Ids, Due
    <3>2. QED
      BY <1>0, <1>5, <3>1, SentType DEF execute_repeat_jobs
  <2>3. \A j \in repeat_jobs : Moved(j).id = j.id /\ Moved(j).job = j.job
    BY <1>0, MovedFacts
  <2>4. QED
    BY <1>0, <2>1, <2>2, <2>3 DEF VecsOK, KindOK, AskedOnce
<1>6. CASE cancel
  BY <1>0, <1>6 DEF cancel, Recv, VecsOK, KindOK, AskedOnce
<1>7. ASSUME NEW job \in {"Once", "Repeat"}, Recv(job), Sent(Ids(Due({Head(rx)}))),
             \/ /\ job = "Once" /\ repeat_jobs' = repeat_jobs
                /\ once_jobs' = IF Head(rx).send_in = 0 THEN once_jobs
                                                       ELSE once_jobs \cup {Head(rx)}
             \/ /\ job = "Repeat" /\ once_jobs' = once_jobs
                /\ repeat_jobs' = repeat_jobs \cup {Head(rx)}
      PROVE  VecsOK'
  <2>1. /\ KindOK(Head(rx)) /\ Head(rx).job = job /\ asked' = asked
        /\ \A j \in once_jobs \cup repeat_jobs : j.id # Head(rx).id
    BY <1>7, HeadFacts DEF Ids
  <2>2. /\ \A j \in once_jobs : sent'[j.id] = sent[j.id]
        /\ Head(rx).send_in # 0 => sent'[Head(rx).id] = 0
    BY <1>0, <1>7, <2>1, SentHead
  <2>3. \A j : KindOK(j) => (j.job = "Once" => asked'[j.id] \in {"schedule_once", "schedule_at_time"})
                            /\ (j.job = "Repeat" => asked'[j.id] = "schedule")
    BY <2>1 DEF KindOK, AskedOnce
  <2>4. QED
    BY <1>0, <1>7, <2>1, <2>2, <2>3 DEF VecsOK, KindOK, AskedOnce
<1>8. CASE Tick
  <2>1. /\ once_jobs' = {Nearer(j) : j \in once_jobs}
        /\ repeat_jobs' = {Nearer(j) : j \in repeat_jobs}
        /\ UNCHANGED <<asked, sent>>
    BY <1>8 DEF Tick
  <2>2. \A j \in once_jobs \cup repeat_jobs : Nearer(j).id = j.id /\ Nearer(j).job = j.job
    BY <1>0, NearerFacts
  <2>3. QED
    BY <1>0, <2>1, <2>2 DEF VecsOK, KindOK, AskedOnce
<1>9. CASE Caller
  <2>1. ASSUME NEW i \in Id, cancel_schedule(i)
        PROVE  VecsOK'
    BY <1>2, <2>1 DEF cancel_schedule, timer_vars
  <2>2. QED
    BY <1>0, <1>3, <1>9, <2>1, CallerShape
<1>10. CASE RecvOnce \/ RecvRepeat
  BY <1>7, <1>10 DEF RecvOnce, RecvRepeat
<1>11. CASE RecvNothing \/ Wake \/ UNCHANGED vars
  BY <1>2, <1>11 DEF RecvNothing, Wake, vars, timer_vars, history
<1>12. QED
  BY <1>4, <1>5, <1>6, <1>8, <1>9, <1>10, <1>11 DEF Next, Round

(* The invariant of the jobs holds at first.                               *)
LEMMA JobsInit == Init => JobsInv
<1> SUFFICES ASSUME Init
             PROVE  JobsInv
  OBVIOUS
<1>1. TypeOK /\ CancelsKnown
  BY TypeInit
<1>2. /\ rx = <<>> /\ once_jobs = {} /\ repeat_jobs = {} /\ cancelled = {} /\ forgotten = {}
      /\ \A i \in Id : asked[i] = "nothing" /\ sent[i] = 0
  BY DEF Init
<1>3. QED
  BY <1>1, <1>2 DEF JobsInv, ChannelOK, FreshOK, VecsOK, AskedFirst, OnceAtMostOnce, AskedOnce,
                    CancelIsFinal

(* It is an invariant.                                                     *)
LEMMA JobsInvariant == Spec => []JobsInv
<1>1. JobsInv /\ [Next]_vars => JobsInv'
  BY TypeStep, CancelsStep, ChannelStep, FreshStep, VecsStep, AskedFirstStep, FinalStep DEF JobsInv
<1>2. QED
  BY <1>1, JobsInit, PTL DEF Spec

(* A once job is sent at most once, on arrival or in a later round         *)
(* (timer.rs schedule_once and execute_once_jobs).                         *)
THEOREM TimerOnceAtMostOnce == Spec => []OnceAtMostOnce
<1>1. JobsInv => OnceAtMostOnce
  BY DEF JobsInv
<1>2. QED
  BY <1>1, JobsInvariant, PTL

(* When the thread has handled a Cancel nothing is left of the job, in the *)
(* channel or in a Vec (timer.rs cancel).                                  *)
THEOREM TimerCancelIsFinal == Spec => []CancelIsFinal
<1>1. JobsInv => CancelIsFinal
  BY DEF JobsInv
<1>2. QED
  BY <1>1, JobsInvariant, PTL

-----------------------------------------------------------------------------
(* Times.  A job that was not sent yet is due no earlier than its caller   *)
(* asked for, but for the seconds that schedule_at_time cuts off.          *)
OnTime(j) ==
    sent[j.id] = 0 =>
        wait[j.id] <= j.send_in + (IF asked[j.id] = "schedule_at_time" THEN Second - 1 ELSE 0)

OnTimeNext(j) ==
    sent'[j.id] = 0 =>
        wait'[j.id] <= j.send_in + (IF asked'[j.id] = "schedule_at_time" THEN Second - 1 ELSE 0)

TimeOK ==
    /\ \A n \in DOMAIN rx : IsJob(rx[n]) => OnTime(rx[n])
    /\ \A j \in once_jobs \cup repeat_jobs : OnTime(j)

(* No job is unsent by a round.                                            *)
LEMMA RoundKeepsTime ==
    ASSUME JobsInv, Round, NEW j, j.id \in Id, OnTime(j)
    PROVE  OnTimeNext(j)
<1>1. sent'[j.id] = 0 => sent[j.id] = 0
  BY Senders, SentType DEF JobsInv
<1>2. UNCHANGED <<asked, wait>>
  BY Senders
<1>3. QED
  BY <1>1, <1>2 DEF OnTime, OnTimeNext

(* Every step keeps that a job is due no earlier than asked for.           *)
LEMMA TimeStep == JobsInv /\ TimeOK /\ [Next]_vars => TimeOK'
<1> SUFFICES ASSUME JobsInv, TimeOK, [Next]_vars
             PROVE  /\ \A n \in DOMAIN rx' : IsJob(rx'[n]) => OnTimeNext(rx'[n])
                    /\ \A j \in once_jobs' \cup repeat_jobs' : OnTimeNext(j)
  BY DEF TimeOK, OnTime, OnTimeNext
<1> DEFINE Goal == /\ \A n \in DOMAIN rx' : IsJob(rx'[n]) => OnTimeNext(rx'[n])
                   /\ \A j \in once_jobs' \cup repeat_jobs' : OnTimeNext(j)
<1>0. /\ TypeOK /\ rx \in Seq(Job) /\ once_jobs \subseteq Job /\ repeat_jobs \subseteq Job
      /\ repeat_jobs \subseteq RepeatJob
      /\ \A j \in Job : j.id \in Id
      /\ \A n \in DOMAIN rx : rx[n] \in Job
      /\ wait \in [Id -> Nat]
  BY JobFacts, ChannelTick DEF JobsInv, TypeOK, Job
<1>1. ASSUME NEW i \in Id, NEW job \in OnceJob \cup RepeatJob, Asks(i, job)
      PROVE  Goal
  <2>1. /\ job \in Job /\ job.id = i /\ rx' = Append(rx, job)
        /\ \A k \in Id : k # i => asked'[k] = asked[k] /\ wait'[k] = wait[k]
        /\ UNCHANGED <<once_jobs, repeat_jobs, sent>> /\ OnTimeNext(job)
        /\ \A n \in DOMAIN rx : rx[n].id # i
        /\ \A j \in once_jobs \cup repeat_jobs : j.id # i
    BY <1>1, NewId DEF Asks, timer_vars, Ids, Job, OnTimeNext
  <2>2. \A j \in Job : j.id # i /\ OnTime(j) => OnTimeNext(j)
    BY <1>0, <2>1 DEF OnTime, OnTimeNext
  <2>3. \A j \in once_jobs' \cup repeat_jobs' : OnTimeNext(j)
    BY <1>0, <2>1, <2>2 DEF TimeOK
  <2>4. \A n \in DOMAIN rx' : rx'[n] = job \/ (n \in DOMAIN rx /\ rx'[n] = rx[n])
    BY <1>0, <2>1, ChannelAppend
  <2>5. QED
    BY <1>0, <2>1, <2>2, <2>3, <2>4 DEF TimeOK
<1>2. ASSUME NEW i \in Id, cancel_schedule(i)
      PROVE  Goal
  <2>1. /\ Cancel(i) \in Job /\ ~IsJob(Cancel(i)) /\ rx' = Append(rx, Cancel(i))
        /\ UNCHANGED <<once_jobs, repeat_jobs, sent, asked, wait>>
    BY <1>2 DEF cancel_schedule, Cancel, Job, CancelJob, IsJob, timer_vars
  <2>2. \A n \in DOMAIN rx' : rx'[n] = Cancel(i) \/ (n \in DOMAIN rx /\ rx'[n] = rx[n])
    BY <1>0, <2>1, ChannelAppend
  <2>3. QED
    BY <2>1, <2>2 DEF TimeOK, OnTime, OnTimeNext
<1>3. ASSUME Round,
             \A n \in DOMAIN rx' : \E m \in DOMAIN rx : rx'[n] = rx[m],
             \A j \in once_jobs' \cup repeat_jobs' :
                \/ j \in once_jobs \cup repeat_jobs
                \/ \E m \in DOMAIN rx : j = rx[m] /\ IsJob(rx[m])
                \/ j.id \in Id /\ sent'[j.id] # 0
      PROVE  Goal
  <2>1. \A j \in Job : OnTime(j) => OnTimeNext(j)
    BY <1>0, <1>3, RoundKeepsTime
  <2>2. \A j : sent'[j.id] # 0 => OnTimeNext(j)
    BY DEF OnTimeNext
  <2>3. QED
    BY <1>0, <1>3, <2>1, <2>2 DEF TimeOK
<1>4. CASE execute_repeat_jobs
  <2>1. repeat_jobs' = {Moved(j) : j \in repeat_jobs} /\ UNCHANGED <<rx, once_jobs>>
    BY <1>4 DEF execute_repeat_jobs, Moved
  <2>2. \A j \in repeat_jobs : Moved(j) = j \/ (Moved(j).id \in Id /\ sent'[Moved(j).id] # 0)
    <3>1. \A j \in repeat_jobs : j.send_in = 0 => j.id \in Ids(Due(repeat_jobs))
      BY DEF Ids, Due
    <3>2. \A j \in repeat_jobs : j.send_in = 0 => sent'[j.id] # 0
      BY <1>0, <1>4, <3>1, SentType DEF execute_repeat_jobs
    <3>3. \A j \in repeat_jobs : Moved(j).id = j.id /\ (j.send_in # 0 => Moved(j) = j)
      BY <1>0, MovedFacts DEF Moved
    <3>4. QED
      BY <1>0, <3>2, <3>3
  <2>3. QED
    BY <1>3, <1>4, <2>1, <2>2 DEF Round
<1>5. CASE execute_once_jobs
  BY <1>3, <1>5 DEF Round, execute_once_jobs
<1>6. CASE cancel
  <2>1. \A n \in DOMAIN rx' : \E m \in DOMAIN rx : rx'[n] = rx[m]
    BY <1>6, HeadFacts DEF cancel
  <2>2. QED
    BY <1>3, <1>6, <2>1 DEF Round, cancel
<1>7. CASE RecvOnce \/ RecvRepeat
  <2>1. PICK job \in {"Once", "Repeat"} : Recv(job)
    BY <1>7 DEF RecvOnce, RecvRepeat
  <2>2. /\ \A n \in DOMAIN rx' : \E m \in DOMAIN rx : rx'[n] = rx[m]
        /\ 1 \in DOMAIN rx /\ Head(rx) = rx[1] /\ IsJob(Head(rx))
    BY <2>1, HeadFacts
  <2>3. \A j \in once_jobs' \cup repeat_jobs' : j \in once_jobs \cup repeat_jobs \/ j = Head(rx)
    BY <1>7 DEF RecvOnce, RecvRepeat
  <2>4. QED
    BY <1>3, <1>7, <2>2, <2>3 DEF Round
<1>8. CASE Tick
  <2>1. \A j \in Job : IsJob(j) /\ OnTime(j) => OnTimeNext(Nearer(j))
    <3> SUFFICES ASSUME NEW j \in Job, IsJob(j), OnTime(j), sent'[j.id] = 0
                 PROVE  wait'[j.id] <= Less(j.send_in)
                                       + (IF asked'[j.id] = "schedule_at_time" THEN Second - 1 ELSE 0)
      BY NearerFacts DEF OnTimeNext
    <3>1. /\ sent' = sent /\ asked' = asked /\ wait'[j.id] = Less(wait[j.id])
          /\ wait[j.id] \in Nat /\ j.send_in \in Nat
      BY <1>0, <1>8, JobFacts DEF Tick
    <3>2. Second - 1 \in Nat
      BY TimerAssumption
    <3>3. QED
      BY <3>1, <3>2 DEF OnTime, Less
  <2>2. \A j \in once_jobs \cup repeat_jobs : IsJob(j)
    BY <1>0 DEF TypeOK, IsJob, OnceJob, RepeatJob
  <2>3. \A j \in once_jobs' \cup repeat_jobs' : OnTimeNext(j)
    BY <1>0, <1>8, <2>1, <2>2 DEF Tick, TimeOK
  <2>4. \A n \in DOMAIN rx' : n \in DOMAIN rx /\ rx'[n] = Nearer(rx[n])
    BY <1>8 DEF Tick
  <2>5. \A n \in DOMAIN rx' : IsJob(rx'[n]) => OnTimeNext(rx'[n])
    BY <1>0, <2>1, <2>4, NearerFacts DEF TimeOK, IsJob
  <2>6. QED
    BY <2>3, <2>5
<1>9. CASE Caller
  BY <1>0, <1>1, <1>2, <1>9, CallerShape
<1>10. CASE RecvNothing \/ Wake \/ UNCHANGED vars
  BY <1>10 DEF RecvNothing, Wake, vars, timer_vars, history, TimeOK, OnTime, OnTimeNext
<1>11. QED
  BY <1>4, <1>5, <1>6, <1>7, <1>8, <1>9, <1>10 DEF Next, Round

(* The first message of a job comes no earlier than asked for, and for     *)
(* schedule_at_time less than a second earlier (timer.rs, the schedule     *)
(* functions of system.rs and of actor_cell.rs).                           *)
THEOREM TimerNotTooEarly == Spec => NotTooEarly
<1>1. Init => TimeOK
  BY DEF Init, TimeOK
<1>2. ASSUME JobsInv, TimeOK, [Next]_vars, NEW i \in Id, Sends(i), sent[i] = 0
      PROVE  wait[i] < IF asked[i] = "schedule_at_time" THEN Second ELSE 1
  <2>1. sent' # sent
    BY <1>2 DEF Sends
  <2>2. Round
    <3>1. ~Caller
      BY <2>1 DEF Caller, schedule_once, schedule_at_time, schedule, Ask, cancel_schedule
    <3>2. ~Tick /\ ~UNCHANGED vars
      BY <2>1 DEF Tick, vars, history
    <3>3. QED
      BY <1>2, <3>1, <3>2 DEF Next
  <2>3. DueJob(i)
    BY <1>2, <2>1, <2>2, Senders, SentType DEF JobsInv, Sends
  <2>4. PICK j : /\ j.id = i /\ j.send_in = 0 /\ IsJob(j)
                 /\ j \in once_jobs \/ j \in repeat_jobs \/ (rx # <<>> /\ j = Head(rx))
    BY <2>3 DEF DueJob
  <2>5. OnTime(j)
    <3>1. rx \in Seq(Job)
      BY <1>2 DEF JobsInv, TypeOK, Job
    <3>2. CASE rx # <<>> /\ j = Head(rx)
      BY <1>2, <2>4, <3>1, <3>2, ChannelTail DEF TimeOK
    <3>3. QED
      BY <1>2, <2>4, <3>2 DEF TimeOK
  <2>6. wait[i] \in Nat /\ Second \in Nat
    BY <1>2, TimerAssumption DEF JobsInv, TypeOK
  <2>7. QED
    BY <1>2, <2>4, <2>5, <2>6 DEF OnTime
<1>3. JobsInv /\ TimeOK /\ [Next]_vars
      => \A i \in Id : Sends(i) /\ sent[i] = 0 =>
            wait[i] < IF asked[i] = "schedule_at_time" THEN Second ELSE 1
  BY <1>2
<1>4. QED
  BY <1>1, <1>3, TimeStep, JobsInvariant, PTL DEF Spec, NotTooEarly

(* A repeat job that was sent is not due before its interval is over, but  *)
(* for one that was due on arrival: it is due until the next round, which  *)
(* begins when the thread has slept.                                       *)
Spaced(j) ==
    sent[j.id] > 0 =>
        \/ since[j.id] + j.send_in >= j.interval
        \/ /\ sent[j.id] = 1 /\ j.send_in = 0
           /\ \/ pc = "sleep" /\ since[j.id] + sleep_in >= frequency
              \/ pc \in {"once", "repeat"} /\ since[j.id] >= frequency

SpacedNext(j) ==
    sent'[j.id] > 0 =>
        \/ since'[j.id] + j.send_in >= j.interval
        \/ /\ sent'[j.id] = 1 /\ j.send_in = 0
           /\ \/ pc' = "sleep" /\ since'[j.id] + sleep_in' >= frequency
              \/ pc' \in {"once", "repeat"} /\ since'[j.id] >= frequency

SpacingOK == \A j \in repeat_jobs : Spaced(j)

(* The fields of a repeat job.                                             *)
LEMMA RepeatFacts ==
    ASSUME NEW j \in RepeatJob
    PROVE  j.id \in Id /\ j.send_in \in Nat /\ j.interval \in Nat /\ j.interval \in Interval
  BY TimerAssumption DEF RepeatJob

(* Every step keeps the distance of the next message from the last.        *)
LEMMA SpacingStep == JobsInv /\ SpacingOK /\ [Next]_vars => SpacingOK'
<1> SUFFICES ASSUME JobsInv, SpacingOK, [Next]_vars
             PROVE  \A j \in repeat_jobs' : SpacedNext(j)
  BY DEF SpacingOK, Spaced, SpacedNext
<1>0. /\ TypeOK /\ VecsOK /\ once_jobs \subseteq OnceJob /\ repeat_jobs \subseteq RepeatJob
      /\ \A j \in RepeatJob : j.id \in Id /\ j.send_in \in Nat /\ j.interval \in Nat
                              /\ j.interval \in Interval
      /\ sent \in [Id -> 0..3] /\ since \in [Id -> Nat]
      /\ sleep_in \in Nat /\ frequency \in Nat
  <2>1. TypeOK /\ VecsOK
    BY DEF JobsInv
  <2>2. QED
    BY <2>1, RepeatFacts, TimerAssumption DEF TypeOK
<1>1. CASE UNCHANGED <<repeat_jobs, sent, since, pc, sleep_in>>
  BY <1>1 DEF SpacingOK, Spaced, SpacedNext
<1>2. CASE execute_once_jobs
  <2>1. \A j \in repeat_jobs : j.id \notin Ids(Due(once_jobs))
    BY <1>0 DEF Ids, Due, VecsOK, KindOK, AskedOnce, OnceJob, RepeatJob
  <2>2. \A j \in repeat_jobs : sent'[j.id] = sent[j.id] /\ since'[j.id] = since[j.id]
    BY <1>0, <1>2, <2>1, SentType DEF execute_once_jobs
  <2>3. QED
    BY <1>2, <2>2 DEF execute_once_jobs, SpacingOK, Spaced, SpacedNext
<1>3. CASE execute_repeat_jobs
  <2>1. repeat_jobs' = {Moved(j) : j \in repeat_jobs}
    BY <1>3 DEF execute_repeat_jobs, Moved
  <2>2. ASSUME NEW j \in repeat_jobs, j.send_in = 0
        PROVE  SpacedNext(Moved(j))
    <3>1. j.id \in Ids(Due(repeat_jobs))
      BY <2>2 DEF Ids, Due
    <3>2. since'[j.id] = 0
      BY <1>0, <1>3, <3>1, SentType DEF execute_repeat_jobs
    <3>3. /\ Moved(j).id = j.id /\ Moved(j).interval = j.interval /\ Moved(j).send_in = j.interval
          /\ j.interval \in Nat
      BY <1>0, <2>2, MovedFacts
    <3>4. QED
      BY <3>2, <3>3 DEF SpacedNext
  <2>3. ASSUME NEW j \in repeat_jobs, j.send_in # 0
        PROVE  SpacedNext(Moved(j))
    <3>1. j.id \notin Ids(Due(repeat_jobs))
      BY <1>0, <2>3 DEF Ids, Due, VecsOK
    <3>2. sent'[j.id] = sent[j.id] /\ since'[j.id] = since[j.id]
      BY <1>0, <1>3, <3>1, SentType DEF execute_repeat_jobs
    <3>3. Moved(j) = j
      BY <2>3 DEF Moved
    <3>4. QED
      BY <2>3, <3>2, <3>3 DEF SpacingOK, Spaced, SpacedNext
  <2>4. QED
    BY <2>1, <2>2, <2>3
<1>4. CASE cancel
  BY <1>4 DEF cancel, Recv, SpacingOK, Spaced, SpacedNext
<1>5. ASSUME NEW job \in {"Once", "Repeat"}, Recv(job), Sent(Ids(Due({Head(rx)}))),
             repeat_jobs' = repeat_jobs \/ repeat_jobs' = repeat_jobs \cup {Head(rx)}
      PROVE  \A j \in repeat_jobs' : SpacedNext(j)
  <2>1. /\ Head(rx).id \notin Ids(repeat_jobs) /\ Head(rx).id \in Id
        /\ pc = "recv" /\ pc' = "sleep" /\ sleep_in' = frequency
    BY <1>5, HeadFacts DEF Recv
  <2>2. \A j \in repeat_jobs : j.id # Head(rx).id
    BY <2>1 DEF Ids
  <2>3. ASSUME NEW j \in repeat_jobs
        PROVE  SpacedNext(j)
    <3>1. sent'[j.id] = sent[j.id] /\ since'[j.id] = since[j.id]
      BY <1>0, <1>5, <2>2, SentHead
    <3>2. QED
      BY <2>1, <3>1 DEF SpacingOK, Spaced, SpacedNext
  <2>4. SpacedNext(Head(rx))
    <3>1. CASE Head(rx).send_in = 0
      <4>1. sent'[Head(rx).id] = 1 /\ since'[Head(rx).id] = 0
        BY <1>5, <3>1, SentHead
      <4>2. QED
        BY <1>0, <2>1, <3>1, <4>1 DEF SpacedNext
    <3>2. CASE Head(rx).send_in # 0
      <4>1. sent'[Head(rx).id] = 0
        BY <1>5, <3>2, SentHead
      <4>2. QED
        BY <4>1 DEF SpacedNext
    <3>3. QED
      BY <3>1, <3>2
  <2>5. QED
    BY <1>5, <2>3, <2>4
<1>6. CASE RecvNothing
  BY <1>6 DEF RecvNothing, history, SpacingOK, Spaced, SpacedNext
<1>7. CASE Wake
  BY <1>0, <1>7 DEF Wake, history, SpacingOK, Spaced, SpacedNext
<1>8. CASE Tick
  <2>1. ASSUME NEW j \in repeat_jobs
        PROVE  SpacedNext(Nearer(j))
    <3>1. /\ Nearer(j).id = j.id /\ Nearer(j).interval = j.interval
          /\ Nearer(j).send_in = Less(j.send_in)
      BY <1>0, NearerFacts DEF Job, RepeatJob, IsJob
    <3>2. /\ sent' = sent /\ pc' = pc /\ since'[j.id] = Cap(since[j.id])
          /\ sleep_in' = Less(sleep_in)
      BY <1>0, <1>8 DEF Tick
    <3>3. /\ since[j.id] \in Nat /\ j.send_in \in Nat /\ j.interval \in Nat /\ Spaced(j)
          /\ j.interval \in Interval
      BY <1>0 DEF SpacingOK
    <3>4. CASE since[j.id] < j.interval
      <4>1. since'[j.id] = since[j.id] + 1
        BY <3>2, <3>3, <3>4, NumberFacts
      <4>2. QED
        BY <1>0, <3>1, <3>2, <3>3, <4>1 DEF Spaced, SpacedNext, Less
    <3>5. CASE since[j.id] >= j.interval
      <4>1. since'[j.id] \in Nat /\ since'[j.id] >= j.interval
        BY <3>2, <3>3, <3>5, NumberFacts
      <4>2. Less(j.send_in) \in Nat
        BY <3>3, NumberFacts
      <4>3. QED
        BY <3>1, <3>3, <4>1, <4>2 DEF SpacedNext
    <3>6. QED
      BY <3>3, <3>4, <3>5
  <2>2. QED
    BY <1>8, <2>1 DEF Tick
<1>9. CASE Caller
  BY <1>1, <1>9 DEF Caller, schedule_once, schedule_at_time, schedule, Ask, cancel_schedule,
                    timer_vars
<1>10. CASE RecvOnce \/ RecvRepeat
  BY <1>5, <1>10 DEF RecvOnce, RecvRepeat
<1>11. CASE UNCHANGED vars
  BY <1>1, <1>11 DEF vars, timer_vars, history
<1>12. QED
  BY <1>2, <1>3, <1>4, <1>6, <1>7, <1>8, <1>9, <1>10, <1>11 DEF Next, Round

(* Messages of a repeat job are an interval apart or more, but for the     *)
(* second of a job that was due on arrival, which follows after one sleep  *)
(* of the thread (timer.rs schedule_repeat and execute_repeat_jobs).       *)
THEOREM TimerRepeatSpacing == Spec => RepeatSpacing
<1>1. Init => SpacingOK
  BY DEF Init, SpacingOK
<1>2. ASSUME JobsInv, SpacingOK, [Next]_vars, NEW i \in Id, Sends(i), sent[i] > 0,
             NEW j \in repeat_jobs, j.id = i
      PROVE  since[i] >= j.interval \/ (sent[i] = 1 /\ since[i] >= frequency)
  <2>0. /\ once_jobs \subseteq OnceJob /\ repeat_jobs \subseteq RepeatJob /\ TypeOK /\ VecsOK
        /\ j.interval \in Nat /\ since[i] \in Nat /\ sent[i] # 0
    <3>1. TypeOK /\ VecsOK
      BY <1>2 DEF JobsInv
    <3>2. repeat_jobs \subseteq RepeatJob /\ since \in [Id -> Nat] /\ sent \in [Id -> 0..3]
      BY <3>1 DEF TypeOK
    <3>3. j.interval \in Nat
      BY <3>2, RepeatFacts
    <3>4. QED
      BY <1>2, <3>1, <3>2, <3>3 DEF TypeOK
  <2>1. ~execute_once_jobs
    <3>1. i \notin Ids(Due(once_jobs))
      BY <1>2, <2>0 DEF Ids, Due, VecsOK
    <3>2. QED
      BY <1>2, <2>0, <3>1, SentType DEF execute_once_jobs, Sends
  <2>2. ~RecvOnce /\ ~RecvRepeat
    <3>1. ASSUME NEW job \in {"Once", "Repeat"}, Recv(job), Sent(Ids(Due({Head(rx)})))
          PROVE  FALSE
      BY <1>2, <2>0, <3>1, HeadFacts, SentHead DEF Sends
    <3>2. QED
      BY <3>1 DEF RecvOnce, RecvRepeat
  <2>3. execute_repeat_jobs
    BY <1>2, <2>1, <2>2
       DEF Next, Caller, Round, schedule_once, schedule_at_time, schedule, Ask, cancel_schedule,
           cancel, RecvNothing, Wake, Tick, vars, history, Sends
  <2>4. j.send_in = 0
    <3>1. i \in Ids(Due(repeat_jobs))
      BY <1>2, <2>0, <2>3, SentType DEF execute_repeat_jobs, Sends
    <3>2. QED
      BY <1>2, <2>0, <3>1 DEF Ids, Due, VecsOK
  <2>5. pc = "repeat" /\ Spaced(j)
    BY <1>2, <2>3 DEF execute_repeat_jobs, SpacingOK
  <2>6. QED
    BY <1>2, <2>0, <2>4, <2>5 DEF Spaced
<1>3. JobsInv /\ SpacingOK /\ [Next]_vars
      => \A i \in Id : Sends(i) /\ sent[i] > 0 =>
            \A j \in repeat_jobs : j.id = i =>
                \/ since[i] >= j.interval
                \/ sent[i] = 1 /\ since[i] >= frequency
  BY <1>2
<1>4. QED
  BY <1>1, <1>3, SpacingStep, JobsInvariant, PTL DEF Spec, RepeatSpacing

=============================================================================
