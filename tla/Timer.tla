-------------------------------- MODULE Timer -------------------------------
(***************************************************************************)
(* The timer, src/system/timer.rs, and the schedule calls of Context and   *)
(* ActorSystem that feed it.                                               *)
(*                                                                         *)
(* Callers send jobs down a channel; one thread loops: send the due once   *)
(* jobs, send the due repeat jobs, take at most one job from the channel,  *)
(* sleep.  An Instant is represented by the ticks left until it, so that   *)
(* time needs no bound: Instant::now() >= send_at is send_in = 0.  Time    *)
(* passes at any point, also while the thread is at work.                  *)
(***************************************************************************)
EXTENDS Integers, Sequences, FiniteSets

CONSTANTS Id,         \* the ids that Uuid::new_v4 hands out, one per job
          Delay,      \* delays a caller may ask for, in ticks
          Time,       \* times a caller may ask for, in ticks from the call
          Interval,   \* intervals a caller may ask for, in ticks
          frequency,  \* ticks the thread sleeps between two rounds
          Second      \* ticks in a second

ASSUME TimerAssumption ==
    /\ Delay \subseteq Nat /\ IsFiniteSet(Delay)
    /\ Time \subseteq Int /\ IsFiniteSet(Time)
    /\ Interval \subseteq Nat /\ IsFiniteSet(Interval)
    /\ frequency \in Nat
    /\ Second \in Nat \ {0}

VARIABLES
    \* the timer
    rx,           \* jobs on their way to the thread
    once_jobs,    \* BasicTimer.once_jobs, ids being unique
    repeat_jobs,  \* BasicTimer.repeat_jobs
    pc,           \* where the thread is in its loop
    sleep_in,     \* ticks left to sleep
    subsecond,    \* ticks of the wall clock past the full second
    \* what callers asked for, and what became of it
    asked,        \* the call that made each id
    wait,         \* ticks until the time the caller asked for
    since,        \* ticks since the last send, up to the interval
    sent,         \* sends of each job: 0, 1, then 2 and 3 in turn
    cancelled,    \* ids that were passed to cancel_schedule
    forgotten     \* ids whose Cancel the thread has handled

timer_vars == <<once_jobs, repeat_jobs, pc, sleep_in, subsecond>>
history == <<asked, wait, since, sent, cancelled, forgotten>>
vars == <<rx, timer_vars, history>>

Init ==
    /\ rx = <<>>
    /\ once_jobs = {} /\ repeat_jobs = {}
    /\ pc = "once" /\ sleep_in = 0
    /\ subsecond \in 0..(Second - 1)
    /\ asked = [i \in Id |-> "nothing"]
    /\ wait = [i \in Id |-> 0] /\ since = [i \in Id |-> 0]
    /\ sent = [i \in Id |-> 0]
    /\ cancelled = {} /\ forgotten = {}

-----------------------------------------------------------------------------
(* Callers: impl Timer for Context and for ActorSystem                     *)

Once(i, d) == [job |-> "Once", id |-> i, send_in |-> d]
Repeat(i, d, n) == [job |-> "Repeat", id |-> i, send_in |-> d, interval |-> n]
Cancel(i) == [job |-> "Cancel", id |-> i]

Ask(i, call, d, job) ==
    /\ asked[i] = "nothing"
    /\ asked' = [asked EXCEPT ![i] = call]
    /\ wait' = [wait EXCEPT ![i] = d]
    /\ rx' = Append(rx, job)
    /\ UNCHANGED <<timer_vars, since, sent, cancelled, forgotten>>

schedule(i, d, n) == Ask(i, "schedule", d, Repeat(i, d, n))

schedule_once(i, d) == Ask(i, "schedule_once", d, Once(i, d))

(* Both times are cut to full seconds before they are subtracted.          *)
Truncated(d) == ((subsecond + d) \div Second) * Second

(* A time in the past is now.                                              *)
NotPast(d) == IF d < 0 THEN 0 ELSE d

(* Mutant: the delay until a time in the past is negative.                 *)
schedule_at_time_past(i, d) ==
    Ask(i, "schedule_at_time", NotPast(d), Once(i, Truncated(d)))

schedule_at_time(i, d) ==
    Ask(i, "schedule_at_time", NotPast(d), Once(i, NotPast(Truncated(d))))

cancel_schedule(i) ==
    /\ asked[i] # "nothing" /\ i \notin cancelled
    /\ cancelled' = cancelled \cup {i}
    /\ rx' = Append(rx, Cancel(i))
    /\ UNCHANGED <<timer_vars, asked, wait, since, sent, forgotten>>

-----------------------------------------------------------------------------
(* The thread                                                              *)

Due(jobs) == {j \in jobs : j.send_in = 0}
Ids(jobs) == {j.id : j \in jobs}

(* OnceJob::send, RepeatJob::send: whether the receiver still exists makes *)
(* no difference to the timer.                                             *)
Sent(ids) ==
    /\ sent' = [i \in Id |-> IF i \notin ids THEN sent[i]
                             ELSE IF sent[i] < 3 THEN sent[i] + 1 ELSE 2]
    /\ since' = [i \in Id |-> IF i \in ids THEN 0 ELSE since[i]]

(* Mutant: the jobs partitioned off to be kept are not put back.           *)
execute_once_jobs_lossy ==
    /\ pc = "once"
    /\ Sent(Ids(Due(once_jobs)))
    /\ once_jobs' = {}
    /\ pc' = "repeat"
    /\ UNCHANGED <<rx, repeat_jobs, sleep_in, subsecond, asked, wait, cancelled, forgotten>>

execute_once_jobs ==
    /\ pc = "once"
    /\ Sent(Ids(Due(once_jobs)))
    /\ once_jobs' = once_jobs \ Due(once_jobs)
    /\ pc' = "repeat"
    /\ UNCHANGED <<rx, repeat_jobs, sleep_in, subsecond, asked, wait, cancelled, forgotten>>

(* Mutant: send_at is not moved on.                                        *)
execute_repeat_jobs_still_due ==
    /\ pc = "repeat"
    /\ Sent(Ids(Due(repeat_jobs)))
    /\ pc' = "recv"
    /\ UNCHANGED <<rx, once_jobs, repeat_jobs, sleep_in, subsecond, asked, wait,
                   cancelled, forgotten>>

(* Mutant: a repeat job is taken out when it is sent, as a once job is.    *)
execute_repeat_jobs_drained ==
    /\ pc = "repeat"
    /\ Sent(Ids(Due(repeat_jobs)))
    /\ repeat_jobs' = repeat_jobs \ Due(repeat_jobs)
    /\ pc' = "recv"
    /\ UNCHANGED <<rx, once_jobs, sleep_in, subsecond, asked, wait, cancelled, forgotten>>

execute_repeat_jobs ==
    /\ pc = "repeat"
    /\ Sent(Ids(Due(repeat_jobs)))
    /\ repeat_jobs' = {IF j.send_in = 0 THEN [j EXCEPT !.send_in = j.interval] ELSE j :
                          j \in repeat_jobs}
    /\ pc' = "recv"
    /\ UNCHANGED <<rx, once_jobs, sleep_in, subsecond, asked, wait, cancelled, forgotten>>

(* rx.try_recv: at most one job in a round.                                *)
Recv(job) ==
    /\ pc = "recv" /\ rx # <<>>
    /\ Head(rx).job = job
    /\ rx' = Tail(rx)
    /\ pc' = "sleep" /\ sleep_in' = frequency
    /\ UNCHANGED <<subsecond, asked, wait, cancelled>>

(* Mutant: only the once jobs are searched.                                *)
cancel_once_only ==
    /\ Recv("Cancel")
    /\ once_jobs' = {j \in once_jobs : j.id # Head(rx).id}
    /\ forgotten' = forgotten \cup {Head(rx).id}
    /\ UNCHANGED <<repeat_jobs, since, sent>>

cancel ==
    /\ Recv("Cancel")
    /\ once_jobs' = {j \in once_jobs : j.id # Head(rx).id}
    /\ repeat_jobs' = {j \in repeat_jobs : j.id # Head(rx).id}
    /\ forgotten' = forgotten \cup {Head(rx).id}
    /\ UNCHANGED <<since, sent>>

(* Mutant: a job that was sent on arrival is kept too.                     *)
RecvOnce_kept ==
    /\ Recv("Once")
    /\ Sent(Ids(Due({Head(rx)})))
    /\ once_jobs' = once_jobs \cup {Head(rx)}
    /\ UNCHANGED <<repeat_jobs, forgotten>>

(* Mutant: a job is sent on arrival, due or not.                           *)
RecvOnce_at_once ==
    /\ Recv("Once")
    /\ Sent({Head(rx).id})
    /\ UNCHANGED <<once_jobs, repeat_jobs, forgotten>>

(* schedule_once                                                           *)
RecvOnce ==
    /\ Recv("Once")
    /\ Sent(Ids(Due({Head(rx)})))
    /\ once_jobs' = IF Head(rx).send_in = 0 THEN once_jobs ELSE once_jobs \cup {Head(rx)}
    /\ UNCHANGED <<repeat_jobs, forgotten>>

(* schedule_repeat: a job that is due on arrival is sent and kept as it    *)
(* is, so it is due again in the next round.                               *)
RecvRepeat ==
    /\ Recv("Repeat")
    /\ Sent(Ids(Due({Head(rx)})))
    /\ repeat_jobs' = repeat_jobs \cup {Head(rx)}
    /\ UNCHANGED <<once_jobs, forgotten>>

RecvNothing ==
    /\ pc = "recv" /\ rx = <<>>
    /\ pc' = "sleep" /\ sleep_in' = frequency
    /\ UNCHANGED <<rx, once_jobs, repeat_jobs, subsecond, history>>

Wake ==
    /\ pc = "sleep" /\ sleep_in = 0
    /\ pc' = "once"
    /\ UNCHANGED <<rx, once_jobs, repeat_jobs, sleep_in, subsecond, history>>

-----------------------------------------------------------------------------
(* Time                                                                    *)

Less(n) == IF n = 0 THEN 0 ELSE n - 1
Nearer(j) == IF j.job = "Cancel" THEN j ELSE [j EXCEPT !.send_in = Less(@)]
Cap(n) == IF \E k \in Interval : n < k THEN n + 1 ELSE n

Tick ==
    /\ rx' = [n \in DOMAIN rx |-> Nearer(rx[n])]
    /\ once_jobs' = {Nearer(j) : j \in once_jobs}
    /\ repeat_jobs' = {Nearer(j) : j \in repeat_jobs}
    /\ sleep_in' = Less(sleep_in)
    /\ subsecond' = (subsecond + 1) % Second
    /\ wait' = [i \in Id |-> Less(wait[i])]
    /\ since' = [i \in Id |-> Cap(since[i])]
    /\ UNCHANGED <<pc, asked, sent, cancelled, forgotten>>

-----------------------------------------------------------------------------
Round ==
    \/ execute_once_jobs
    \/ execute_repeat_jobs
    \/ cancel
    \/ RecvOnce
    \/ RecvRepeat
    \/ RecvNothing
    \/ Wake

Caller ==
    \E i \in Id :
        \/ \E d \in Delay :
              \/ schedule_once(i, d)
              \/ \E n \in Interval : schedule(i, d, n)
        \/ \E d \in Time : schedule_at_time(i, d)
        \/ cancel_schedule(i)

Next == Caller \/ Round \/ Tick

Spec == Init /\ [][Next]_vars

(* The thread is an operating system thread of its own and time passes.    *)
(* Callers owe nothing.                                                    *)
Fairness == WF_vars(Round) /\ WF_vars(Tick)

FairSpec == Spec /\ Fairness

-----------------------------------------------------------------------------
OnceJob == [job : {"Once"}, id : Id, send_in : Nat]
RepeatJob == [job : {"Repeat"}, id : Id, send_in : Nat, interval : Interval]
CancelJob == [job : {"Cancel"}, id : Id]

(* Types: no job is made for a time before its call, which as a Duration   *)
(* of unsigned seconds would be far in the future (schedule_at_time), and  *)
(* each Vec holds jobs of its own kind.                                    *)
TypeOK ==
    /\ once_jobs \subseteq OnceJob /\ repeat_jobs \subseteq RepeatJob
    /\ rx \in Seq(OnceJob \cup RepeatJob \cup CancelJob)
    /\ pc \in {"once", "repeat", "recv", "sleep"}
    /\ sleep_in \in 0..frequency /\ subsecond \in 0..(Second - 1)
    /\ asked \in [Id -> {"nothing", "schedule", "schedule_once", "schedule_at_time"}]
    /\ wait \in [Id -> Nat] /\ since \in [Id -> Nat]
    /\ sent \in [Id -> 0..3]
    /\ forgotten \subseteq cancelled /\ cancelled \subseteq Id

AskedOnce(i) == asked[i] \in {"schedule_once", "schedule_at_time"}

InChannel(i) == \E n \in DOMAIN rx : rx[n].job # "Cancel" /\ rx[n].id = i

Pending(i) == InChannel(i) \/ i \in Ids(once_jobs \cup repeat_jobs)

(* A once job is sent at most once, whether it is found due on arrival or  *)
(* in a later round (schedule_once, execute_once_jobs).                    *)
OnceAtMostOnce == \A i \in Id : AskedOnce(i) => sent[i] <= 1

(* Once the thread has handled a Cancel nothing of the job is left, in     *)
(* either Vec or still on its way: a job that arrived after its Cancel     *)
(* would be sent for ever.                                                 *)
CancelIsFinal == \A i \in forgotten : ~Pending(i)

Sends(i) == sent'[i] # sent[i]

(* The first message never comes before the time the caller asked for, or  *)
(* for schedule_at_time less than a second before it.                      *)
NotTooEarly ==
    [][\A i \in Id : Sends(i) /\ sent[i] = 0 =>
          wait[i] < IF asked[i] = "schedule_at_time" THEN Second ELSE 1]_vars

(* Messages of a repeat job are at least its interval apart, except that   *)
(* the second may follow the first after one sleep of the thread: a job    *)
(* due on arrival is sent by schedule_repeat and again in the next round.  *)
RepeatSpacing ==
    [][\A i \in Id : Sends(i) /\ sent[i] > 0 =>
          \A j \in repeat_jobs : j.id = i =>
              \/ since[i] >= j.interval
              \/ sent[i] = 1 /\ since[i] >= frequency]_vars

(* A once job is sent in the end, or was cancelled: it waits behind other  *)
(* jobs, of which the thread takes one per round.                          *)
OnceDelivered ==
    \A i \in Id : AskedOnce(i) ~> (sent[i] = 1 \/ i \in cancelled)

(* A repeat job goes on being sent until it is cancelled.                  *)
RepeatGoesOn ==
    \A i \in Id : \A n \in {2, 3} :
        []<>(asked[i] = "schedule" /\ i \notin cancelled => sent[i] = n)

(* After cancel_schedule returns, the messages of the job come to an end.  *)
CancelTakesEffect ==
    \A i \in Id : i \in cancelled ~> [](~Pending(i))

=============================================================================
