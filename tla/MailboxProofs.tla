---------------------------- MODULE MailboxProofs ---------------------------
(***************************************************************************)
(* Proofs about Mailbox for any number of clients and messages, any        *)
(* processing limit and any bounds.                                        *)
(***************************************************************************)
EXTENDS Mailbox, SequenceTheorems, TLAPS

(* Every thread of the model is one of the threads of Thread.              *)
LEMMA ThreadsOfModel ==
    /\ Creator \in Thread /\ Supervisor \in Thread /\ Kernel \in Thread
    /\ Client \subseteq Thread
    /\ Supervisor # Kernel /\ Creator # Kernel /\ Creator # Supervisor
  BY ThreadAssumption DEF Thread

(* What a sys_tell does to the system queue and to the sender.             *)
LEMMA SysTellType ==
    ASSUME NEW t \in Thread, NEW msg \in SystemMsg, StateOK, SysTell(t, msg)
    PROVE  /\ sys_queue' \in Seq(SystemMsg)
           /\ dpc' \in [Thread -> {"idle", "load", "store", "schedule"}]
<1>1. Append(sys_queue, msg) \in Seq(SystemMsg)
  BY AppendProperties DEF StateOK
<1>2. sys_queue' \in Seq(SystemMsg)
  BY <1>1 DEF StateOK, SysTell
<1>3. dpc' \in [Thread -> {"idle", "load", "store", "schedule"}]
  BY DEF StateOK, SysTell
<1>4. QED
  BY <1>2, <1>3

(* A message sent to the kernel is one more of its kind.                   *)
LEMMA SendType ==
    ASSUME NEW k \in KernelMsg, StateOK, Send(k)
    PROVE  rx' \in [KernelMsg -> Nat]
  BY DEF StateOK, Send

(* A message received was there, so the counts stay naturals.              *)
LEMMA ReceiveType ==
    ASSUME NEW k \in KernelMsg, StateOK, Receive(k)
    PROVE  rx' \in [KernelMsg -> Nat]
  BY DEF StateOK, Receive

(* The head and the rest of a queue are of its type.                       *)
LEMMA TailType ==
    ASSUME NEW S, NEW q \in Seq(S), q # <<>>
    PROVE  Head(q) \in S /\ Tail(q) \in Seq(S)
  BY HeadTailProperties

(* What a callback leaves behind when it panics and when it returns.       *)
LEMMA PanicType ==
    ASSUME StateOK, NEW c \in Callback, Unwinds(c)
    PROVE  /\ kpc' = "unwind" /\ staged' \in Seq(SystemMsg)
           /\ actor' \in Instance /\ unwinding' \in Callback \cup {"none"}
  BY DEF Unwinds, Instance

(* A system message handled leaves the ones staged behind it.              *)
LEMMA HandledType ==
    ASSUME StateOK, staged # <<>>, Handled
    PROVE  /\ kpc' = kpc /\ staged' \in Seq(SystemMsg)
           /\ unwinding' \in Callback \cup {"none"} /\ panics' \in Nat
  BY TailType DEF Handled, StateOK

(* The flags are only ever set to TRUE or FALSE.                           *)
LEMMA FlagsStep == FlagsOK /\ [Next]_vars => FlagsOK'
<1> SUFFICES ASSUME FlagsOK, [Next]_vars
             PROVE  FlagsOK'
  OBVIOUS
<1> USE DEF FlagsOK, mailbox_vars, run_vars, kernel_vars, sender_vars, budgets
<1>1. ASSUME NEW t \in Client, NEW m \in Msg, Tell(t, m) \/ TryTell(t, m)
      PROVE  FlagsOK'
  BY <1>1 DEF Tell, TryTell
<1>2. ASSUME NEW t \in Client, Stop(t) \/ Event(t)
      PROVE  FlagsOK'
  BY <1>2 DEF Stop, Event
<1>3. ASSUME NEW t \in Thread, Dispatch(t)
      PROVE  FlagsOK'
  BY <1>3 DEF Dispatch, LoadScheduled, StoreScheduled, Schedule
<1>4. CASE TellInit \/ Supervise
  BY <1>4 DEF TellInit, Supervise
<1>5. CASE RunActor \/ RestartActor \/ TerminateActor
  BY <1>5 DEF RunActor, RestartActor, TerminateActor
<1>6. CASE RunStep
  <2>1. CASE Drain \/ HandleRestart \/ HandleEvent \/ HandledAll
    BY <2>1 DEF Drain, HandleRestart, HandleEvent, HandledAll
  <2>2. CASE HandleInit \/ HandleStop
    BY <2>2 DEF HandleInit, HandleStop
  <2>3. CASE Recv \/ RecvDone \/ Peek \/ PeekSys \/ Resched
    BY <2>3 DEF Recv, RecvDone, Peek, PeekSys, Resched
  <2>4. CASE Unset \/ Unwind \/ Close
    BY <2>4 DEF Unset, Unwind, Close
  <2>5. QED
    BY <1>6, <2>1, <2>2, <2>3, <2>4 DEF RunStep
<1>7. CASE UNCHANGED vars
  BY <1>7 DEF vars
<1>8. QED
  BY <1>1, <1>2, <1>3, <1>4, <1>5, <1>6, <1>7 DEF Next

(* Queues, counters and program counters keep their types.                 *)
LEMMA StateStep == StateOK /\ [Next]_vars => StateOK'
<1> SUFFICES ASSUME StateOK, [Next]_vars
             PROVE  StateOK'
  OBVIOUS
<1> USE DEF mailbox_vars, run_vars, kernel_vars, sender_vars, budgets
<1>1. ASSUME NEW t \in Client, NEW m \in Msg, Tell(t, m) \/ TryTell(t, m)
      PROVE  StateOK'
  <2>1. Append(queue, m) \in Seq(Msg)
    BY AppendProperties DEF StateOK
  <2>2. QED
    BY <1>1, <2>1, ThreadsOfModel DEF Tell, TryTell, StateOK
<1>2. ASSUME NEW t \in Client, Stop(t) \/ Event(t)
      PROVE  StateOK'
  <2>1. \E msg \in SystemMsg : SysTell(t, msg)
    BY <1>2 DEF Stop, Event, SystemMsg
  <2>2. /\ sys_queue' \in Seq(SystemMsg)
        /\ dpc' \in [Thread -> {"idle", "load", "store", "schedule"}]
    BY <2>1, ThreadsOfModel, SysTellType
  <2>3. QED
    <3>1. CASE Stop(t)
      BY <2>2, <3>1 DEF Stop, StateOK
    <3>2. CASE Event(t)
      BY <2>2, <3>2 DEF Event, StateOK
    <3>3. QED
      BY <1>2, <3>1, <3>2
<1>3. ASSUME NEW t \in Thread, Dispatch(t)
      PROVE  StateOK'
  <2>1. CASE LoadScheduled(t)
    BY <2>1 DEF LoadScheduled, StateOK
  <2>2. CASE StoreScheduled(t)
    BY <2>2 DEF StoreScheduled, StateOK
  <2>3. CASE Schedule(t)
    BY <2>3, SendType DEF Schedule, StateOK, KernelMsg
  <2>4. QED
    BY <1>3, <2>1, <2>2, <2>3 DEF Dispatch
<1>4. CASE TellInit \/ Supervise
  <2>1. \E t \in Thread, msg \in SystemMsg : SysTell(t, msg)
    BY <1>4, ThreadsOfModel, StrategyAssumption DEF TellInit, Supervise, SystemMsg
  <2>2. /\ sys_queue' \in Seq(SystemMsg)
        /\ dpc' \in [Thread -> {"idle", "load", "store", "schedule"}]
    BY <2>1, SysTellType
  <2>3. CASE TellInit
    BY <2>2, <2>3 DEF TellInit, StateOK
  <2>4. CASE Supervise
    BY <2>2, <2>4 DEF Supervise, StateOK
  <2>5. QED
    BY <1>4, <2>3, <2>4
<1>5. CASE RunActor
  BY <1>5, ReceiveType DEF RunActor, StateOK, KernelMsg, Instance
<1>6. CASE RestartActor
  <2>1. rx' \in [KernelMsg -> Nat]
    BY <1>6, ReceiveType DEF RestartActor, KernelMsg
  <2>2. /\ sys_queue' \in Seq(SystemMsg)
        /\ dpc' \in [Thread -> {"idle", "load", "store", "schedule"}]
    <3>1. CASE SysTell(Kernel, "ActorInit")
      BY <3>1, ThreadsOfModel, SysTellType DEF SystemMsg
    <3>2. CASE UNCHANGED <<sys_queue, dpc>>
      BY <3>2 DEF StateOK
    <3>3. QED
      BY <1>6, <3>1, <3>2 DEF RestartActor
  <2>3. dock' \in Instance /\ start_panics' \in Nat
    BY <1>6 DEF RestartActor, StateOK, Instance
  <2>4. QED
    BY <1>6, <2>1, <2>2, <2>3 DEF RestartActor, StateOK
<1>7. CASE TerminateActor
  BY <1>7, ReceiveType DEF TerminateActor, StateOK, KernelMsg
<1>8. CASE RunStep
  <2> USE DEF StateOK
  <2>1. CASE Drain
    BY <2>1 DEF Drain
  <2>2. CASE HandleInit
    <3>1. CASE \E c \in Callback : Unwinds(c) /\ (Panic(c) \/ UNCHANGED panics)
      BY <2>2, <3>1, PanicType DEF HandleInit, Panic
    <3>2. CASE actor' = "started" /\ Handled /\ staged # <<>>
      BY <2>2, <3>2, HandledType DEF HandleInit, Instance
    <3>3. QED
      BY <2>2, <3>1, <3>2 DEF HandleInit, Handling, Panic, Callback
  <2>3. CASE HandleStop
    <3>1. rx' \in [KernelMsg -> Nat]
      BY <2>3, SendType DEF HandleStop, KernelMsg
    <3>2. CASE Panic("post_stop")
      BY <2>3, <3>1, <3>2, PanicType DEF HandleStop, Panic, Callback
    <3>3. CASE Handled /\ actor' \in Instance /\ staged # <<>>
      BY <2>3, <3>1, <3>3, HandledType DEF HandleStop
    <3>4. QED
      BY <2>3, <3>2, <3>3 DEF HandleStop, Handling, PostStopped, Instance
  <2>4. CASE HandleRestart
    BY <2>4, TailType, SendType DEF HandleRestart, Handling, Handled, KernelMsg
  <2>5. CASE HandleEvent
    <3>1. CASE Panic("sys_recv")
      BY <2>5, <3>1, PanicType DEF HandleEvent, Panic, Callback
    <3>2. CASE Handled /\ UNCHANGED actor /\ staged # <<>>
      BY <2>5, <3>2, HandledType DEF HandleEvent
    <3>3. QED
      BY <2>5, <3>1, <3>2 DEF HandleEvent, Handling
  <2>6. CASE HandledAll
    BY <2>6 DEF HandledAll
  <2>7. CASE Recv
    <3>1. Head(queue) \in Msg /\ Tail(queue) \in Seq(Msg)
      BY <2>7, TailType DEF Recv
    <3>2. /\ queue' \in Seq(Msg)
          /\ fate' \in [Msg -> {"unsent", "queued", "received", "dead",
                                "dropped", "refused"}]
      BY <2>7, <3>1 DEF Recv
    <3>3. CASE Panic("recv")
      BY <2>7, <3>2, <3>3, PanicType DEF Recv, Panic, Callback
    <3>4. CASE ~Panic("recv")
      BY <2>7, <3>2, <3>4 DEF Recv
    <3>5. QED
      BY <3>3, <3>4
  <2>8. CASE RecvDone
    BY <2>8 DEF RecvDone
  <2>9. CASE Unset
    BY <2>9 DEF Unset, Instance
  <2>10. CASE Peek \/ PeekSys
    BY <2>10 DEF Peek, PeekSys
  <2>11. CASE Resched
    BY <2>11, SendType DEF Resched, KernelMsg
  <2>12. CASE Unwind
    BY <2>12 DEF Unwind
  <2>13. CASE Close
    BY <2>13 DEF Close
  <2>14. QED
    BY <1>8, <2>1, <2>2, <2>3, <2>4, <2>5, <2>6, <2>7, <2>8, <2>9, <2>10,
       <2>11, <2>12, <2>13 DEF RunStep
<1>9. CASE UNCHANGED vars
  BY <1>9 DEF vars, StateOK
<1>10. QED
  BY <1>1, <1>2, <1>3, <1>4, <1>5, <1>6, <1>7, <1>8, <1>9 DEF Next

(* Only process_msgs counts, and only below the limit.                     *)
LEMMA BoundStep == StateOK /\ RunBounded /\ [Next]_vars => RunBounded'
<1> SUFFICES ASSUME StateOK, RunBounded, [Next]_vars
             PROVE  RunBounded'
  OBVIOUS
<1> USE DEF RunBounded, mailbox_vars, run_vars, kernel_vars, sender_vars, budgets
<1>0. count \in Nat /\ msg_process_limit \in Nat
  BY LimitAssumption DEF StateOK
<1>1. CASE UNCHANGED <<count, phase, kpc>>
  BY <1>1
<1>2. CASE RunActor \/ TerminateActor
  <2>1. UNCHANGED <<count, phase>> /\ kpc = "idle"
    BY <1>2 DEF RunActor, TerminateActor, Receive
  <2>2. QED
    BY <1>0, <2>1
<1>3. CASE RunStep
  <2>1. CASE HandleInit \/ HandleStop \/ HandleRestart \/ HandleEvent
    <3>1. UNCHANGED <<count, phase>> /\ kpc' \in {kpc, "unwind"}
      BY <2>1 DEF HandleInit, HandleStop, HandleRestart, HandleEvent,
                  Handled, Panic, Unwinds
    <3>2. QED
      BY <1>0, <3>1
  <2>2. CASE HandledAll
    BY <1>0, <2>2 DEF HandledAll
  <2>3. CASE Recv
    BY <1>0, <2>3 DEF Recv, Panic, Unwinds
  <2>4. CASE RecvDone \/ Unset \/ Unwind
    BY <1>0, <2>4 DEF RecvDone, Unset, Unwind
  <2>5. CASE Drain \/ Peek \/ PeekSys \/ Resched \/ Close
    BY <1>0, <2>5 DEF Drain, Peek, PeekSys, Resched, Close
  <2>6. QED
    BY <1>3, <2>1, <2>2, <2>3, <2>4, <2>5 DEF RunStep
<1>4. ASSUME NEW t \in Client, NEW m \in Msg, Tell(t, m) \/ TryTell(t, m)
      PROVE  UNCHANGED <<count, phase, kpc>>
  BY <1>4 DEF Tell, TryTell
<1>5. ASSUME NEW t \in Client, Stop(t) \/ Event(t)
      PROVE  UNCHANGED <<count, phase, kpc>>
  BY <1>5 DEF Stop, Event
<1>6. ASSUME NEW t \in Thread, Dispatch(t)
      PROVE  UNCHANGED <<count, phase, kpc>>
  BY <1>6 DEF Dispatch, LoadScheduled, StoreScheduled, Schedule
<1>7. CASE TellInit \/ Supervise \/ RestartActor \/ UNCHANGED vars
  <2>1. UNCHANGED <<count, phase, kpc>>
    BY <1>7 DEF TellInit, Supervise, RestartActor, vars
  <2>2. QED
    BY <1>1, <2>1
<1>8. QED
  BY <1>1, <1>2, <1>3, <1>4, <1>5, <1>6, <1>7 DEF Next

(* Every variable keeps its type (the state of mailbox.rs and kernel.rs),  *)
(* and no run handles more user messages than msg_process_limit.           *)
THEOREM MailboxTypeOK == Spec => []TypeOK
<1>1. Init => FlagsOK
  BY DEF Init, FlagsOK
<1>2. Init => StateOK
  BY DEF Init, StateOK, Instance, KernelMsg
<1>3. Init => RunBounded
  BY LimitAssumption DEF Init, RunBounded
<1>4. QED
  BY <1>1, <1>2, <1>3, FlagsStep, StateStep, BoundStep, PTL DEF Spec, TypeOK

-----------------------------------------------------------------------------
(* The inductive invariant: the flag is what lets a sender skip its own    *)
(* RunActor, so NoLostWakeup needs to know what a set flag stands for.     *)
WakeupInv == TypeOK /\ ScheduledMeansRun /\ NoLostWakeup

(* A step of a sender that enqueues leaves that sender inside dispatch.    *)
LEMMA EnqueueKeepsWakeup ==
    ASSUME WakeupInv, NEW t \in Thread, dpc[t] = "idle",
           dpc' = [dpc EXCEPT ![t] = "load"],
           UNCHANGED <<open, scheduled, rx, kpc>>
    PROVE  ScheduledMeansRun' /\ NoLostWakeup'
<1>1. dpc'[t] = "load" /\ \A u \in Thread : dpc[u] = "schedule" => dpc'[u] = "schedule"
  BY DEF WakeupInv, TypeOK, StateOK
<1>2. QED
  BY <1>1 DEF WakeupInv, ScheduledMeansRun, NoLostWakeup, WakeupComing

(* A closed mailbox promises nothing.                                      *)
LEMMA ClosedKeepsWakeup ==
    ASSUME open' = FALSE
    PROVE  ScheduledMeansRun' /\ NoLostWakeup'
  BY DEF ScheduledMeansRun, NoLostWakeup

(* A sys_tell is an enqueue, or nothing at all on a closed mailbox.        *)
LEMMA SysTellKeepsWakeup ==
    ASSUME WakeupInv, NEW t \in Thread, NEW msg, SysTell(t, msg),
           UNCHANGED <<open, scheduled, rx, kpc>>
    PROVE  ScheduledMeansRun' /\ NoLostWakeup'
<1>1. CASE open = TRUE
  <2>1. dpc[t] = "idle" /\ dpc' = [dpc EXCEPT ![t] = "load"]
    BY <1>1 DEF SysTell
  <2>2. QED
    BY <2>1, EnqueueKeepsWakeup
<1>2. CASE open = FALSE
  BY <1>2, ClosedKeepsWakeup
<1>3. QED
  BY <1>1, <1>2 DEF WakeupInv, TypeOK, FlagsOK

(* The steps of dispatch after the enqueue.                                *)
LEMMA DispatchKeepsWakeup ==
    ASSUME WakeupInv, NEW t \in Thread, Dispatch(t)
    PROVE  ScheduledMeansRun' /\ NoLostWakeup'
<1> USE DEF mailbox_vars, run_vars, kernel_vars
<1>0. /\ dpc \in [Thread -> {"idle", "load", "store", "schedule"}]
      /\ rx \in [KernelMsg -> Nat]
      /\ scheduled \in BOOLEAN
  BY DEF WakeupInv, TypeOK, FlagsOK, StateOK
<1>1. CASE LoadScheduled(t)
  <2>1. /\ dpc[t] = "load"
        /\ UNCHANGED <<open, scheduled, rx, kpc, queue, sys_queue, failures>>
    BY <1>1 DEF LoadScheduled
  <2>2. \A u \in Thread \ {t} : dpc'[u] = dpc[u]
    BY <1>0, <1>1 DEF LoadScheduled
  <2>3. ScheduledMeansRun'
    BY <2>1, <2>2 DEF WakeupInv, ScheduledMeansRun
  <2>4. CASE scheduled = TRUE
    BY <2>1, <2>2, <2>3, <2>4 DEF WakeupInv, ScheduledMeansRun, NoLostWakeup, WakeupComing
  <2>5. CASE scheduled = FALSE
    <3>1. dpc'[t] = "store"
      BY <1>0, <1>1, <2>5 DEF LoadScheduled
    <3>2. QED
      BY <2>3, <3>1 DEF NoLostWakeup, WakeupComing
  <2>6. QED
    BY <1>0, <2>3, <2>4, <2>5
<1>2. CASE StoreScheduled(t)
  <2>1. dpc'[t] = "schedule"
    BY <1>0, <1>2 DEF StoreScheduled
  <2>2. QED
    BY <2>1 DEF ScheduledMeansRun, NoLostWakeup, WakeupComing
<1>3. CASE Schedule(t)
  <2>1. rx'["RunActor"] > 0
    BY <1>0, <1>3 DEF Schedule, Send, KernelMsg
  <2>2. QED
    BY <2>1 DEF ScheduledMeansRun, NoLostWakeup, WakeupComing
<1>4. QED
  BY <1>1, <1>2, <1>3 DEF Dispatch

(* A step of the kernel that keeps it inside the run, before the flag is   *)
(* cleared, keeps every promise.                                           *)
LEMMA RunningKeepsWakeup ==
    ASSUME kpc' \in {"drain", "handle", "recv", "unset", "unwind"}
    PROVE  ScheduledMeansRun' /\ NoLostWakeup'
  BY DEF ScheduledMeansRun, NoLostWakeup

(* The kernel's steps: while the run goes on nothing is promised to a      *)
(* sender but the run itself; after it the flag is clear or the sender     *)
(* that set it again is on its way with a RunActor.                        *)
LEMMA KernelKeepsWakeup ==
    ASSUME WakeupInv, RunStep
    PROVE  ScheduledMeansRun' /\ NoLostWakeup'
<1> USE DEF mailbox_vars, run_vars, kernel_vars, sender_vars
<1>0. /\ rx \in [KernelMsg -> Nat] /\ failures \in Nat
      /\ scheduled \in BOOLEAN /\ open \in BOOLEAN
  BY DEF WakeupInv, TypeOK, FlagsOK, StateOK
<1>1. CASE Drain \/ HandleInit \/ HandleStop \/ HandleRestart \/ HandleEvent
           \/ HandledAll \/ Recv \/ RecvDone
  <2>1. kpc' \in {"drain", "handle", "recv", "unset", "unwind"}
    BY <1>1 DEF Drain, HandleInit, HandleStop, HandleRestart, HandleEvent,
                HandledAll, Recv, RecvDone, Handling, Handled, Panic, Unwinds
  <2>2. QED
    BY <2>1, RunningKeepsWakeup
<1>2. CASE Unset
  BY <1>2 DEF Unset, ScheduledMeansRun, NoLostWakeup
<1>3. CASE Peek
  BY <1>3 DEF Peek, WakeupInv, ScheduledMeansRun, NoLostWakeup, WakeupComing
<1>4. CASE PeekSys
  BY <1>4 DEF PeekSys, WakeupInv, ScheduledMeansRun, NoLostWakeup, WakeupComing
<1>5. CASE Resched
  <2>1. CASE scheduled = FALSE
    <3>1. rx'["RunActor"] > 0
      BY <1>0, <1>5, <2>1 DEF Resched, Send, KernelMsg
    <3>2. QED
      BY <3>1 DEF ScheduledMeansRun, NoLostWakeup, WakeupComing
  <2>2. CASE scheduled = TRUE
    BY <1>5, <2>2 DEF Resched, WakeupInv, ScheduledMeansRun, NoLostWakeup, WakeupComing
  <2>3. QED
    BY <1>0, <2>1, <2>2
<1>6. CASE Unwind
  <2>1. failures' > 0 /\ scheduled' = FALSE
    BY <1>0, <1>6 DEF Unwind
  <2>2. QED
    BY <2>1 DEF ScheduledMeansRun, NoLostWakeup, WakeupComing
<1>7. CASE Close
  BY <1>7, ClosedKeepsWakeup DEF Close
<1>8. QED
  BY <1>1, <1>2, <1>3, <1>4, <1>5, <1>6, <1>7 DEF RunStep

(* No step of a sender, the run, the kernel or the parent loses a wakeup   *)
(* or leaves the flag set.                                                 *)
LEMMA WakeupStep ==
    WakeupInv /\ [Next]_vars => ScheduledMeansRun' /\ NoLostWakeup'
<1> SUFFICES ASSUME WakeupInv, [Next]_vars
             PROVE  ScheduledMeansRun' /\ NoLostWakeup'
  OBVIOUS
<1> USE DEF mailbox_vars, run_vars, kernel_vars, sender_vars
<1>0. /\ rx \in [KernelMsg -> Nat]
      /\ open \in BOOLEAN
      /\ dpc \in [Thread -> {"idle", "load", "store", "schedule"}]
  BY DEF WakeupInv, TypeOK, FlagsOK, StateOK
<1>1. ASSUME NEW t \in Client, NEW m \in Msg, Tell(t, m) \/ TryTell(t, m)
      PROVE  ScheduledMeansRun' /\ NoLostWakeup'
  <2>1. CASE dpc' = [dpc EXCEPT ![t] = "load"]
    BY <1>1, <2>1, ThreadsOfModel, EnqueueKeepsWakeup DEF Tell, TryTell, Ready
  <2>2. CASE UNCHANGED <<queue, dpc>>
    BY <1>1, <2>2
       DEF Tell, TryTell, WakeupInv, ScheduledMeansRun, NoLostWakeup, WakeupComing
  <2>3. QED
    BY <1>1, <2>1, <2>2 DEF Tell, TryTell
<1>2. ASSUME NEW t \in Client, Stop(t) \/ Event(t)
      PROVE  ScheduledMeansRun' /\ NoLostWakeup'
  BY <1>2, ThreadsOfModel, SysTellKeepsWakeup DEF Stop, Event
<1>3. ASSUME NEW t \in Thread, Dispatch(t)
      PROVE  ScheduledMeansRun' /\ NoLostWakeup'
  BY <1>3, DispatchKeepsWakeup
<1>4. CASE TellInit \/ Supervise
  BY <1>4, ThreadsOfModel, SysTellKeepsWakeup DEF TellInit, Supervise
<1>5. CASE RunActor
  BY <1>5, RunningKeepsWakeup DEF RunActor
<1>6. CASE RestartActor
  <2>1. rx'["RunActor"] = rx["RunActor"]
    BY <1>0, <1>6 DEF RestartActor, Receive, KernelMsg
  <2>2. CASE UNCHANGED <<sys_queue, dpc>>
    BY <1>6, <2>1, <2>2
       DEF RestartActor, WakeupInv, ScheduledMeansRun, NoLostWakeup, WakeupComing
  <2>3. CASE SysTell(Kernel, "ActorInit") /\ open = TRUE
    <3>1. dpc'[Kernel] = "load" /\ \A u \in Thread \ {Kernel} : dpc'[u] = dpc[u]
      BY <1>0, <2>3, ThreadsOfModel DEF SysTell
    <3>2. dpc[Kernel] = "idle"
      BY <2>3 DEF SysTell
    <3>3. QED
      BY <1>6, <2>1, <3>1, <3>2, ThreadsOfModel
         DEF RestartActor, WakeupInv, ScheduledMeansRun, NoLostWakeup, WakeupComing
  <2>4. CASE open = FALSE
    BY <1>6, <2>4, ClosedKeepsWakeup DEF RestartActor
  <2>5. QED
    BY <1>0, <1>6, <2>2, <2>3, <2>4 DEF RestartActor
<1>7. CASE TerminateActor
  <2>1. rx'["RunActor"] = rx["RunActor"]
    BY <1>0, <1>7 DEF TerminateActor, Receive, KernelMsg
  <2>2. kpc = "idle"
    BY <1>7 DEF TerminateActor, Receive
  <2>3. QED
    BY <1>7, <2>1, <2>2
       DEF TerminateActor, WakeupInv, ScheduledMeansRun, NoLostWakeup, WakeupComing
<1>8. CASE RunStep
  BY <1>8, KernelKeepsWakeup
<1>9. CASE UNCHANGED vars
  BY <1>9 DEF vars, WakeupInv, ScheduledMeansRun, NoLostWakeup, WakeupComing
<1>10. QED
  BY <1>1, <1>2, <1>3, <1>4, <1>5, <1>6, <1>7, <1>8, <1>9 DEF Next

(* For any number of senders and messages, with callbacks panicking at any *)
(* point: a message in an open mailbox is always followed by a run of the  *)
(* mailbox that is coming or under way, or by the parent's answer to a     *)
(* failure (kernel_ref.rs dispatch, mailbox.rs run_mailbox, Sentinel).     *)
THEOREM MailboxNoLostWakeup == Spec => []NoLostWakeup
<1>1. Init => ScheduledMeansRun /\ NoLostWakeup
  BY DEF Init, ScheduledMeansRun, NoLostWakeup
<1>2. QED
  BY <1>1, MailboxTypeOK, WakeupStep, PTL DEF Spec, WakeupInv

(* The flag is never left set with no run to come (kernel_ref.rs dispatch, *)
(* mailbox.rs Sentinel).                                                   *)
THEOREM MailboxScheduledMeansRun == Spec => []ScheduledMeansRun
<1>1. Init => ScheduledMeansRun /\ NoLostWakeup
  BY DEF Init, ScheduledMeansRun, NoLostWakeup
<1>2. QED
  BY <1>1, MailboxTypeOK, WakeupStep, PTL DEF Spec, WakeupInv

-----------------------------------------------------------------------------
(* Where the kernel is while an instance is out of its dock, and while it  *)
(* is parked.                                                              *)
Running == {"drain", "handle", "recv", "unset", "unwind"}
Resting == {"idle", "peek", "peek_sys", "resched"}

Unstarted == {"fresh", "stopped_unstarted"}

InitIn(q) == \E i \in 1..Len(q) : q[i] = "ActorInit"

(* The dock is empty during a run, and a kernel that works is open.        *)
RunShape ==
    /\ kpc \in Running => dock = "none"
    /\ kpc \in Resting => phase = "before"
    /\ kpc # "closed" => open = TRUE

(* process_msgs holds a started instance, between two messages too.        *)
ReceivingStarted ==
    /\ kpc = "recv" => actor \in {"started", "stopped"}
    /\ kpc \in {"drain", "handle"} /\ phase = "during" => actor \in {"started", "stopped"}

(* An instance that is yet to start is suspended, or its ActorInit will be *)
(* handled by the next process_sys_msgs, before process_msgs.              *)
StartComesFirst ==
    /\ kpc \in Resting /\ dock \in Unstarted => suspended = TRUE \/ InitIn(sys_queue)
    /\ kpc = "drain" /\ phase = "before" /\ actor \in Unstarted
          => suspended = TRUE \/ InitIn(sys_queue)
    /\ kpc = "handle" /\ phase = "before" /\ actor \in Unstarted
          => suspended = TRUE \/ InitIn(staged)
    /\ kpc \in {"drain", "handle"} /\ phase = "after" /\ actor \in Unstarted
          => suspended = TRUE
    /\ kpc = "unset" /\ actor \in Unstarted => suspended = TRUE

(* Inductive: recv is guarded by the flag alone, so the invariant has to   *)
(* follow the ActorInit that clears it from the queue to its handling.     *)
StartOrder == RunShape /\ ReceivingStarted /\ StartComesFirst

InitInv == TypeOK /\ StartOrder

(* An ActorInit stays where it is behind the messages that follow it and   *)
(* when another message is handled before it.                              *)
LEMMA InitStaysInQueue ==
    ASSUME NEW q \in Seq(SystemMsg), NEW msg \in SystemMsg
    PROVE  /\ InitIn(q) => InitIn(Append(q, msg))
           /\ InitIn(Append(q, "ActorInit"))
<1>1. /\ Len(Append(q, msg)) = Len(q) + 1 /\ Len(q) \in Nat
      /\ \A i \in 1..Len(q) : Append(q, msg)[i] = q[i]
  BY AppendProperties
<1>2. "ActorInit" \in SystemMsg
  BY DEF SystemMsg
<1>3. /\ Len(Append(q, "ActorInit")) = Len(q) + 1
      /\ Append(q, "ActorInit")[Len(q) + 1] = "ActorInit"
  BY <1>2, AppendProperties
<1>4. QED
  BY <1>1, <1>3 DEF InitIn

(* Taking another message leaves a staged ActorInit where it is.           *)
LEMMA InitStaysBehindHead ==
    ASSUME NEW q \in Seq(SystemMsg), q # <<>>, Head(q) # "ActorInit", InitIn(q)
    PROVE  InitIn(Tail(q))
<1>1. /\ Len(Tail(q)) = Len(q) - 1 /\ Len(q) \in Nat
      /\ \A i \in 1..Len(Tail(q)) : Tail(q)[i] = q[i + 1]
      /\ Head(q) = q[1]
  BY HeadTailProperties
<1>2. PICK i \in 1..Len(q) : q[i] = "ActorInit"
  BY DEF InitIn
<1>3. i - 1 \in 1..Len(Tail(q)) /\ Tail(q)[i - 1] = "ActorInit"
  BY <1>1, <1>2
<1>4. QED
  BY <1>3 DEF InitIn

(* A step outside the kernel at most appends to the system queue.          *)
LEMMA OutsideKeepsInit ==
    ASSUME InitInv,
           UNCHANGED <<open, suspended, dock, actor, kpc, phase, staged>>,
           sys_queue' = sys_queue \/ \E msg \in SystemMsg : sys_queue' = Append(sys_queue, msg)
    PROVE  StartOrder'
<1>1. InitIn(sys_queue) => InitIn(sys_queue')
  BY InitStaysInQueue DEF InitInv, TypeOK, StateOK
<1>2. QED
  BY <1>1 DEF InitInv, StartOrder, RunShape, ReceivingStarted, StartComesFirst,
              Running, Resting, InitIn

(* A panic suspends the mailbox before the kernel looks at it again.       *)
LEMMA PanicKeepsInit ==
    ASSUME InitInv, kpc \in Running, kpc' = "unwind", UNCHANGED <<dock, open>>
    PROVE  StartOrder'
  BY DEF InitInv, StartOrder, RunShape, ReceivingStarted, StartComesFirst, Running, Resting

(* Handling a system message other than ActorInit starts no instance and   *)
(* leaves a later ActorInit staged.                                        *)
LEMMA HandledKeepsInit ==
    ASSUME InitInv, NEW msg \in SystemMsg \ {"ActorInit"}, Handling(msg), Handled,
           actor' = actor \/ (actor' = PostStopped(actor) /\ actor # "none"),
           UNCHANGED <<open, suspended, dock, phase>>
    PROVE  StartOrder'
<1>1. /\ kpc = "handle" /\ kpc' = "handle" /\ staged # <<>> /\ staged' = Tail(staged)
      /\ Head(staged) # "ActorInit"
  BY DEF Handling, Handled
<1>2. InitIn(staged) => InitIn(staged')
  BY <1>1, InitStaysBehindHead DEF InitInv, TypeOK, StateOK
<1>3. /\ actor' \in Unstarted => actor \in Unstarted
      /\ actor \in {"started", "stopped"} => actor' \in {"started", "stopped"}
  BY DEF PostStopped, Unstarted, InitInv, TypeOK, StateOK, Instance
<1>4. QED
  BY <1>1, <1>2, <1>3
     DEF InitInv, StartOrder, RunShape, ReceivingStarted, StartComesFirst, Running, Resting

(* Within a run, an instance that is not started waits for its ActorInit   *)
(* (run_mailbox, process_sys_msgs).                                        *)
LEMMA RunStepKeepsInit ==
    ASSUME InitInv, RunStep
    PROVE  StartOrder'
<1> USE DEF mailbox_vars, run_vars, kernel_vars, sender_vars
<1>0. sys_queue \in Seq(SystemMsg) /\ staged \in Seq(SystemMsg) /\ actor \in Instance
  BY DEF InitInv, TypeOK, StateOK
<1>1. CASE Drain
  BY <1>1 DEF Drain, InitInv, StartOrder, RunShape, ReceivingStarted, StartComesFirst,
              Running, Resting
<1>2. CASE HandleInit
  <2>1. kpc = "handle" /\ UNCHANGED <<dock, open, phase>>
    BY <1>2 DEF HandleInit, Handling
  <2>2. CASE kpc' = "unwind"
    BY <2>1, <2>2, PanicKeepsInit DEF Running
  <2>3. CASE actor' = "started" /\ Handled
    BY <2>1, <2>3 DEF Handled, InitInv, StartOrder, RunShape, ReceivingStarted,
                      StartComesFirst, Running, Resting, Unstarted
  <2>4. QED
    BY <1>2, <2>2, <2>3 DEF HandleInit, Panic, Unwinds
<1>3. CASE HandleStop
  <2>1. Handling("Stop") /\ kpc = "handle" /\ UNCHANGED <<dock, open, phase, suspended>>
    BY <1>3 DEF HandleStop, Handling
  <2>2. CASE kpc' = "unwind"
    BY <2>1, <2>2, PanicKeepsInit DEF Running
  <2>3. CASE Handled /\ (actor' = actor \/ (actor' = PostStopped(actor) /\ actor # "none"))
    BY <2>1, <2>3, HandledKeepsInit DEF SystemMsg
  <2>4. QED
    BY <1>3, <2>2, <2>3 DEF HandleStop, Panic, Unwinds
<1>4. CASE HandleRestart
  BY <1>4, HandledKeepsInit DEF HandleRestart, SystemMsg
<1>5. CASE HandleEvent
  <2>1. Handling("Event") /\ kpc = "handle" /\ UNCHANGED <<dock, open, phase, suspended>>
    BY <1>5 DEF HandleEvent, Handling
  <2>2. CASE kpc' = "unwind"
    BY <2>1, <2>2, PanicKeepsInit DEF Running
  <2>3. CASE Handled /\ UNCHANGED actor
    BY <2>1, <2>3, HandledKeepsInit DEF SystemMsg
  <2>4. QED
    BY <1>5, <2>2, <2>3 DEF HandleEvent, Panic, Unwinds
<1>6. CASE HandledAll
  <2>1. ~InitIn(<<>>)
    BY EmptySeq DEF InitIn
  <2>2. suspended \in BOOLEAN /\ phase \in {"before", "during", "after"}
    BY DEF InitInv, TypeOK, FlagsOK, StateOK
  <2>3. QED
    BY <1>0, <1>6, <2>1, <2>2
       DEF HandledAll, InitInv, StartOrder, RunShape, ReceivingStarted, StartComesFirst,
           Running, Resting, Unstarted, Instance
<1>7. CASE Recv
  <2>1. CASE kpc' = "unwind"
    BY <1>7, <2>1, PanicKeepsInit DEF Recv, Running
  <2>2. CASE kpc' = "drain" /\ phase' = "during" /\ UNCHANGED actor
    BY <1>7, <2>2 DEF Recv, InitInv, StartOrder, RunShape, ReceivingStarted,
                      StartComesFirst, Running, Resting
  <2>3. QED
    BY <1>7, <2>1, <2>2 DEF Recv, Panic, Unwinds
<1>8. CASE RecvDone
  BY <1>8 DEF RecvDone, InitInv, StartOrder, RunShape, ReceivingStarted, StartComesFirst,
              Running, Resting, Unstarted
<1>9. CASE Unset
  BY <1>9 DEF Unset, InitInv, StartOrder, RunShape, ReceivingStarted, StartComesFirst,
              Running, Resting, Unstarted
<1>10. CASE Peek \/ PeekSys \/ Resched
  BY <1>10 DEF Peek, PeekSys, Resched, InitInv, StartOrder, RunShape, ReceivingStarted,
               StartComesFirst, Running, Resting
<1>11. CASE Unwind
  BY <1>11 DEF Unwind, InitInv, StartOrder, RunShape, ReceivingStarted,
               StartComesFirst, Running, Resting
<1>12. CASE Close
  BY <1>12 DEF Close, InitInv, StartOrder, RunShape, ReceivingStarted,
               StartComesFirst, Running, Resting
<1>13. QED
  BY <1>1, <1>2, <1>3, <1>4, <1>5, <1>6, <1>7, <1>8, <1>9, <1>10, <1>11, <1>12
     DEF RunStep

(* Every step keeps the order of the start.                                *)
LEMMA InitStep == InitInv /\ [Next]_vars => StartOrder'
<1> SUFFICES ASSUME InitInv, [Next]_vars
             PROVE  StartOrder'
  OBVIOUS
<1> USE DEF mailbox_vars, run_vars, kernel_vars, sender_vars
<1>1. ASSUME NEW t \in Client, NEW m \in Msg, Tell(t, m) \/ TryTell(t, m)
      PROVE  StartOrder'
  BY <1>1, OutsideKeepsInit DEF Tell, TryTell
<1>2. ASSUME NEW t \in Client, Stop(t) \/ Event(t)
      PROVE  StartOrder'
  BY <1>2, OutsideKeepsInit DEF Stop, Event, SysTell, SystemMsg
<1>3. ASSUME NEW t \in Thread, Dispatch(t)
      PROVE  StartOrder'
  BY <1>3, OutsideKeepsInit DEF Dispatch, LoadScheduled, StoreScheduled, Schedule
<1>4. CASE TellInit
  BY <1>4, OutsideKeepsInit DEF TellInit, SysTell, SystemMsg
<1>5. CASE Supervise
  BY <1>5, OutsideKeepsInit, StrategyAssumption DEF Supervise, SysTell, SystemMsg
<1>6. CASE RunActor
  BY <1>6 DEF RunActor, Receive, InitInv, StartOrder, RunShape, ReceivingStarted,
              StartComesFirst, Running, Resting
<1>7. CASE RestartActor
  <2>1. kpc = "idle" /\ open = TRUE /\ UNCHANGED <<open, suspended, actor, kpc, phase, staged>>
    BY <1>7 DEF RestartActor, Receive, InitInv, StartOrder, RunShape
  <2>2. CASE UNCHANGED <<dock, sys_queue>>
    BY <2>1, <2>2, OutsideKeepsInit
  <2>3. CASE SysTell(Kernel, "ActorInit")
    <3>1. sys_queue' = Append(sys_queue, "ActorInit")
      BY <2>1, <2>3 DEF SysTell
    <3>2. InitIn(sys_queue')
      BY <3>1, InitStaysInQueue DEF InitInv, TypeOK, StateOK, SystemMsg
    <3>3. QED
      BY <2>1, <3>2 DEF InitInv, StartOrder, RunShape, ReceivingStarted,
                        StartComesFirst, Running, Resting
  <2>4. QED
    BY <1>7, <2>2, <2>3 DEF RestartActor
<1>8. CASE TerminateActor
  BY <1>8 DEF TerminateActor, Receive, InitInv, StartOrder, RunShape, ReceivingStarted,
              StartComesFirst, Running, Resting
<1>9. CASE RunStep
  BY <1>9, RunStepKeepsInit
<1>10. CASE UNCHANGED vars
  BY <1>10, OutsideKeepsInit DEF vars
<1>11. QED
  BY <1>1, <1>2, <1>3, <1>4, <1>5, <1>6, <1>7, <1>8, <1>9, <1>10 DEF Next

(* recv is only called on an instance whose pre_start has returned,        *)
(* however restarts, stops, panics and the creator's ActorInit interleave  *)
(* (mailbox.rs run_mailbox and handle_init, kernel.rs restart_actor).      *)
THEOREM MailboxInitBeforeRecv == Spec => []InitBeforeRecv
<1>1. Init => StartOrder
  BY DEF Init, StartOrder, RunShape, ReceivingStarted, StartComesFirst, Running, Resting
<1>2. StartOrder => InitBeforeRecv
  BY DEF StartOrder, ReceivingStarted, InitBeforeRecv
<1>3. QED
  BY <1>1, <1>2, MailboxTypeOK, InitStep, PTL DEF Spec, InitInv

=============================================================================
