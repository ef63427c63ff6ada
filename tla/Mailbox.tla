------------------------------- MODULE Mailbox ------------------------------
(***************************************************************************)
(* One actor without children, its mailbox and its kernel:                 *)
(* src/kernel/mailbox.rs, src/kernel.rs, src/kernel/kernel_ref.rs, the     *)
(* parts of src/actor/actor_cell.rs they call and the end of create_actor. *)
(*                                                                         *)
(* Senders run concurrently with the kernel.  A send enqueues, reads the   *)
(* scheduled flag, sets it and spawns a task that hands RunActor to the    *)
(* kernel; each of these is a step of its own.  The kernel runs one        *)
(* message at a time: a run of the mailbox is broken into the steps        *)
(* between which a sender can be noticed.  Both queues are the FIFO that   *)
(* Queue is proved to implement.                                           *)
(***************************************************************************)
EXTENDS Naturals, Sequences

CONSTANTS Client,             \* threads that hold a reference to the actor
          Creator,            \* the client inside create_actor
          Supervisor,         \* the thread that runs the parent
          Kernel,             \* the thread that runs the actor itself
          Msg,                \* user messages, each sent at most once
          Strategies,         \* commands the parent may answer a failure with
          msg_process_limit,  \* user messages handled in one run
          MaxPanics,          \* bound on panics of the actor's callbacks
          MaxStartPanics,     \* bound on panics of the actor's factory
          MaxStops,           \* bound on Stop commands sent by clients
          MaxEvents           \* bound on system events sent by clients

Thread == Client \cup {Supervisor, Kernel}

ASSUME ThreadAssumption ==
    /\ Creator \in Client
    /\ Supervisor \notin Client
    /\ Kernel \notin Client \cup {Supervisor}

ASSUME StrategyAssumption == Strategies \subseteq {"Stop", "Restart"}

ASSUME LimitAssumption ==
    /\ msg_process_limit \in Nat
    /\ MaxPanics \in Nat
    /\ MaxStartPanics \in Nat
    /\ MaxStops \in Nat
    /\ MaxEvents \in Nat

SystemMsg == {"ActorInit", "Stop", "Restart", "Event"}
KernelMsg == {"RunActor", "RestartActor", "TerminateActor"}

(* An instance of the actor: pre_start has run or not, post_stop has run   *)
(* or not.  "none" is Option::None.                                        *)
Instance == {"none", "fresh", "started", "stopped", "stopped_unstarted"}
PostStopped(a) == IF a \in {"started", "stopped"} THEN "stopped"
                                                 ELSE "stopped_unstarted"

Callback == {"pre_start", "post_start", "post_stop", "recv", "sys_recv", "unwrap"}

VARIABLES
    \* the mailbox
    queue,           \* user messages
    sys_queue,       \* system messages
    open,            \* the readers of both queues exist
    scheduled,       \* MailboxInner.scheduled
    suspended,       \* MailboxInner.suspended
    is_terminating,  \* ActorCellInner.is_terminating
    \* the kernel
    rx,              \* KernelMsgs sent and not yet received, in any order
    dock,            \* the parked instance, Dock.actor
    actor,           \* the instance taken out of the dock by a run
    kpc,             \* where the kernel is
    phase,           \* which call of process_sys_msgs this is
    staged,          \* system messages staged by process_sys_msgs
    count,           \* user messages handled by process_msgs in this run
    unwinding,       \* the callback whose panic is unwinding, or "none"
    poisoned,        \* the factory panicked, its mutex is poisoned
    \* senders
    dpc,             \* where each thread is in dispatch
    init_pending,    \* create_actor has not sent ActorInit yet
    failures,        \* Failed messages on their way to the parent
    \* history and budgets
    fate,            \* what became of each user message
    panics, start_panics, stops, events

mailbox_vars == <<queue, sys_queue, open, scheduled, suspended, is_terminating>>
run_vars == <<actor, kpc, phase, staged, count, unwinding>>
kernel_vars == <<rx, dock, poisoned, run_vars>>
sender_vars == <<dpc, init_pending, failures>>
budgets == <<panics, start_panics, stops, events>>
vars == <<mailbox_vars, kernel_vars, sender_vars, fate, budgets>>

Init ==
    /\ queue = <<>> /\ sys_queue = <<>> /\ open = TRUE
    /\ scheduled = FALSE /\ suspended = TRUE /\ is_terminating = FALSE
    /\ rx = [k \in KernelMsg |-> 0]
    /\ dock = "fresh" /\ actor = "none"
    /\ kpc = "idle" /\ phase = "before" /\ staged = <<>> /\ count = 0
    /\ unwinding = "none" /\ poisoned = FALSE
    /\ dpc = [t \in Thread |-> "idle"]
    /\ init_pending = TRUE /\ failures = 0
    /\ fate = [m \in Msg |-> "unsent"]
    /\ panics = 0 /\ start_panics = 0 /\ stops = 0 /\ events = 0

-----------------------------------------------------------------------------
(* kernel_ref.rs                                                           *)

(* KernelRef::send: a task of its own delivers the message, so it arrives  *)
(* for certain and after any delay.                                        *)
Send(k) == rx' = [rx EXCEPT ![k] = @ + 1]

(* The rest of dispatch, once the message is in the queue.                 *)
LoadScheduled(t) ==
    /\ dpc[t] = "load"
    /\ dpc' = [dpc EXCEPT ![t] = IF scheduled THEN "idle" ELSE "store"]
    /\ UNCHANGED <<mailbox_vars, kernel_vars, init_pending, failures, fate, budgets>>

StoreScheduled(t) ==
    /\ dpc[t] = "store"
    /\ scheduled' = TRUE
    /\ dpc' = [dpc EXCEPT ![t] = "schedule"]
    /\ UNCHANGED <<queue, sys_queue, open, suspended, is_terminating,
                   kernel_vars, init_pending, failures, fate, budgets>>

Schedule(t) ==
    /\ dpc[t] = "schedule"
    /\ Send("RunActor")
    /\ dpc' = [dpc EXCEPT ![t] = "idle"]
    /\ UNCHANGED <<mailbox_vars, dock, poisoned, run_vars,
                   init_pending, failures, fate, budgets>>

(* A system message to an actor whose queue is closed is dropped silently. *)
SysTell(t, msg) ==
    /\ dpc[t] = "idle"
    /\ sys_queue' = IF open THEN Append(sys_queue, msg) ELSE sys_queue
    /\ dpc' = [dpc EXCEPT ![t] = IF open THEN "load" ELSE "idle"]

-----------------------------------------------------------------------------
(* The senders: actor_ref.rs, actor_cell.rs                                *)

(* The creator is busy inside create_actor until it has sent ActorInit.    *)
Ready(t) == dpc[t] = "idle" /\ (init_pending => t # Creator)

(* ActorRef::tell: a message that the queue refuses becomes a dead letter. *)
Tell(t, m) ==
    /\ Ready(t)
    /\ ~init_pending
    /\ fate[m] = "unsent"
    /\ \/ /\ open
          /\ queue' = Append(queue, m)
          /\ fate' = [fate EXCEPT ![m] = "queued"]
          /\ dpc' = [dpc EXCEPT ![t] = "load"]
       \/ /\ ~open
          /\ fate' = [fate EXCEPT ![m] = "dead"]
          /\ UNCHANGED <<queue, dpc>>
    /\ UNCHANGED <<sys_queue, open, scheduled, suspended, is_terminating,
                   kernel_vars, init_pending, failures, budgets>>

(* BasicActorRef::try_tell, also reached through a selection as soon as    *)
(* the actor is among its parent's children, before ActorInit is sent.  An *)
(* unsupported message type and a closed queue are both returned as Err.   *)
TryTell(t, m) ==
    /\ Ready(t)
    /\ fate[m] = "unsent"
    /\ \/ /\ open
          /\ queue' = Append(queue, m)
          /\ fate' = [fate EXCEPT ![m] = "queued"]
          /\ dpc' = [dpc EXCEPT ![t] = "load"]
       \/ /\ fate' = [fate EXCEPT ![m] = "refused"]
          /\ UNCHANGED <<queue, dpc>>
    /\ UNCHANGED <<sys_queue, open, scheduled, suspended, is_terminating,
                   kernel_vars, init_pending, failures, budgets>>

(* ActorCell::stop.  The parent may stop the actor before ActorInit, when  *)
(* it is itself stopped from elsewhere.                                    *)
Stop(t) ==
    /\ Ready(t)
    /\ stops < MaxStops
    /\ stops' = stops + 1
    /\ SysTell(t, "Stop")
    /\ UNCHANGED <<queue, open, scheduled, suspended, is_terminating, kernel_vars,
                   init_pending, failures, fate, panics, start_panics, events>>

(* A SystemEvent the actor has subscribed to.                              *)
Event(t) ==
    /\ Ready(t)
    /\ ~init_pending
    /\ events < MaxEvents
    /\ events' = events + 1
    /\ SysTell(t, "Event")
    /\ UNCHANGED <<queue, open, scheduled, suspended, is_terminating, kernel_vars,
                   init_pending, failures, fate, panics, start_panics, stops>>

(* The last statement of Provider::create_actor.                           *)
TellInit ==
    /\ init_pending
    /\ init_pending' = FALSE
    /\ SysTell(Creator, "ActorInit")
    /\ UNCHANGED <<queue, open, scheduled, suspended, is_terminating,
                   kernel_vars, failures, fate, budgets>>

(* The parent's handle_failure.  A parent that escalates is itself stopped *)
(* or restarted, and stops its children in both cases.                     *)
Supervise ==
    /\ failures > 0
    /\ failures' = failures - 1
    /\ \E strategy \in Strategies : SysTell(Supervisor, strategy)
    /\ UNCHANGED <<queue, open, scheduled, suspended, is_terminating,
                   kernel_vars, init_pending, fate, budgets>>

-----------------------------------------------------------------------------
(* The kernel: kernel.rs                                                   *)

(* rx.next() yields one of the messages sent.                              *)
Receive(k) ==
    /\ kpc = "idle"
    /\ dpc[Kernel] = "idle"
    /\ rx[k] > 0
    /\ rx' = [rx EXCEPT ![k] = @ - 1]

(* run_mailbox, up to the first process_sys_msgs.                          *)
RunActor ==
    /\ Receive("RunActor")
    /\ actor' = dock
    /\ dock' = "none"
    /\ kpc' = "drain"
    /\ UNCHANGED <<mailbox_vars, poisoned, phase, staged, count, unwinding,
                   sender_vars, fate, budgets>>

(* restart_actor: a factory that panics leaves its mutex poisoned, so that *)
(* no later attempt succeeds either; the dock is left as it is.            *)
RestartActor ==
    /\ Receive("RestartActor")
    /\ \/ /\ ~poisoned
          /\ dock' = "fresh"
          /\ SysTell(Kernel, "ActorInit")
          /\ UNCHANGED <<poisoned, start_panics>>
       \/ /\ ~poisoned
          /\ start_panics < MaxStartPanics
          /\ start_panics' = start_panics + 1
          /\ poisoned' = TRUE
          /\ UNCHANGED <<dock, sys_queue, dpc>>
       \/ /\ poisoned
          /\ UNCHANGED <<dock, sys_queue, dpc, poisoned, start_panics>>
    /\ UNCHANGED <<queue, open, scheduled, suspended, is_terminating, run_vars,
                   init_pending, failures, fate, panics, stops, events>>

(* terminate_actor: what is in the user queue goes to the dead letters.    *)
TerminateActor ==
    /\ Receive("TerminateActor")
    /\ queue' = <<>>
    /\ fate' = [m \in Msg |-> IF fate[m] = "queued" THEN "dead" ELSE fate[m]]
    /\ kpc' = "close"
    /\ UNCHANGED <<sys_queue, open, scheduled, suspended, is_terminating, dock,
                   poisoned, actor, phase, staged, count, unwinding,
                   sender_vars, budgets>>

(* The kernel's future ends and drops the mailbox and the channel it owns, *)
(* with whatever was enqueued after the flush.                             *)
Close ==
    /\ kpc = "close"
    /\ kpc' = "closed"
    /\ open' = FALSE
    /\ queue' = <<>>
    /\ sys_queue' = <<>>
    /\ rx' = [k \in KernelMsg |-> 0]
    /\ fate' = [m \in Msg |-> IF fate[m] = "queued" THEN "dropped" ELSE fate[m]]
    /\ UNCHANGED <<scheduled, suspended, is_terminating, dock, poisoned,
                   actor, phase, staged, count, unwinding, sender_vars, budgets>>

-----------------------------------------------------------------------------
(* A run of the mailbox: mailbox.rs                                        *)

(* process_sys_msgs empties the system queue into a Vec.                   *)
Drain ==
    /\ kpc = "drain"
    /\ kpc' = "handle"
    /\ staged' = sys_queue
    /\ sys_queue' = <<>>
    /\ UNCHANGED <<queue, open, scheduled, suspended, is_terminating, rx, dock,
                   poisoned, actor, phase, count, unwinding, sender_vars, fate, budgets>>

(* A panic in callback c: the stack unwinds, dropping the instance and     *)
(* everything staged.                                                      *)
Unwinds(c) ==
    /\ kpc' = "unwind"
    /\ unwinding' = c
    /\ actor' = "none"
    /\ staged' = <<>>

Panic(c) ==
    /\ panics < MaxPanics
    /\ panics' = panics + 1
    /\ Unwinds(c)

(* Callback c returns and the message at the head of staged is handled.    *)
Handled ==
    /\ staged' = Tail(staged)
    /\ UNCHANGED <<kpc, unwinding, panics>>

Handling(msg) ==
    /\ kpc = "handle"
    /\ staged # <<>>
    /\ Head(staged) = msg

(* handle_init                                                             *)
HandleInit ==
    /\ Handling("ActorInit")
    /\ \/ /\ actor = "none"
          /\ Unwinds("unwrap")
          /\ UNCHANGED <<suspended, panics>>
       \/ /\ actor # "none"
          /\ Panic("pre_start")
          /\ UNCHANGED suspended
       \/ /\ actor # "none"
          /\ suspended' = FALSE
          /\ \/ Panic("post_start")
             \/ actor' = "started" /\ Handled
    /\ UNCHANGED <<queue, sys_queue, open, scheduled, is_terminating, rx, dock,
                   poisoned, phase, count, sender_vars, fate,
                   start_panics, stops, events>>

(* A terminate that calls post_stop first: a panic forgets the kernel.     *)
HandleStop_post_stop_first ==
    /\ Handling("Stop")
    /\ is_terminating' = TRUE
    /\ \/ actor = "none" /\ Handled /\ UNCHANGED actor /\ Send("TerminateActor")
       \/ actor # "none" /\ Panic("post_stop") /\ UNCHANGED rx
       \/ actor # "none" /\ Handled /\ actor' = PostStopped(actor)
          /\ Send("TerminateActor")
    /\ UNCHANGED <<queue, sys_queue, open, scheduled, suspended, dock, poisoned,
                   phase, count, sender_vars, fate, start_panics, stops, events>>

(* ActorCell::terminate of an actor without children.  The kernel is told  *)
(* to terminate before post_stop runs.                                     *)
HandleStop ==
    /\ Handling("Stop")
    /\ is_terminating' = TRUE
    /\ Send("TerminateActor")
    /\ \/ actor = "none" /\ Handled /\ UNCHANGED actor
       \/ actor # "none" /\ Panic("post_stop")
       \/ actor # "none" /\ Handled /\ actor' = PostStopped(actor)
    /\ UNCHANGED <<queue, sys_queue, open, scheduled, suspended, dock, poisoned,
                   phase, count, sender_vars, fate, start_panics, stops, events>>

(* ActorCell::restart of an actor without children.                        *)
HandleRestart ==
    /\ Handling("Restart")
    /\ Send("RestartActor")
    /\ Handled
    /\ UNCHANGED <<mailbox_vars, dock, poisoned, actor, phase, count,
                   sender_vars, fate, start_panics, stops, events>>

(* handle_evt: sys_recv if there is an instance.                           *)
HandleEvent ==
    /\ Handling("Event")
    /\ \/ actor # "none" /\ Panic("sys_recv")
       \/ Handled /\ UNCHANGED actor
    /\ UNCHANGED <<mailbox_vars, rx, dock, poisoned, phase, count,
                   sender_vars, fate, start_panics, stops, events>>

(* A run that does not look at the suspended flag.                         *)
HandledAll_suspended_ignored ==
    /\ kpc = "handle"
    /\ staged = <<>>
    /\ \/ /\ phase = "before"
          /\ kpc' = (IF actor # "none" THEN "recv" ELSE "drain")
          /\ phase' = (IF actor # "none" THEN phase ELSE "after")
          /\ UNCHANGED count
       \/ /\ phase = "during"
          /\ kpc' = "recv" /\ count' = count + 1
          /\ UNCHANGED phase
       \/ /\ phase = "after"
          /\ kpc' = "unset"
          /\ UNCHANGED <<phase, count>>
    /\ UNCHANGED <<mailbox_vars, rx, dock, poisoned, actor, staged, unwinding,
                   sender_vars, fate, budgets>>

(* process_sys_msgs returns to its caller.                                 *)
HandledAll ==
    /\ kpc = "handle"
    /\ staged = <<>>
    /\ \/ /\ phase = "before"
          /\ actor # "none" /\ ~suspended
          /\ kpc' = "recv"
          /\ UNCHANGED <<phase, count>>
       \/ /\ phase = "before"
          /\ actor = "none" \/ suspended
          /\ kpc' = "drain" /\ phase' = "after"
          /\ UNCHANGED count
       \/ /\ phase = "during"
          /\ kpc' = "recv" /\ count' = count + 1
          /\ UNCHANGED phase
       \/ /\ phase = "after"
          /\ kpc' = "unset"
          /\ UNCHANGED <<phase, count>>
    /\ UNCHANGED <<mailbox_vars, rx, dock, poisoned, actor, staged, unwinding,
                   sender_vars, fate, budgets>>

(* A loop that takes one message more than the limit.                      *)
Recv_one_more ==
    /\ kpc = "recv"
    /\ count <= msg_process_limit
    /\ queue # <<>>
    /\ queue' = Tail(queue)
    /\ fate' = [fate EXCEPT ![Head(queue)] = "received"]
    /\ \/ Panic("recv") /\ UNCHANGED phase
       \/ kpc' = "drain" /\ phase' = "during"
          /\ UNCHANGED <<actor, staged, unwinding, panics>>
    /\ UNCHANGED <<sys_queue, open, scheduled, suspended, is_terminating, rx,
                   dock, poisoned, count, sender_vars, start_panics, stops, events>>

(* One iteration of the loop of process_msgs.                              *)
Recv ==
    /\ kpc = "recv"
    /\ count < msg_process_limit
    /\ queue # <<>>
    /\ queue' = Tail(queue)
    /\ fate' = [fate EXCEPT ![Head(queue)] = "received"]
    /\ \/ Panic("recv") /\ UNCHANGED phase
       \/ kpc' = "drain" /\ phase' = "during"
          /\ UNCHANGED <<actor, staged, unwinding, panics>>
    /\ UNCHANGED <<sys_queue, open, scheduled, suspended, is_terminating, rx,
                   dock, poisoned, count, sender_vars, start_panics, stops, events>>

RecvDone ==
    /\ kpc = "recv"
    /\ count >= msg_process_limit \/ queue = <<>>
    /\ kpc' = "drain"
    /\ phase' = "after"
    /\ count' = 0
    /\ UNCHANGED <<mailbox_vars, rx, dock, poisoned, actor, staged,
                   unwinding, sender_vars, fate, budgets>>

(* The end of run_mailbox: park the instance, clear the flag, then look    *)
(* into both queues for what arrived while the flag was set.               *)
Unset ==
    /\ kpc = "unset"
    /\ dock' = IF actor # "none" THEN actor ELSE dock
    /\ actor' = "none"
    /\ scheduled' = FALSE
    /\ kpc' = "peek"
    /\ phase' = "before"
    /\ UNCHANGED <<queue, sys_queue, open, suspended, is_terminating, rx, poisoned,
                   staged, count, unwinding, sender_vars, fate, budgets>>

Peek ==
    /\ kpc = "peek"
    /\ kpc' = IF queue # <<>> THEN "resched" ELSE "peek_sys"
    /\ UNCHANGED <<mailbox_vars, rx, dock, poisoned, actor, phase, staged, count,
                   unwinding, sender_vars, fate, budgets>>

(* A run that ends without a look into the system queue.                   *)
PeekSys_skipped ==
    /\ kpc = "peek_sys"
    /\ kpc' = "idle"
    /\ UNCHANGED <<mailbox_vars, rx, dock, poisoned, actor, phase, staged, count,
                   unwinding, sender_vars, fate, budgets>>

PeekSys ==
    /\ kpc = "peek_sys"
    /\ kpc' = IF sys_queue # <<>> THEN "resched" ELSE "idle"
    /\ UNCHANGED <<mailbox_vars, rx, dock, poisoned, actor, phase, staged, count,
                   unwinding, sender_vars, fate, budgets>>

(* The flag stays clear: the next send schedules another run besides.      *)
Resched ==
    /\ kpc = "resched"
    /\ \/ ~scheduled /\ Send("RunActor")
       \/ scheduled /\ UNCHANGED rx
    /\ kpc' = "idle"
    /\ UNCHANGED <<mailbox_vars, dock, poisoned, actor, phase, staged, count,
                   unwinding, sender_vars, fate, budgets>>

(* A Sentinel that leaves the scheduled flag set, and one that does not    *)
(* tell the parent.                                                        *)
Unwind_scheduled ==
    /\ kpc = "unwind"
    /\ suspended' = TRUE
    /\ failures' = failures + 1
    /\ unwinding' = "none" /\ kpc' = "idle" /\ phase' = "before" /\ count' = 0
    /\ UNCHANGED <<queue, sys_queue, open, scheduled, is_terminating, rx, dock,
                   poisoned, actor, staged, dpc, init_pending, fate, budgets>>

Unwind_untold ==
    /\ kpc = "unwind"
    /\ suspended' = TRUE
    /\ scheduled' = FALSE
    /\ unwinding' = "none" /\ kpc' = "idle" /\ phase' = "before" /\ count' = 0
    /\ UNCHANGED <<queue, sys_queue, open, is_terminating, rx, dock, poisoned,
                   actor, staged, sender_vars, fate, budgets>>

(* Sentinel::drop during a panic.                                          *)
Unwind ==
    /\ kpc = "unwind"
    /\ suspended' = TRUE
    /\ scheduled' = FALSE
    /\ failures' = failures + 1
    /\ unwinding' = "none"
    /\ kpc' = "idle"
    /\ phase' = "before"
    /\ count' = 0
    /\ UNCHANGED <<queue, sys_queue, open, is_terminating, rx, dock, poisoned,
                   actor, staged, dpc, init_pending, fate, budgets>>

-----------------------------------------------------------------------------
Dispatch(t) == LoadScheduled(t) \/ StoreScheduled(t) \/ Schedule(t)

RunStep == \/ Drain \/ HandleInit \/ HandleStop \/ HandleRestart \/ HandleEvent
           \/ HandledAll \/ Recv \/ RecvDone
           \/ Unset \/ Peek \/ PeekSys \/ Resched \/ Unwind \/ Close

Next == \/ \E t \in Client : \/ \E m \in Msg : Tell(t, m) \/ TryTell(t, m)
                             \/ Stop(t)
                             \/ Event(t)
        \/ \E t \in Thread : Dispatch(t)
        \/ TellInit
        \/ Supervise
        \/ RunActor
        \/ RestartActor
        \/ TerminateActor
        \/ RunStep

(* Threads are scheduled fairly, so a dispatch and a run go on to their    *)
(* end, the creator and the parent get their turn, and the kernel channel  *)
(* does not hold back a message for ever.  Clients may stop sending.       *)
Fairness == /\ \A t \in Thread : WF_vars(Dispatch(t))
            /\ WF_vars(TellInit)
            /\ WF_vars(Supervise)
            /\ WF_vars(RunStep)
            /\ SF_vars(RunActor)
            /\ SF_vars(RestartActor)
            /\ SF_vars(TerminateActor)

Spec == Init /\ [][Next]_vars

FairSpec == Spec /\ Fairness

-----------------------------------------------------------------------------
FlagsOK ==
    /\ open \in BOOLEAN /\ scheduled \in BOOLEAN
    /\ suspended \in BOOLEAN /\ is_terminating \in BOOLEAN
    /\ poisoned \in BOOLEAN /\ init_pending \in BOOLEAN

StateOK ==
    /\ queue \in Seq(Msg) /\ sys_queue \in Seq(SystemMsg)
    /\ rx \in [KernelMsg -> Nat]
    /\ dock \in Instance /\ actor \in Instance
    /\ kpc \in {"idle", "drain", "handle", "recv", "unset", "peek", "peek_sys",
                "resched", "unwind", "close", "closed"}
    /\ phase \in {"before", "during", "after"}
    /\ staged \in Seq(SystemMsg)
    /\ count \in Nat
    /\ unwinding \in Callback \cup {"none"}
    /\ dpc \in [Thread -> {"idle", "load", "store", "schedule"}]
    /\ failures \in Nat
    /\ fate \in [Msg -> {"unsent", "queued", "received", "dead", "dropped", "refused"}]
    /\ panics \in Nat /\ start_panics \in Nat /\ stops \in Nat /\ events \in Nat

(* A run handles no more user messages than the limit, the one that it is  *)
(* at included.                                                            *)
RunBounded ==
    /\ count <= msg_process_limit
    /\ phase = "during" => \/ kpc \in {"drain", "handle"} /\ count < msg_process_limit
                           \/ kpc \in {"recv", "unwind"}

(* Types of the state, and the bound on a run that keeps one actor from    *)
(* holding a thread of the pool for ever, also when system messages are    *)
(* handled in between (mailbox.rs process_msgs).                           *)
TypeOK == FlagsOK /\ StateOK /\ RunBounded

(* Something other than a new send will make the mailbox run again: a      *)
(* RunActor on its way, a sender inside dispatch, or a failure that the    *)
(* parent has yet to answer.                                               *)
WakeupComing == \/ rx["RunActor"] > 0
                \/ \E t \in Thread : dpc[t] # "idle"
                \/ failures > 0

(* The flag that keeps senders from scheduling is never left set without a *)
(* run to come or a run that will clear it: otherwise no sender would ever *)
(* wake the actor again (kernel_ref.rs dispatch, mailbox.rs Sentinel).     *)
ScheduledMeansRun ==
    open /\ scheduled => \/ rx["RunActor"] > 0
                         \/ kpc \in {"drain", "handle", "recv", "unset", "unwind"}
                         \/ \E t \in Thread : dpc[t] = "schedule"

(* No message is left in an open mailbox that nobody is going to run       *)
(* again: neither the flag read by a sender just before the run clears it, *)
(* nor a message that arrives between the two peeks at the end of a run,   *)
(* nor a panic in mid-run loses a wakeup (kernel_ref.rs dispatch against   *)
(* mailbox.rs run_mailbox and Sentinel).                                   *)
NoLostWakeup ==
    /\ open /\ queue # <<>> =>
          \/ WakeupComing
          \/ kpc \in {"drain", "handle", "recv", "unset", "peek", "resched",
                      "unwind", "close"}
    /\ open /\ sys_queue # <<>> =>
          \/ WakeupComing
          \/ kpc \in {"drain", "handle", "recv", "unset", "peek", "peek_sys",
                      "resched", "unwind", "close"}

(* recv is only ever called on an instance whose pre_start has returned,   *)
(* also when the instance is replaced by a restart while a run, a stop or  *)
(* the creator's ActorInit is still on its way (mailbox.rs handle_init,    *)
(* kernel.rs restart_actor).                                               *)
InitBeforeRecv == kpc = "recv" => actor \in {"started", "stopped"}

(* Every message accepted by the mailbox is received by the actor or given *)
(* up with it, whatever panics and restarts come in between, as long as    *)
(* the factory itself does not panic (mailbox.rs run_mailbox).             *)
MessagesHandled == \A m \in Msg : fate[m] = "queued" ~> fate[m] # "queued"

(* An actor that has handled Stop does come to its end, even if its        *)
(* post_stop panics or it is restarted meanwhile (actor_cell.rs terminate, *)
(* kernel.rs terminate_actor).                                             *)
StopCompletes == is_terminating ~> ~open

(* A failed actor does not stay without an instance: the parent's answer   *)
(* gives it a new one or ends it (mailbox.rs Sentinel, kernel.rs           *)
(* restart_actor).                                                         *)
FailureAnswered == kpc = "unwind" ~> (dock = "fresh" \/ ~open)

(* actor_ref.rs, ActorRef: "In the event that the underlying actor is      *)
(* terminated messages sent to the actor will be routed to dead letters."  *)
DeadLettersComplete == \A m \in Msg : fate[m] # "dropped"

=============================================================================
