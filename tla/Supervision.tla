----------------------------- MODULE Supervision ----------------------------
(***************************************************************************)
(* A tree of actors: how actors are created under a parent, fail, are      *)
(* restarted, and stop with their children.  src/actor/actor_cell.rs       *)
(* (terminate, restart, death_watch, handle_failure), src/kernel.rs        *)
(* (restart_actor, terminate_actor), src/kernel/mailbox.rs (the handling   *)
(* of system messages) and src/kernel/provider.rs (create_actor and the    *)
(* registry of paths).                                                     *)
(*                                                                         *)
(* Mailbox shows that a message in an open mailbox leads to a run; here a  *)
(* run may start whenever the kernel is free.  Actors are identified by    *)
(* their reference: two of them may in turn bear the same path.  The       *)
(* channel of system events (src/actor/channel.rs, EventsChannel) is what  *)
(* Channel shows of it: a FIFO whose head it takes and tells.              *)
(***************************************************************************)
EXTENDS Naturals, Sequences

CONSTANTS Actor,          \* references, each for one life of an actor
          Guardian,       \* the guardian of /user
          Parent,         \* [Actor \ {Guardian} -> Actor]
          Name,           \* [Actor \ {Guardian} -> names]
          Props,          \* [Actor -> props]: the factory an actor is made by
          Alive,          \* actors that are up in the initial state
          Watchers,       \* those subscribed to the event ActorTerminated
          Strategies,     \* what supervisor_strategy may answer
          Fallible,       \* actors whose callbacks may panic
          PanicsIn,       \* the callbacks in which they may
          MaxPanics,      \* bound on such panics
          MaxStartPanics, \* bound on panics of factories
          MaxStops        \* bound on Stop commands from outside

ASSUME TreeAssumption ==
    /\ Guardian \in Alive
    /\ Alive \subseteq Actor
    /\ Watchers \subseteq Actor
    /\ Parent \in [Actor \ {Guardian} -> Actor]
    /\ \A a \in Alive \ {Guardian} : Parent[a] \in Alive

Strategy == {"Stop", "Restart", "Escalate"}

(* The methods of an Actor; a panic in post_start has the effect of one in *)
(* pre_start, and supervisor_strategy only answers.                        *)
Callback == {"pre_start", "post_stop", "recv", "sys_recv"}

ASSUME BehaviourAssumption ==
    /\ Strategies \subseteq Strategy
    /\ Fallible \subseteq Actor \ {Guardian}
    /\ PanicsIn \subseteq Callback
    /\ MaxPanics \in Nat /\ MaxStartPanics \in Nat /\ MaxStops \in Nat

Path(a) == <<Parent[a], Name[a]>>

(* The actors that are up at first have been through register.             *)
ASSUME AliveAssumption ==
    \A a, b \in Alive \ {Guardian} : Path(a) = Path(b) => a = b

ChildrenOf(a) == {c \in Actor \ {Guardian} : Parent[c] = a}

SystemMsg == [kind : {"ActorInit", "Stop", "Restart"}]
             \cup [kind : {"Failed", "ActorTerminated"}, actor : Actor]
KernelMsg == {"RestartActor", "TerminateActor"}

VARIABLES
    life,            \* of each actor: unborn, open, in terminate_actor
                     \* unregistered and then published, closed
    creation,        \* create_actor by a thread outside the tree
    paths,           \* Provider.paths
    children,        \* Children.actors: the references an actor lists
    sys_queue,       \* system messages of each actor
    staged,          \* those taken out by process_sys_msgs
    instance,        \* none, fresh (pre_start to come), started, stopped
    suspended,       \* Mailbox.suspended
    is_terminating,  \* ActorCellInner.is_terminating
    is_restarting,   \* ActorCellInner.is_restarting
    rx,              \* KernelMsgs on their way to each kernel, in any order
    events,          \* ends published and not yet taken by the events channel
    poisoned,        \* props whose factory panicked, under its mutex
    lost,            \* history: a panic dropped system messages not yet handled
    late,            \* history: created while the parent was to stop or restart
    forgotten,       \* history: no longer listed since another of its path ended
    panics, start_panics, stops

cells == <<children, forgotten, is_terminating, is_restarting>>
mailboxes == <<sys_queue, staged, suspended>>
factories == <<poisoned, start_panics>>
registry == <<life, creation, paths, late, events>>
outcomes == <<panics, lost, factories, stops>>
vars == <<cells, mailboxes, instance, rx, registry, outcomes>>

Init ==
    /\ life = [a \in Actor |-> IF a \in Alive THEN "open" ELSE "unborn"]
    /\ creation = [a \in Actor |-> "none"]
    /\ paths = {Path(a) : a \in Alive \ {Guardian}}
    /\ children = [a \in Actor |-> ChildrenOf(a) \cap Alive]
    /\ sys_queue = [a \in Actor |-> <<>>]
    /\ staged = [a \in Actor |-> <<>>]
    /\ instance = [a \in Actor |-> IF a \in Alive \ {Guardian} THEN "started" ELSE "fresh"]
    /\ suspended = [a \in Actor |-> a \notin Alive \ {Guardian}]
    /\ is_terminating = [a \in Actor |-> FALSE]
    /\ is_restarting = [a \in Actor |-> FALSE]
    /\ rx = [a \in Actor |-> [k \in KernelMsg |-> 0]]
    /\ events = <<>>
    /\ late = {} /\ forgotten = {}
    /\ poisoned = {} /\ lost = FALSE
    /\ panics = 0 /\ start_panics = 0 /\ stops = 0

-----------------------------------------------------------------------------
(* Helpers                                                                 *)

(* The readers of the actor's queues exist.                                *)
IsOpen(a) == life[a] \in {"open", "unregistered", "published"}

(* The kernel is between two steps of a run, or between two runs.          *)
KernelFree(a) == life[a] = "open" /\ staged[a] = <<>>

(* queues after the messages of msgs, [some actors -> message], are sent;  *)
(* a closed queue drops them.                                              *)
Told(queues, msgs) ==
    [a \in Actor |-> IF a \in DOMAIN msgs /\ IsOpen(a)
                        THEN Append(queues[a], msgs[a])
                        ELSE queues[a]]

Send(a, k) == rx' = [rx EXCEPT ![a][k] = @ + 1]

Receive(a, k) == /\ KernelFree(a)
                 /\ rx[a][k] > 0
                 /\ rx' = [rx EXCEPT ![a][k] = @ - 1]

(* Children::add: the map is keyed by name, an older entry goes.           *)
WithChild(a, c) == {d \in children[a] : Name[d] # Name[c]} \cup {c}

(* is_child compares paths, and remove_child then removes by name: the     *)
(* child of a that goes when c ends, c itself or another of its path.      *)
SamePath(a, c) == {d \in children[a] : c # Guardian /\ Path(d) = Path(c)}

(* late with c, if a is to stop or restart.                                *)
LateWith(a, c) ==
    late \cup {d \in {c} : \/ is_terminating[a]
                           \/ is_restarting[a]
                           \/ rx[a]["RestartActor"] > 0}

(* ActorProducer::produce, through start_actor: the factory is called with *)
(* its mutex locked; a panic there poisons the mutex, and every call for   *)
(* the same props panics from then on.                                     *)
Produces(a) == Props[a] \notin poisoned /\ UNCHANGED factories

ProducePanics(a) ==
    \/ Props[a] \in poisoned /\ UNCHANGED factories
    \/ /\ Props[a] \notin poisoned
       /\ start_panics < MaxStartPanics
       /\ start_panics' = start_panics + 1
       /\ poisoned' = poisoned \cup {Props[a]}

-----------------------------------------------------------------------------
(* provider.rs, create_actor: by an actor for itself, inside a callback,   *)
(* or by any thread under the guardian.                                    *)

(* A create_actor that lists the child before kernel() may give up.        *)
ActorOf_listed_first(a, c) ==
    /\ c \in ChildrenOf(a)
    /\ life[c] = "unborn" /\ creation[c] = "none"
    /\ Path(c) \notin paths
    /\ paths' = paths \cup {Path(c)}
    /\ children' = [children EXCEPT ![a] = WithChild(a, c)]
    /\ late' = LateWith(a, c)
    /\ \/ /\ Produces(c)
          /\ life' = [life EXCEPT ![c] = "open"]
          /\ sys_queue' = [sys_queue EXCEPT ![c] = Append(@, [kind |-> "ActorInit"])]
          /\ UNCHANGED creation
       \/ /\ ProducePanics(c)
          /\ creation' = [creation EXCEPT ![c] = "failed"]
          /\ UNCHANGED <<life, sys_queue>>

(* register, kernel() and the rest up to ActorInit; the parent's own       *)
(* kernel does it, so the parent handles nothing in between.  It gives up, *)
(* with the path registered, if the factory panics.                        *)
ActorOf(a, c) ==
    /\ c \in ChildrenOf(a)
    /\ life[c] = "unborn" /\ creation[c] = "none"
    /\ Path(c) \notin paths
    /\ paths' = paths \cup {Path(c)}
    /\ \/ /\ Produces(c)
          /\ life' = [life EXCEPT ![c] = "open"]
          /\ children' = [children EXCEPT ![a] = WithChild(a, c)]
          /\ late' = LateWith(a, c)
          /\ sys_queue' = [sys_queue EXCEPT ![c] = Append(@, [kind |-> "ActorInit"])]
          /\ UNCHANGED creation
       \/ /\ ProducePanics(c)
          /\ creation' = [creation EXCEPT ![c] = "failed"]
          /\ UNCHANGED <<life, children, late, sys_queue>>

(* A create_actor that ignores what register returned.                     *)
Register_unchecked(c) ==
    /\ c \in ChildrenOf(Guardian)
    /\ life[c] = "unborn" /\ creation[c] = "none"
    /\ paths' = paths \cup {Path(c)}
    /\ creation' = [creation EXCEPT ![c] = "registered"]
    /\ UNCHANGED <<cells, mailboxes, instance, rx, life, late, events, outcomes>>

Register(c) ==
    /\ c \in ChildrenOf(Guardian)
    /\ life[c] = "unborn" /\ creation[c] = "none"
    /\ Path(c) \notin paths
    /\ paths' = paths \cup {Path(c)}
    /\ creation' = [creation EXCEPT ![c] = "registered"]
    /\ UNCHANGED <<cells, mailboxes, instance, rx, life, late, events, outcomes>>

(* kernel(): the factory runs, and if it panics create_actor returns early *)
(* and the path stays registered.                                          *)
StartActor(c) ==
    /\ creation[c] = "registered"
    /\ \/ /\ Produces(c)
          /\ life' = [life EXCEPT ![c] = "open"]
          /\ creation' = [creation EXCEPT ![c] = "started"]
       \/ /\ ProducePanics(c)
          /\ creation' = [creation EXCEPT ![c] = "failed"]
          /\ UNCHANGED life
    /\ UNCHANGED <<cells, mailboxes, instance, rx, paths, late, events, panics, lost,
                   stops>>

AddChild(c) ==
    /\ creation[c] = "started"
    /\ creation' = [creation EXCEPT ![c] = "added"]
    /\ children' = [children EXCEPT ![Guardian] = WithChild(Guardian, c)]
    /\ late' = LateWith(Guardian, c)
    /\ UNCHANGED <<is_terminating, is_restarting, mailboxes, instance, rx, life, paths,
                   events, forgotten, outcomes>>

TellInit(c) ==
    /\ creation[c] = "added"
    /\ creation' = [creation EXCEPT ![c] = "done"]
    /\ sys_queue' = Told(sys_queue, [a \in {c} |-> [kind |-> "ActorInit"]])
    /\ UNCHANGED <<cells, staged, suspended, instance, rx, life, paths, late, events,
                   outcomes>>

(* Stop from a client, a sibling or the actor itself.  Nobody but the      *)
(* thread in create_actor has its reference until it is among the children.*)
Stop(a) ==
    /\ stops < MaxStops
    /\ stops' = stops + 1
    /\ life[a] # "unborn" /\ creation[a] # "started"
    /\ sys_queue' = Told(sys_queue, [b \in {a} |-> [kind |-> "Stop"]])
    /\ UNCHANGED <<cells, staged, suspended, instance, rx, registry, panics, lost,
                   factories>>

-----------------------------------------------------------------------------
(* mailbox.rs, process_sys_msgs and the handlers                           *)

Drain(a) ==
    /\ KernelFree(a)
    /\ sys_queue[a] # <<>>
    /\ staged' = [staged EXCEPT ![a] = sys_queue[a]]
    /\ sys_queue' = [sys_queue EXCEPT ![a] = <<>>]
    /\ UNCHANGED <<cells, suspended, instance, rx, registry, outcomes>>

(* A Sentinel that does not tell the parent.                               *)
Fails_untold(a, behind) ==
    /\ instance' = [instance EXCEPT ![a] = "none"]
    /\ staged' = [staged EXCEPT ![a] = <<>>]
    /\ lost' = (lost \/ behind # <<>>)
    /\ suspended' = [suspended EXCEPT ![a] = TRUE]
    /\ UNCHANGED sys_queue

(* A panic in the run of a: the instance and what is staged are dropped,   *)
(* the messages `behind` unhandled; Sentinel suspends the mailbox and      *)
(* tells the parent.                                                       *)
Fails(a, behind) ==
    /\ instance' = [instance EXCEPT ![a] = "none"]
    /\ staged' = [staged EXCEPT ![a] = <<>>]
    /\ lost' = (lost \/ behind # <<>>)
    /\ suspended' = [suspended EXCEPT ![a] = TRUE]
    /\ sys_queue' = Told(sys_queue,
                         [p \in {Parent[a]} |-> [kind |-> "Failed", actor |-> a]])

Panic(a, callback, behind) ==
    /\ a \in Fallible /\ callback \in PanicsIn
    /\ instance[a] # "none"
    /\ panics < MaxPanics
    /\ panics' = panics + 1
    /\ Fails(a, behind)

Handling(a, kind) ==
    /\ life[a] = "open"
    /\ staged[a] # <<>>
    /\ Head(staged[a]).kind = kind

Handled(a) == staged' = [staged EXCEPT ![a] = Tail(@)]

(* sys_tell(Stop) to every child.                                          *)
StopChildren(a) ==
    sys_queue' = Told(sys_queue, [c \in children[a] |-> [kind |-> "Stop"]])

PostStopped(a) == IF instance[a] = "none" THEN "none" ELSE "stopped"

(* handle_init                                                             *)
HandleInit(a) ==
    /\ Handling(a, "ActorInit")
    /\ \/ instance[a] = "none" /\ Fails(a, Tail(staged[a])) /\ UNCHANGED panics
       \/ Panic(a, "pre_start", Tail(staged[a]))
       \/ /\ instance[a] # "none"
          /\ instance' = [instance EXCEPT ![a] = "started"]
          /\ suspended' = [suspended EXCEPT ![a] = FALSE]
          /\ Handled(a)
          /\ UNCHANGED <<sys_queue, panics, lost>>
    /\ UNCHANGED <<cells, rx, registry, factories, stops>>

(* A terminate that does not wait for the children it stops.               *)
HandleStop_no_wait(a) ==
    /\ Handling(a, "Stop")
    /\ is_terminating' = [is_terminating EXCEPT ![a] = TRUE]
    /\ StopChildren(a)
    /\ Send(a, "TerminateActor")
    /\ instance' = [instance EXCEPT ![a] = PostStopped(a)]
    /\ Handled(a)
    /\ UNCHANGED <<children, forgotten, is_restarting, suspended, registry, outcomes>>

(* ActorCell::terminate                                                    *)
HandleStop(a) ==
    /\ Handling(a, "Stop")
    /\ is_terminating' = [is_terminating EXCEPT ![a] = TRUE]
    /\ \/ /\ children[a] = {}
          /\ Send(a, "TerminateActor")
          /\ \/ Panic(a, "post_stop", Tail(staged[a]))
             \/ /\ instance' = [instance EXCEPT ![a] = PostStopped(a)]
                /\ Handled(a)
                /\ UNCHANGED <<sys_queue, suspended, panics, lost>>
       \/ /\ children[a] # {}
          /\ StopChildren(a)
          /\ Handled(a)
          /\ UNCHANGED <<rx, instance, suspended, panics, lost>>
    /\ UNCHANGED <<children, forgotten, is_restarting, registry, factories, stops>>

(* A restart that does not wait for the children it stops.                 *)
HandleRestart_no_wait(a) ==
    /\ Handling(a, "Restart")
    /\ Handled(a)
    /\ StopChildren(a)
    /\ Send(a, "RestartActor")
    /\ UNCHANGED <<cells, suspended, instance, registry, outcomes>>

(* ActorCell::restart                                                      *)
HandleRestart(a) ==
    /\ Handling(a, "Restart")
    /\ Handled(a)
    /\ \/ /\ children[a] = {}
          /\ Send(a, "RestartActor")
          /\ UNCHANGED <<is_restarting, sys_queue>>
       \/ /\ children[a] # {}
          /\ is_restarting' = [is_restarting EXCEPT ![a] = TRUE]
          /\ StopChildren(a)
          /\ UNCHANGED rx
    /\ UNCHANGED <<children, forgotten, is_terminating, suspended, instance, registry,
                   outcomes>>

(* handle_failed and ActorCell::handle_failure.  It takes an instance to   *)
(* ask for the strategy.  A guardian has the default one.                  *)
HandleFailed(a) ==
    /\ Handling(a, "Failed")
    /\ LET failed == Head(staged[a]).actor
           Answer(strategy) ==
               CASE strategy = "Escalate" ->
                      [p \in {Parent[a]} |-> [kind |-> "Failed", actor |-> a]]
                 [] OTHER -> [c \in {failed} |-> [kind |-> strategy]]
       IN  \/ instance[a] = "none" /\ Fails(a, staged[a])
           \/ /\ instance[a] # "none"
              /\ \E strategy \in (IF a = Guardian THEN {"Restart"} ELSE Strategies) :
                     sys_queue' = Told(sys_queue, Answer(strategy))
              /\ Handled(a)
              /\ UNCHANGED <<instance, suspended, lost>>
    /\ UNCHANGED <<cells, rx, registry, panics, factories, stops>>

(* The child removed when another of its path ended is forgotten.          *)
Removed(a, c) ==
    /\ children' = [children EXCEPT ![a] = @ \ SamePath(a, c)]
    /\ forgotten' = forgotten \cup (SamePath(a, c) \ {c})

(* A death_watch that removes the child and does not look any further.     *)
HandleTerminated_forgets(a) ==
    /\ Handling(a, "ActorTerminated")
    /\ Removed(a, Head(staged[a]).actor)
    /\ Handled(a)
    /\ UNCHANGED <<sys_queue, suspended, instance, is_terminating, is_restarting, rx,
                   registry, outcomes>>

(* handle_evt: sys_recv sees the event before death_watch does.  The last  *)
(* child's end completes a termination, a restart, or both.  A parent that *)
(* is subscribed to these events hears of the end a second time.           *)
HandleTerminated(a) ==
    /\ Handling(a, "ActorTerminated")
    /\ LET terminated == Head(staged[a]).actor
           gone == SamePath(a, terminated)
           last == gone # {} /\ children[a] \subseteq gone
           ends == last /\ is_terminating[a]
           restarts == last /\ is_restarting[a]
       IN  \/ /\ Panic(a, "sys_recv", staged[a])
              /\ UNCHANGED <<children, forgotten, is_restarting, rx>>
           \/ /\ ends
              /\ Panic(a, "post_stop", Tail(staged[a]))
              /\ Removed(a, terminated)
              /\ Send(a, "TerminateActor")
              /\ UNCHANGED is_restarting
           \/ /\ Removed(a, terminated)
              /\ is_restarting' = [is_restarting EXCEPT ![a] = @ /\ ~restarts]
              /\ rx' = [rx EXCEPT ![a]["TerminateActor"] = @ + (IF ends THEN 1 ELSE 0),
                                  ![a]["RestartActor"] = @ + (IF restarts THEN 1 ELSE 0)]
              /\ instance' = [instance EXCEPT ![a] = IF ends THEN PostStopped(a) ELSE @]
              /\ Handled(a)
              /\ UNCHANGED <<sys_queue, suspended, panics, lost>>
    /\ UNCHANGED <<is_terminating, registry, factories, stops>>

Handle(a) == HandleInit(a) \/ HandleStop(a) \/ HandleRestart(a)
             \/ HandleFailed(a) \/ HandleTerminated(a)

(* recv of a user message, which neither is_terminating nor is_restarting  *)
(* holds back.                                                             *)
CanRecv(a) == /\ KernelFree(a)
              /\ instance[a] \in {"started", "stopped"}
              /\ ~suspended[a]

RecvPanic(a) ==
    /\ CanRecv(a)
    /\ Panic(a, "recv", <<>>)
    /\ UNCHANGED <<cells, rx, registry, factories, stops>>

(* A callback that has the context creates a child: recv, or pre_start or  *)
(* sys_recv, which see the message whose handling is not over yet.         *)
CallbackActorOf(a) ==
    /\ \/ CanRecv(a)
       \/ /\ Handling(a, "ActorInit") \/ Handling(a, "ActorTerminated")
          /\ a # Guardian /\ instance[a] # "none"
    /\ \E c \in Actor \ {Guardian} : ActorOf(a, c)
    /\ UNCHANGED <<is_terminating, is_restarting, staged, suspended, instance, rx, events,
                   forgotten, panics, lost, stops>>

-----------------------------------------------------------------------------
(* kernel.rs                                                               *)

(* restart_actor: if the factory panics the actor is left as it is.        *)
RestartActor(a) ==
    /\ Receive(a, "RestartActor")
    /\ \/ /\ Produces(a)
          /\ instance' = [instance EXCEPT ![a] = "fresh"]
          /\ sys_queue' = Told(sys_queue, [b \in {a} |-> [kind |-> "ActorInit"]])
       \/ ProducePanics(a) /\ UNCHANGED <<instance, sys_queue>>
    /\ UNCHANGED <<cells, staged, suspended, registry, panics, lost, stops>>

(* A terminate_actor that does not free the path.                          *)
TerminateActor_path_kept(a) ==
    /\ Receive(a, "TerminateActor")
    /\ life' = [life EXCEPT ![a] = "unregistered"]
    /\ UNCHANGED <<cells, mailboxes, instance, creation, paths, late, events, outcomes>>

(* terminate_actor frees the path first ...                                *)
TerminateActor(a) ==
    /\ Receive(a, "TerminateActor")
    /\ life' = [life EXCEPT ![a] = "unregistered"]
    /\ paths' = IF a = Guardian THEN paths ELSE paths \ {Path(a)}
    /\ UNCHANGED <<cells, mailboxes, instance, creation, late, events, outcomes>>

(* ... then publishes the event, of which the channel tells those who are  *)
(* subscribed, if there are any ...                                        *)
PublishEnd(a) ==
    /\ life[a] = "unregistered"
    /\ life' = [life EXCEPT ![a] = "published"]
    /\ events' = IF Watchers = {} THEN events ELSE Append(events, a)
    /\ UNCHANGED <<cells, mailboxes, instance, rx, creation, paths, late, outcomes>>

(* ... then tells the parent, unless that is the root, and is gone.        *)
Close(a) ==
    /\ life[a] = "published"
    /\ life' = [life EXCEPT ![a] = "closed"]
    /\ LET event == [kind |-> "ActorTerminated", actor |-> a]
           queues == IF a = Guardian THEN sys_queue
                                     ELSE Told(sys_queue, [p \in {Parent[a]} |-> event])
       IN  sys_queue' = [queues EXCEPT ![a] = <<>>]
    /\ rx' = [rx EXCEPT ![a] = [k \in KernelMsg |-> 0]]
    /\ UNCHANGED <<cells, staged, suspended, instance, creation, paths, late, events,
                   outcomes>>

(* EventsChannel, Publish: a system message for each subscriber.  Nobody   *)
(* has subscribed an actor whose reference only create_actor has.          *)
TellWatchers ==
    /\ events # <<>>
    /\ events' = Tail(events)
    /\ LET event == [kind |-> "ActorTerminated", actor |-> Head(events)]
           subs == {w \in Watchers : creation[w] # "started"}
       IN  sys_queue' = Told(sys_queue, [w \in subs |-> event])
    /\ UNCHANGED <<cells, staged, suspended, instance, rx, life, creation, paths, late,
                   outcomes>>

Next == \/ TellWatchers
        \/ \E a \in Actor :
            \/ Register(a) \/ StartActor(a) \/ AddChild(a) \/ TellInit(a)
            \/ Stop(a)
            \/ Drain(a) \/ Handle(a)
            \/ RecvPanic(a) \/ CallbackActorOf(a)
            \/ RestartActor(a) \/ TerminateActor(a) \/ PublishEnd(a) \/ Close(a)

(* Every thread inside create_actor goes on, every mailbox with system     *)
(* messages is run, that of the events channel too, and every kernel       *)
(* message is received in the end.                                         *)
Fairness == /\ WF_vars(TellWatchers)
            /\ \A a \in Actor :
                /\ WF_vars(StartActor(a)) /\ WF_vars(AddChild(a)) /\ WF_vars(TellInit(a))
                /\ WF_vars(Drain(a)) /\ WF_vars(Handle(a))
                /\ SF_vars(RestartActor(a)) /\ SF_vars(TerminateActor(a))
                /\ WF_vars(PublishEnd(a)) /\ WF_vars(Close(a))

Spec == Init /\ [][Next]_vars

FairSpec == Spec /\ Fairness

-----------------------------------------------------------------------------
RegistryOK ==
    /\ life \in [Actor -> {"unborn", "open", "unregistered", "published", "closed"}]
    /\ creation \in [Actor -> {"none", "registered", "started", "failed", "added", "done"}]
    /\ paths \subseteq {Path(a) : a \in Actor \ {Guardian}}
    /\ poisoned \subseteq {Props[a] : a \in Actor}
    /\ late \subseteq Actor

CellsOK ==
    /\ children \in [Actor -> SUBSET Actor]
    /\ forgotten \subseteq Actor
    /\ instance \in [Actor -> {"none", "fresh", "started", "stopped"}]
    /\ rx \in [Actor -> [KernelMsg -> Nat]]

QueuesOK ==
    /\ sys_queue \in [Actor -> Seq(SystemMsg)]
    /\ staged \in [Actor -> Seq(SystemMsg)]
    /\ events \in Seq(Actor)

FlagsOK ==
    /\ suspended \in [Actor -> BOOLEAN]
    /\ is_terminating \in [Actor -> BOOLEAN]
    /\ is_restarting \in [Actor -> BOOLEAN]
    /\ lost \in BOOLEAN

(* An actor lists children of its own only, whose kernels were started.    *)
OwnChildren ==
    \A a \in Actor : \A c \in children[a] : c \in ChildrenOf(a) /\ life[c] # "unborn"

(* The variables have their types, which the sources hold by construction, *)
(* but for OwnChildren: that is the order of the calls in create_actor     *)
(* (provider.rs create_actor, actor_cell.rs add_child).                    *)
TypeOK == RegistryOK /\ CellsOK /\ OwnChildren /\ QueuesOK /\ FlagsOK

(* No two live actors bear the same path, and a live actor's path is taken *)
(* (provider.rs register and unregister, kernel.rs terminate_actor).       *)
UniquePath ==
    \A a, b \in Actor \ {Guardian} :
        /\ life[a] = "open" => Path(a) \in paths
        /\ life[a] = "open" /\ life[b] = "open" /\ Path(a) = Path(b) => a = b

(* A path is taken by an actor that lives or is being created, or for ever *)
(* by one whose factory panicked: create_actor then gives up without       *)
(* unregistering it.  There is no other leak, and a path is free again     *)
(* when its bearer is gone (provider.rs create_actor, kernel.rs            *)
(* terminate_actor).                                                       *)
PathsHaveBearers ==
    \A p \in paths : \E a \in Actor \ {Guardian} :
        Path(a) = p /\ (life[a] = "open" \/ creation[a] \in {"registered", "failed"})

(* Every actor created under a, and listed by it once, is gone.            *)
NoChildLeft(a) == \A c \in ChildrenOf(a) :
                      life[c] = "open" => creation[c] = "started"

(* The same, but for those that came late and those that were forgotten.   *)
NoChildAwaited(a) == \A c \in ChildrenOf(a) \ (late \cup forgotten) :
                         life[c] = "open" => creation[c] = "started"

(* An actor is gone only after its children.  There are two exceptions,    *)
(* each for the one child: one created after its parent was told to stop   *)
(* or restart, and one whose path another child bore before and which went *)
(* from the list on account of that one's end, heard late or a second time *)
(* through the events channel (actor_cell.rs terminate and death_watch,    *)
(* kernel.rs terminate_actor).                                             *)
ChildrenGoFirst ==
    \A a \in Actor :
        life[a] \in {"unregistered", "published", "closed"} => NoChildAwaited(a)

(* A restart gives the actor a new instance only when the children of the  *)
(* old one are gone, with the same two exceptions (actor_cell.rs restart   *)
(* and death_watch).                                                       *)
RestartAfterChildren ==
    [][\A a \in Actor : RestartActor(a) => NoChildAwaited(a)]_vars

(* Every actor that handles Stop comes to its end, after all its children, *)
(* also when it or they fail meanwhile, or have no instance any more       *)
(* because their factory panicked, unless a child was created too late to  *)
(* be stopped or a panic dropped other messages, a Stop or the event of a  *)
(* child's end among them (actor_cell.rs terminate and death_watch,        *)
(* mailbox.rs process_sys_msgs).                                           *)
StopCompletes ==
    \A a \in Actor : is_terminating[a] ~> (life[a] = "closed" \/ late # {} \/ lost)

(* A failed actor is started anew or stopped by the strategy of its        *)
(* parent, or of the parent's parent, or its factory cannot make another   *)
(* instance, for its own failure or that of an actor from the same props.  *)
(* A child that came late or was forgotten may outlive the parent that     *)
(* would answer (actor_cell.rs handle_failure, kernel.rs restart_actor).   *)
FailureResolved ==
    \A a \in Actor \ {Guardian} :
        instance[a] = "none" ~> \/ instance[a] = "started" \/ life[a] = "closed"
                               \/ Props[a] \in poisoned
                               \/ late # {} \/ forgotten # {} \/ lost

(* tests/actors.rs, post_stop of a parent: "All children have been         *)
(* terminated at this point".                                              *)
ChildrenStoppedBeforePostStop ==
    [][\A a \in Actor : instance[a] # "stopped" /\ instance'[a] = "stopped"
                             => NoChildLeft(a)]_vars

=============================================================================
