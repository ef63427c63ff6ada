------------------------------- MODULE System -------------------------------
(***************************************************************************)
(* The start of an actor system and its shutdown.  src/system.rs (create,  *)
(* complete_start, shutdown, ShutdownActor, publish_event),                *)
(* src/kernel/provider.rs (create_root), KernelMsg::Sys of src/kernel.rs,  *)
(* and the dead letter logger of src/system/logger.rs.                     *)
(*                                                                         *)
(* An ActorSystem handle is copied when it is handed on: the guardians'    *)
(* kernels have one made before there were any channels, and only that of  *)
(* /user is sent a complete one, by a task, like every message to a        *)
(* kernel.  A shutdown is an actor under /temp that waits for the event of *)
(* the end of /user.                                                       *)
(*                                                                         *)
(* The actors under /user appear with their creation, their stop and their *)
(* end; Supervision shows when a stop leads to an end, and how a panic may *)
(* lose it.                                                                *)
(***************************************************************************)
EXTENDS Integers, Sequences, FiniteSets, SequencesExt

CONSTANTS Kid,          \* actors created under /user
          Name,         \* [Kid -> names]: kids may in turn bear the same name
          Call,         \* calls of shutdown
          Droppers,     \* calls whose future may be dropped
          Letter,       \* messages told to actors that are gone
          Names,        \* names for the system: "valid", "invalid"
          Limits,       \* mailbox.msg_process_limit of the configuration
          Word,         \* the number of values of a u32
          MaxCommands   \* bound on what clients do, letters included

ASSUME SystemAssumption ==
    /\ Droppers \subseteq Call
    /\ Names \subseteq {"valid", "invalid"}
    /\ Limits \subseteq Int
    /\ Word \in Nat \ {0} /\ MaxCommands \in Nat
    /\ "user" \notin Kid \cup Call

VARIABLES
    boot,           \* how far ActorSystem::create is
    limit,          \* SystemSettings.msg_process_limit
    user,           \* the kernel of /user: none, open, closed, panicked
    asys,           \* its ActorSystem: bare (no channels) or full
    rx,             \* KernelMsgs on their way to it, in any order
    sys_queue,      \* the system messages of /user
    is_terminating,
    kids,           \* unborn, up, stopping, stuck, unregistered, closed
    listed,         \* the children that /user lists
    events,         \* the mailbox of the sys_events channel
    subs,           \* its subscribers to "actor.terminated"
    shutdown,       \* each ShutdownActor: none, init, half started, up, failed
    inbox,          \* the ActorTerminated events told to it
    tx,             \* its sender: some, none, poisoned
    future,         \* what shutdown returned: none, pending, completed, dropped
    letters,        \* the mailbox of the dead_letters channel
    logger,         \* the dead letter logger: none, init, up, subscribed
    log_queue,      \* its mailbox
    logged,         \* what it has logged
    late,           \* history: kids created when /user was to stop
    forgotten,      \* history: kids off the list since another of the name ended
    in_time,        \* history: calls whose actor started before /user ended
    due             \* history: letters published after the logger's Subscribe

start == <<boot, limit>>
guardian == <<user, asys, rx, sys_queue, is_terminating, listed, forgotten>>
channel == <<events, subs>>
calls == <<shutdown, inbox, tx, future, in_time>>
deadLetters == <<letters, logger, log_queue, logged, due>>
vars == <<start, guardian, kids, late, channel, calls, deadLetters>>

Init ==
    /\ boot = "new" /\ limit = 0
    /\ user = "none" /\ asys = "bare"
    /\ rx = [Sys |-> 0, TerminateActor |-> 0]
    /\ sys_queue = <<>> /\ is_terminating = FALSE /\ listed = {} /\ forgotten = {}
    /\ kids = [k \in Kid |-> "unborn"] /\ late = {}
    /\ events = <<>> /\ subs = <<>>
    /\ shutdown = [s \in Call |-> "none"]
    /\ inbox = [s \in Call |-> <<>>]
    /\ tx = [s \in Call |-> "some"]
    /\ future = [s \in Call |-> "none"]
    /\ in_time = {}
    /\ letters = <<>> /\ logger = "none" /\ log_queue = <<>>
    /\ logged = {} /\ due = {}

-----------------------------------------------------------------------------
(* The events channel as its users see it                                  *)

(* Topic::from(&evt), Publish                                              *)
Publish(topic, actor) == [op |-> "Publish", topic |-> topic, actor |-> actor]

Subscribe(s) == [op |-> "Subscribe", actor |-> s]

(* publish_event, with a handle that has the channels.                     *)
PublishEvent(topic, actor) == events' = Append(events, Publish(topic, actor))

-----------------------------------------------------------------------------
(* ActorSystem::create, on the thread of the caller                        *)

(* Settings that keep the configured number.                               *)
SystemSettings_wide(n) == n

(* `as u32` of the configuration's i64.                                    *)
SystemSettings(n) == n % Word

(* validate_name                                                           *)
ValidName(name) == name = "valid"

(* A name that is not valid ends it; then the settings, the timer and a    *)
(* handle without actors and channels.                                     *)
Create(name, cfg) ==
    /\ boot = "new"
    /\ boot' = IF ValidName(name) THEN "proto" ELSE "InvalidName"
    /\ limit' = SystemSettings(cfg)
    /\ UNCHANGED <<guardian, kids, late, channel, calls, deadLetters>>

(* create_root: root, /user, /system and /temp start with that handle.     *)
CreateRoot ==
    /\ boot = "proto"
    /\ boot' = "rooted"
    /\ user' = "open"
    /\ UNCHANGED <<limit, asys, rx, sys_queue, is_terminating, listed, forgotten,
                   kids, late, channel, calls, deadLetters>>

(* sys_channels: sys_events and dead_letters are actors under /system.     *)
SysChannels ==
    /\ boot = "rooted"
    /\ boot' = "channels"
    /\ UNCHANGED <<limit, guardian, kids, late, channel, calls, deadLetters>>

StartLogger ==
    /\ boot = "channels"
    /\ boot' = "logger"
    /\ logger' = "init"
    /\ UNCHANGED <<limit, guardian, kids, late, channel, calls, letters, log_queue,
                   logged, due>>

(* complete_start: sys_init sends the full handle to /user's kernel.       *)
CompleteStart ==
    /\ boot = "logger"
    /\ boot' = "started"
    /\ rx' = [rx EXCEPT !.Sys = @ + 1]
    /\ UNCHANGED <<limit, user, asys, sys_queue, is_terminating, listed, forgotten,
                   kids, late, channel, calls, deadLetters>>

-----------------------------------------------------------------------------
(* Actors under /user                                                      *)

(* What clients have done: actors created, shutdowns, futures dropped, and *)
(* messages told to actors that are gone.                                  *)
Commands ==
    Cardinality({k \in Kid : kids[k] # "unborn"})
    + Cardinality({s \in Call : shutdown[s] # "none"})
    + Cardinality({s \in Call : future[s] = "dropped"})
    + Cardinality({l \in Letter : l \in ToSet(letters) \cup ToSet(log_queue) \cup logged})

Alive(k) == kids[k] \in {"up", "stopping", "stuck"}

SameName(k) == {j \in Kid : Name[j] = Name[k]}

(* ActorSystem::actor_of*, at the moment of add_child, and handle_init of  *)
(* the new actor, which has the full handle; nobody subscribes to the      *)
(* event of its creation.  Names are unique among those registered; in the *)
(* map of children, keyed by name, the new one takes the place of an older *)
(* one.                                                                    *)
ActorOf(k) ==
    /\ boot = "started"
    /\ kids[k] = "unborn"
    /\ \A j \in SameName(k) : ~Alive(j)
    /\ Commands < MaxCommands
    /\ kids' = [kids EXCEPT ![k] = "up"]
    /\ listed' = (listed \ SameName(k)) \cup {k}
    /\ late' = IF is_terminating THEN late \cup {k} ELSE late
    /\ PublishEvent("actor.created", k)
    /\ UNCHANGED <<start, user, asys, rx, sys_queue, is_terminating, forgotten,
                   subs, calls, deadLetters>>

(* ActorSystem::stop by a client.                                          *)
StopKid(k) ==
    /\ kids[k] \in {"up", "stuck"}
    /\ kids' = [kids EXCEPT ![k] = "stopping"]
    /\ UNCHANGED <<start, guardian, late, channel, calls, deadLetters>>

(* What is told to /user; a mailbox that is gone drops it.                 *)
ToldUser(msg) == IF user = "open" THEN Append(sys_queue, msg) ELSE sys_queue

(* A panic in the kid drops the Stop that waits behind, or the end of a    *)
(* child the kid waits for (Supervision, lost): it may be stopped again.   *)
LoseStop(k) ==
    /\ kids[k] = "stopping"
    /\ kids' = [kids EXCEPT ![k] = "stuck"]
    /\ UNCHANGED <<start, guardian, late, channel, calls, deadLetters>>

(* terminate_actor of a kid, which has a full handle: its path is free     *)
(* before anybody hears of its end.                                        *)
Unregister(k) ==
    /\ kids[k] = "stopping"
    /\ kids' = [kids EXCEPT ![k] = "unregistered"]
    /\ UNCHANGED <<start, guardian, late, channel, calls, deadLetters>>

KidEnds(k) ==
    /\ kids[k] = "unregistered"
    /\ kids' = [kids EXCEPT ![k] = "closed"]
    /\ PublishEvent("actor.terminated", k)
    /\ sys_queue' = ToldUser([kind |-> "ActorTerminated", actor |-> k])
    /\ UNCHANGED <<start, user, asys, rx, is_terminating, listed, forgotten, late,
                   subs, calls, deadLetters>>

-----------------------------------------------------------------------------
(* The guardian of /user                                                   *)

Terminating(n) == rx' = [rx EXCEPT !.TerminateActor = @ + n]

(* terminate                                                               *)
HandleStop ==
    /\ user = "open" /\ sys_queue # <<>> /\ Head(sys_queue).kind = "Stop"
    /\ sys_queue' = Tail(sys_queue)
    /\ is_terminating' = TRUE
    /\ Terminating(IF listed = {} THEN 1 ELSE 0)
    /\ kids' = [k \in Kid |-> IF k \in listed /\ Alive(k)
                                 THEN "stopping" ELSE kids[k]]
    /\ UNCHANGED <<start, user, asys, listed, forgotten, late, channel, calls,
                   deadLetters>>

(* is_child compares paths and remove_child removes by name: the one that  *)
(* goes may be a new kid of that name.                                     *)
Removed(k) ==
    /\ listed' = listed \ SameName(k)
    /\ forgotten' = forgotten \cup ((listed \cap SameName(k)) \ {k})

(* A death_watch that only takes the child off the list.                   *)
HandleTerminated_forgets ==
    /\ user = "open" /\ sys_queue # <<>> /\ Head(sys_queue).kind = "ActorTerminated"
    /\ sys_queue' = Tail(sys_queue)
    /\ Removed(Head(sys_queue).actor)
    /\ UNCHANGED <<start, user, asys, rx, is_terminating, kids, late, channel,
                   calls, deadLetters>>

(* death_watch                                                             *)
HandleTerminated ==
    /\ user = "open" /\ sys_queue # <<>> /\ Head(sys_queue).kind = "ActorTerminated"
    /\ sys_queue' = Tail(sys_queue)
    /\ Removed(Head(sys_queue).actor)
    /\ Terminating(IF is_terminating /\ listed # {} /\ listed' = {} THEN 1 ELSE 0)
    /\ UNCHANGED <<start, user, asys, is_terminating, kids, late, channel, calls,
                   deadLetters>>

ReceiveSys ==
    /\ user = "open" /\ rx.Sys > 0
    /\ rx' = [rx EXCEPT !.Sys = @ - 1]
    /\ asys' = "full"
    /\ UNCHANGED <<start, user, sys_queue, is_terminating, listed, forgotten, kids,
                   late, channel, calls, deadLetters>>

(* terminate_actor: publish_event unwraps the channels of the handle.  A   *)
(* panic ends the kernel before anybody hears of it.                       *)
ReceiveTerminate ==
    /\ user = "open" /\ rx.TerminateActor > 0
    /\ \/ /\ asys = "full"
          /\ user' = "closed"
          /\ PublishEvent("actor.terminated", "user")
       \/ /\ asys = "bare"
          /\ user' = "panicked"
          /\ UNCHANGED events
    /\ rx' = [Sys |-> 0, TerminateActor |-> 0]
    /\ sys_queue' = <<>>
    /\ UNCHANGED <<start, asys, is_terminating, listed, forgotten, kids, late,
                   subs, calls, deadLetters>>

-----------------------------------------------------------------------------
(* The channels: recv, for as many messages in a run as the limit allows.  *)

(* Every registration counts; nobody registers for another topic.          *)
Deliver(s, msg) ==
    LET copies == Cardinality({i \in DOMAIN subs : subs[i] = s})
    IN  IF msg.topic = "actor.terminated"
           THEN inbox[s] \o [i \in 1..copies |-> msg.actor]
           ELSE inbox[s]

HandleEvent ==
    /\ events # <<>> /\ limit > 0
    /\ events' = Tail(events)
    /\ LET msg == Head(events)
       IN  \/ /\ msg.op = "Subscribe"
              /\ subs' = Append(subs, msg.actor)
              /\ UNCHANGED inbox
           \/ /\ msg.op = "Publish"
              /\ inbox' = [s \in Call |-> Deliver(s, msg)]
              /\ UNCHANGED subs
    /\ UNCHANGED <<start, guardian, kids, late, shutdown, tx, future, in_time,
                   deadLetters>>

-----------------------------------------------------------------------------
(* shutdown and ShutdownActor                                              *)

Shutdown(s) ==
    /\ boot = "started"
    /\ shutdown[s] = "none"
    /\ Commands < MaxCommands
    /\ shutdown' = [shutdown EXCEPT ![s] = "init"]
    /\ future' = [future EXCEPT ![s] = "pending"]
    /\ UNCHANGED <<start, guardian, kids, late, channel, inbox, tx, in_time,
                   deadLetters>>

DropFuture(s) ==
    /\ s \in Droppers
    /\ Commands < MaxCommands
    /\ future[s] = "pending"
    /\ future' = [future EXCEPT ![s] = "dropped"]
    /\ UNCHANGED <<start, guardian, kids, late, channel, shutdown, inbox, tx,
                   in_time, deadLetters>>

(* A pre_start that stops /user before it subscribes to its end.           *)
Tells_swapped == <<"Stop", "Subscribe">>

(* What pre_start of ShutdownActor does, one after the other.              *)
Tells == <<"Subscribe", "Stop">>

(* The two tells, made when the actor is started or restarted.             *)
PreStart(s) ==
    /\ shutdown[s] \in {"init", "half"}
    /\ shutdown' = [shutdown EXCEPT ![s] = IF @ = "init" THEN "half" ELSE "up"]
    /\ LET tell == IF shutdown[s] = "init" THEN Tells[1] ELSE Tells[2]
       IN  \/ /\ tell = "Subscribe"
              /\ events' = Append(events, Subscribe(s))
              /\ UNCHANGED sys_queue
           \/ /\ tell = "Stop"
              /\ sys_queue' = ToldUser([kind |-> "Stop"])
              /\ UNCHANGED events
    /\ in_time' = IF user = "open" /\ shutdown[s] = "init" THEN in_time \cup {s}
                                                           ELSE in_time
    /\ UNCHANGED <<start, user, asys, rx, is_terminating, listed, forgotten, kids,
                   late, subs, inbox, tx, future, deadLetters>>

(* A ShutdownActor that takes the end of any actor for that of /user.      *)
Receive_any(s) ==
    /\ shutdown[s] \in {"init", "up"} /\ inbox[s] # <<>>
    /\ inbox' = [inbox EXCEPT ![s] = Tail(@)]
    /\ tx' = [tx EXCEPT ![s] = "none"]
    /\ future' = [future EXCEPT ![s] = IF @ = "pending" THEN "completed" ELSE @]
    /\ UNCHANGED <<start, guardian, kids, late, channel, shutdown, in_time,
                   deadLetters>>

(* sys_recv and receive(ActorTerminated).  The sender is taken and used    *)
(* under its lock, which is poisoned if nobody waits any more.             *)
Receive(s) ==
    /\ shutdown[s] \in {"init", "up"} /\ inbox[s] # <<>>
    /\ inbox' = [inbox EXCEPT ![s] = Tail(@)]
    /\ \/ /\ Head(inbox[s]) # "user" \/ tx[s] # "some"
          /\ UNCHANGED <<shutdown, tx, future>>
       \/ /\ Head(inbox[s]) = "user" /\ tx[s] = "some"
          /\ \/ /\ future[s] = "pending"
                /\ future' = [future EXCEPT ![s] = "completed"]
                /\ tx' = [tx EXCEPT ![s] = "none"]
                /\ UNCHANGED shutdown
             \/ /\ future[s] = "dropped"
                /\ tx' = [tx EXCEPT ![s] = "poisoned"]
                /\ shutdown' = [shutdown EXCEPT ![s] = "failed"]
                /\ UNCHANGED future
    /\ UNCHANGED <<start, guardian, kids, late, channel, in_time, deadLetters>>

(* handle_evt without an instance.                                         *)
IgnoreEvent(s) ==
    /\ shutdown[s] = "failed" /\ inbox[s] # <<>>
    /\ inbox' = [inbox EXCEPT ![s] = Tail(@)]
    /\ UNCHANGED <<start, guardian, kids, late, channel, shutdown, tx, future,
                   in_time, deadLetters>>

(* /temp restarts it, with the same sender.                                *)
Restarted(s) ==
    /\ shutdown[s] = "failed"
    /\ shutdown' = [shutdown EXCEPT ![s] = "init"]
    /\ PublishEvent("actor.restarted", s)
    /\ UNCHANGED <<start, guardian, kids, late, subs, inbox, tx, future, in_time,
                   deadLetters>>

-----------------------------------------------------------------------------
(* Dead letters                                                            *)

(* A logger that does not subscribe.                                       *)
LoggerInit_silent ==
    /\ logger = "init"
    /\ logger' = "up"
    /\ UNCHANGED <<start, guardian, kids, late, channel, calls, letters, log_queue,
                   logged, due>>

(* DeadLetterLogger::pre_start                                             *)
LoggerInit ==
    /\ logger = "init"
    /\ logger' = "up"
    /\ letters' = Append(letters, "Subscribe")
    /\ UNCHANGED <<start, guardian, kids, late, channel, calls, log_queue, logged,
                   due>>

(* ExtendedCell::send_msg to an actor that is gone.                        *)
TellGone(l) ==
    /\ \E k \in Kid : kids[k] = "closed"
    /\ Commands < MaxCommands
    /\ l \notin ToSet(letters) \cup ToSet(log_queue) \cup logged
    /\ letters' = Append(letters, l)
    /\ due' = IF logger = "init" THEN due ELSE due \cup {l}
    /\ UNCHANGED <<start, guardian, kids, late, channel, calls, logger, log_queue,
                   logged>>

HandleLetter ==
    /\ letters # <<>> /\ limit > 0
    /\ letters' = Tail(letters)
    /\ \/ /\ Head(letters) = "Subscribe"
          /\ logger' = "subscribed"
          /\ UNCHANGED log_queue
       \/ /\ Head(letters) # "Subscribe"
          /\ log_queue' = IF logger = "subscribed" THEN Append(log_queue, Head(letters))
                                                   ELSE log_queue
          /\ UNCHANGED logger
    /\ UNCHANGED <<start, guardian, kids, late, channel, calls, logged, due>>

(* DeadLetterLogger::recv                                                  *)
Log ==
    /\ log_queue # <<>> /\ limit > 0
    /\ log_queue' = Tail(log_queue)
    /\ logged' = logged \cup {Head(log_queue)}
    /\ UNCHANGED <<start, guardian, kids, late, channel, calls, letters, logger,
                   due>>

-----------------------------------------------------------------------------
Start == \/ \E name \in Names, cfg \in Limits : Create(name, cfg)
         \/ CreateRoot \/ SysChannels \/ StartLogger \/ CompleteStart

User == HandleStop \/ HandleTerminated \/ ReceiveSys \/ ReceiveTerminate

ShutdownActor(s) == PreStart(s) \/ Receive(s) \/ IgnoreEvent(s) \/ Restarted(s)

Next == \/ Start \/ User \/ HandleEvent
        \/ \E k \in Kid : \/ ActorOf(k) \/ StopKid(k) \/ LoseStop(k)
                          \/ Unregister(k) \/ KidEnds(k)
        \/ \E s \in Call : Shutdown(s) \/ DropFuture(s) \/ ShutdownActor(s)
        \/ \E l \in Letter : TellGone(l)
        \/ LoggerInit \/ HandleLetter \/ Log

(* Actors with messages are run, tasks send what they were given, and an   *)
(* actor told to stop ends if its stop is not lost.                        *)
Fairness == /\ WF_vars(HandleStop) /\ WF_vars(HandleTerminated)
            /\ WF_vars(ReceiveSys) /\ WF_vars(ReceiveTerminate)
            /\ WF_vars(HandleEvent)
            /\ \A k \in Kid : WF_vars(Unregister(k)) /\ WF_vars(KidEnds(k))
            /\ \A s \in Call : WF_vars(ShutdownActor(s))
            /\ WF_vars(LoggerInit) /\ WF_vars(HandleLetter) /\ WF_vars(Log)

Spec == Init /\ [][Next]_vars /\ Fairness

-----------------------------------------------------------------------------
UserMsg == [kind : {"Stop"}] \cup [kind : {"ActorTerminated"}, actor : Kid]

ChannelMsg ==
    [op : {"Subscribe"}, actor : Call]
    \cup [op : {"Publish"}, topic : {"actor.created", "actor.terminated"},
          actor : Kid \cup {"user"}]
    \cup [op : {"Publish"}, topic : {"actor.restarted"}, actor : Call]

TypeOK ==
    /\ boot \in {"new", "InvalidName", "proto", "rooted", "channels", "logger", "started"}
    /\ limit \in 0..Word - 1
    /\ user \in {"none", "open", "closed", "panicked"}
    /\ asys \in {"bare", "full"}
    /\ rx \in [Sys : Nat, TerminateActor : Nat]
    /\ sys_queue \in Seq(UserMsg)
    /\ is_terminating \in BOOLEAN
    /\ kids \in [Kid -> {"unborn", "up", "stopping", "stuck", "unregistered", "closed"}]
    /\ listed \subseteq Kid /\ late \subseteq Kid /\ forgotten \subseteq Kid
    /\ events \in Seq(ChannelMsg) /\ subs \in Seq(Call)
    /\ shutdown \in [Call -> {"none", "init", "half", "up", "failed"}]
    /\ inbox \in [Call -> Seq(Kid \cup {"user"})]
    /\ tx \in [Call -> {"some", "none", "poisoned"}]
    /\ future \in [Call -> {"none", "pending", "completed", "dropped"}]
    /\ letters \in Seq(Letter \cup {"Subscribe"}) /\ log_queue \in Seq(Letter)
    /\ logger \in {"none", "init", "up", "subscribed"}
    /\ logged \subseteq Letter /\ due \subseteq Letter /\ in_time \subseteq Call

(* When the future of a shutdown completes, /user has ended, and so have   *)
(* all actors below it that were there when it began to stop, except one   *)
(* whose name was that of another when that one's end was heard: /user has *)
(* forgotten it (system.rs ShutdownActor, actor_cell.rs death_watch).      *)
CompletedMeansStopped ==
    \A s \in Call : future[s] = "completed" =>
        /\ user = "closed"
        /\ \A k \in Kid \ (late \cup forgotten) : ~Alive(k)

UserEnded == Publish("actor.terminated", "user")

(* A shutdown never misses the end it brought about: whoever told /user to *)
(* stop has its subscription before the end of /user, in the channel's     *)
(* mailbox or handled, although nothing confirms it (system.rs pre_start   *)
(* of ShutdownActor, and its todo).                                        *)
SubscribedBeforeEnd ==
    user = "closed" =>
        \A s \in in_time :
            \/ "user" \in ToSet(inbox[s]) \/ tx[s] # "some"
            \/ \E i \in DOMAIN events :
                  /\ events[i] = UserEnded
                  /\ s \in ToSet(subs) \/ \E j \in 1..i : events[j] = Subscribe(s)

(* The future of every shutdown that begins before /user has ended         *)
(* completes, also that of one among several, unless an actor was created  *)
(* too late, the kernel of /user got its stop before its handle, the       *)
(* configured limit is a multiple of 2^32, or the stops of an actor below  *)
(* go on being lost (system.rs shutdown).                                  *)
ShutdownCompletes ==
    \/ []<>(\E k \in Kid : kids[k] = "stuck")
    \/ \A s \in Call :
          s \in in_time ~> \/ future[s] \in {"completed", "dropped"}
                           \/ user = "panicked" \/ late # {} \/ limit = 0

(* A dead letter published after the logger has told its subscription is   *)
(* logged (logger.rs DeadLetterLogger).                                    *)
LettersLogged == \A l \in Letter : l \in due ~> (l \in logged \/ limit = 0)

(* system.rs, shutdown: "Returns a future which is completed when all      *)
(* actors have successfully stopped."                                      *)
ShutdownReturns == \A s \in Call : future[s] = "pending" ~> future[s] # "pending"

=============================================================================
