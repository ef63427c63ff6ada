# TLA+ models of riker

riker is an actor framework: actors with typed mailboxes run on a thread pool,
are arranged in a tree whose parents supervise their children, and are served
by channels (publish and subscribe) and a timer. This directory models the parts
of it that carry state and concurrency, checks them with TLC, and proves with
TLAPS, for every value of the constants, all the safety properties that hold and
the refinements. Paths below are relative to the repository.

## The system

| part | state | operations | who calls whom |
|---|---|---|---|
| queue (`src/kernel/queue.rs`) | an mpsc channel and `next_item`, a message set aside | `try_enqueue`, `try_dequeue`, `has_msgs` | two under every mailbox |
| mailbox (`src/kernel/mailbox.rs`) | `scheduled`, `suspended`, the two queues | `run_mailbox`, `process_msgs`, `process_sys_msgs`, the handlers, `Sentinel` | run by the kernel, written by every sender |
| kernel (`src/kernel.rs`, `kernel_ref.rs`) | the parked instance (`Dock`), a channel of `KernelMsg` | run, restart, terminate; `dispatch` on the sender's side | one future per actor; each `KernelMsg` is sent by a task of its own |
| provider (`src/kernel/provider.rs`) | the registry of paths | `create_actor`, `register`, `unregister` | any thread, or an actor inside a callback |
| cell (`src/actor/actor_cell.rs`) | children, `is_terminating`, `is_restarting` | `terminate`, `restart`, `death_watch`, `handle_failure` | called from the handlers of system messages |
| channel (`src/actor/channel.rs`) | subscriptions per topic | subscribe, unsubscribe, publish | an actor; tells its subscribers |
| timer (`src/system/timer.rs`) | once jobs, repeat jobs | schedule, cancel; a round of the thread | a thread of its own, fed by a channel |
| system (`src/system.rs`) | guardians, channels, timer handle; the sender of each `ShutdownActor` | start-up, `shutdown` | composes the above; its handle is copied wherever it goes |
| selection (`src/actor/selection.rs`) | an anchor and a path in segments | `select`, `try_tell`, `sys_tell`: a walk over the tree | any thread; tells what it finds |
| props (`src/actor/props.rs`) | a factory under a mutex, which a panic poisons | `produce` | at creation and at every restart, for all actors that share it |
| dead letter logger (`src/system/logger.rs`) | none | subscribes, logs | an actor under /system |

What is hard in it:

* a wakeup protocol without locks: senders and the run share one flag, which is
  read, written and cleared at different moments (`dispatch`, `run_mailbox`);
* panics: a callback may panic anywhere in a run, and what unwinding leaves
  behind decides whether the actor can ever run again;
* supervision across actors: stops, failures, restarts and deaths are system
  messages and kernel messages that cross each other, and kernel messages are
  not even ordered;
* names: a path is freed, reused and watched for by different threads;
* publication in several tells, subscribers that die between them, and a dead
  letter channel that is told about its own undeliverable letters;
* a timer that takes one job per round;
* a walk over a tree that changes under it, whose result is unwrapped;
* a start whose last step is a message that later ones may overtake, and a
  shutdown that waits for an event it has only asked to be told of.

`PROJECT.json` lists these hazards line by line with the properties that answer
them.

## Modules

`Fifo` is what a queue promises; `Queue` is the code; `QueueProofs` proves that
the one implements the other. `has_msgs` has to receive a message to know that
there is one; the refinement mapping puts the message set aside back in front.

`Mailbox` is one actor without children, with its mailbox, its kernel and any
number of senders. A dispatch is four steps (enqueue, read the flag, set it,
send `RunActor`); a run of the mailbox is broken at every point where a sender
could be noticed; every callback may panic; the parent answers failures. The
queues are the FIFO of `Queue`. Kernel messages are a bag, because each is sent
by its own task. `Msg` values are sent at most once, and `fate` records what
became of each. `MCMailbox` adds the symmetry for TLC. `MailboxProofs` has the
proofs.

`Supervision` is a tree of such actors, at the granularity of system messages:
`Mailbox` shows that a message in an open mailbox gets its run, so here a run
may begin whenever the kernel is free. An `Actor` is one life of an actor;
`Name` and `Parent` say which path it bears, so two lives may share a path.
Creation by another thread is four steps (register, start, add to the parent,
send ActorInit); creation inside a callback is one, because the parent handles
nothing meanwhile; a callback is any that has the context, also one that sees a
message behind which others are staged. The end of an actor is three steps: its
path is freed, the event is published, its parent is told. Those of `Watchers`
are subscribed to the event, so a parent among them hears of an end twice, and
`death_watch` acts each time on whichever child has the path by then. Factories
belong to `Props`, which actors may share; one that panics, at a creation or a
restart, is in `poisoned` from then on. `lost` records that a panic dropped
system messages staged behind the one at hand. Two history variables name the
single children for which the code promises nothing: `late` holds those created
while their parent was stopping or restarting, `forgotten` those taken off their
parent's list because another that bore the path has ended (see the findings
below). `Stop` goes to actors somebody can have the reference of: one that is
created by another thread is known to that thread alone until it is among the
children. `MCSupervision` has the trees.

`Subscriptions` says what the operations on a channel mean when registrations
are counted; `PubSub` is the promise built on it, in which an operation takes
effect when it is told; `Channel` is the code, with a mailbox, a Vec per topic
and a publication that is a loop of tells. It implements `PubSub` twice:
`ActsWhenTaken` maps the registry and the publication under way alone, so an
operation takes effect when the channel takes it from its mailbox;
`ImplementsPubSub` also applies the operations still in the mailbox (`After`),
so it takes effect when it is told. The kind of channel (user, events, dead
letters) is chosen in the initial state; it decides what becomes of a message
to a terminated subscriber. A `Subscriber` is one life of an actor, and several
may in turn have the same `Path`, by which the code compares them: an
`Unsubscribe` may take the entry that a former bearer left behind, and the actor
goes on receiving. `PubSub` therefore only says that a registration of that path
is taken back where there is one, and nobody else's; which one, and whether more
than one, it leaves open. `MCChannel` has the paths.

`Selection` is one selection and the walks over it. A path is a sequence of
tokens, so that splitting it and taking "/user/" out of it are what they are in
the code; a name may consist of several words, which is what the removal can
make of two. The walk is broken wherever it lets go of the map: between two
segments, between two children of `*`, and between finding a named child and
telling it. Actors end, are removed by name and are created at any time. Where
the selection leads is defined by ways through the tree (`Ways`, `Named`), from
its anchor and along its parts; the properties of the walk compare the actors
told with that. What the path means as it is written is defined separately
(`LeadTo`, `Selected`), from the root and by names, and `PathMeans` compares the
anchor and the parts made of it with that. An actor that ends frees its path
first, then drops its mailbox, then goes from the list, so a new one of the name
may take its place in the list meanwhile. The guardians of /user, /system and
/temp are there, as `create_root` makes them, and stay: no selection is made
during a shutdown. `MCSelection` has the tree and the paths.

`System` is a system from `create` to its end. The guardian of /user has its
system messages and its kernel messages, the latter in any order, and the
ActorSystem handle of its kernel is bare until `KernelMsg::Sys` arrives. The
events channel is its mailbox and its subscriptions, as `Channel` has them for
one topic. Each call of `shutdown` is an actor under /temp with its sender and
its future, which may be dropped. Actors below /user are created, stopped and
end, and may bear the same name one after the other; /user takes them off its
list by name, as in `Supervision`, and `late` and `forgotten` mean what they
mean there. A creation is taken at its `add_child`, the moment from which /user
counts the actor; `Supervision` has the steps before and after. A stop leads to
an end, or is lost to a panic (`LoseStop`), which is what `lost` stands for in
`Supervision`; the actor is then `stuck` until somebody stops it again. The dead
letter channel and its logger are beside it. `MCSystem` has the names.

`Timer` is the timer's thread and its callers. Instants are represented by the
ticks left until them, so time needs no bound and liveness can be checked.
Callers may ask for a time in the past; `MCTimer` has the times.

`QueueProofs`, `MailboxProofs`, `SupervisionProofs`, `ChannelProofs`,
`TimerProofs`, `SelectionProofs` and `SystemProofs` each have the theorems about
the module of that name; `InductionProofs` has the induction that two of them
need.

Operators named like another one with a suffix (`Unwind_untold`,
`try_dequeue_channel_first`, ...) are mutants: plausible mistakes in the code
that the properties are known to catch. They take no part in a specification.

## Runs

| run | shows | bounds |
|---|---|---|
| `queue` | the queue is a FIFO and a poll tells the truth | 3 messages, 3 in the channel: enough for a message set aside, one at the head and one behind |
| `mailbox` | no wakeup is lost, the flag is never stuck, no `recv` before `pre_start` | 2 clients, 2 messages, limit 1 per run, one panic, one factory panic, one stop, one event: every pair of threads can race at every step and a run can end with messages left |
| `mailbox_live` | accepted messages are handled, a stop ends the actor, a failure is answered | 2 clients, 1 message, 1 panic, 1 stop; no factory panic, which leaves an actor that never runs again |
| `supervision` | live actors have distinct paths, paths are not leaked but by a factory that panics, a parent goes, or gets its new instance, only after its children | 6 actors on 3 levels; three of them share a name under the guardian, two of which other threads create at the same time, and two share one below; the parent of these hears of each end twice; a panic in any callback of that parent or its first child, one in a factory, a stop from outside, all strategies. 670000 states |
| `supervision_live` | stops complete and failures are resolved, unless a panic dropped staged messages or the actor's factory is poisoned | 3 levels, names of their own, one panic in any callback of any actor, one in a factory, 1 stop, all strategies |
| `channel` | an operation acts as a whole when it is taken, and as if it took place when it was told; a channel comes to rest | 3 subscribers, 2 of which have the same path one after the other, `*` and a topic, 2 messages, 3 operations, 1 death, all kinds: enough for two subscriptions under a path and an unsubscription, or for a subscription, a publication and its dead letter. 330000 states |
| `timer` | once is once, a cancel is final, nothing is early, repeats keep their distance; jobs are sent, go on, and end when cancelled | 2 jobs of any kind, delays 0 and 3, a time in the past and one in the future, interval 2, a sleep of 1 and a second of 2 ticks |
| `selection` | a message goes to actors the selection leads to, once, and to all that were up meanwhile; the selection made of a path means what the path says; a panic has a reason; the walk ends | 10 actors, 3 of them the guardians below the root, with a name reused (`x`, `x2`), children that bear the names of guardians, so that a walk from a wrong place finds somebody, and a name that is two others joined; 19 paths, from the system and from an actor; 3 types of message; any number of deaths, one rebirth |
| `system` | a subscription comes before the end it waits for, a completed shutdown means all is stopped, shutdowns complete, dead letters are logged | 2 actors of one name under /user, 2 shutdowns, one of which may be dropped, 1 letter, limits 1 and 4 in a word of 4 values, so that the cast makes one of them 0. Of creations, shutdowns, drops and letters there are at most `MaxCommands` = 3 in a behaviour, which leaves each pair of them with a third: a name reused and a shutdown, an actor and two overlapping shutdowns, a dropped one beside another, a letter to an actor that is gone during a shutdown. 160000 states |

The remaining runs end in a violation. Each checks one statement of a comment,
doc or test against what the code does; they are the findings in
`PROJECT.json`:

* `mailbox_dead_letters`: a message accepted between the flush and the drop of
  the mailbox is lost;
* `supervision_post_stop`: with a reused name a parent forgets a living child;
* `system_shutdown`: `complete_start` sends /user's kernel the handle with the
  channels by a task of its own. A shutdown that follows at once may bring the
  `TerminateActor` there first; `publish_event` unwraps channels that are not
  there, the kernel panics before anybody is told, and the future of the
  shutdown never completes. `ShutdownCompletes` shows what else keeps it from
  completing: an actor created under /user while it stops, an actor below whose
  stops go on being lost, a `msg_process_limit` that is 0 after its cast, and a
  call that comes when /user has ended already.

Other differences between docs and code are visible in the models without a run
of their own:

* `terminate` only sets `is_terminating`, which nothing reads before a `recv`
  (`Mailbox!HandleStop`, `Recv`): a terminating actor still receives user
  messages, whereas `src/actor/actor_cell.rs:165` says they are suspended;
* terminated subscribers are never removed from a channel (`Channel!Terminate`
  leaves `subs` alone), whereas `src/actor/channel.rs:57` expects events that
  nothing subscribes to; on the dead letter channel that means dead letters
  without end, and `ComesToRest` shows that this is the only way in which a
  channel does not come to rest;
* a `Stop` staged behind an `ActorInit` is dropped when `pre_start` panics, and
  the actor is restarted instead; so is an `ActorTerminated` staged behind a
  message whose handling panics. The parent then waits for ever. This is what
  `lost` excuses in `StopCompletes` and `FailureResolved`, and `stuck` in
  `ShutdownCompletes`;
* a parent subscribed to the events channel runs `death_watch` twice for each
  end (`TellWatchers`, `Close`); the second time it may forget a child created
  meanwhile under the path. `ChildrenGoFirst` and `RestartAfterChildren` except
  the forgotten child, and `CompletedMeansStopped` does for /user: with a name
  reused in time a shutdown completes while an actor lives;
* a selection by name panics when the actor does not take the message or has
  just ended (`TellNamed`), whereas `src/actor/selection.rs:32` says that
  messages not supported are dropped; `sys_tell` by name uses `try_tell` and so
  panics for every actor but a guardian (`PanicsExplained`);
* "/user/" goes wherever it occurs in an absolute path (`WithoutAnchor`), so
  that `/user/x/user/y` selects `/user/xy` (which `PathMeans` excepts); `/user`
  itself and paths under other guardians select nothing; what follows a `*` in a
  path is ignored;
* a panic in `pre_start` unwinds through `Sentinel` like any other (`HandleInit`,
  `Unwind`), whereas `src/actor.rs:141` says that it does not invoke the
  supervision strategy;
* a panic drops the system messages staged behind the one being handled
  (`Unwinds`), whereas `src/kernel/mailbox.rs:266` says that all are processed;
* a factory that panics leaves its path taken (`PathsHaveBearers`), so that a
  later `actor_of` reports that the actor exists (`src/actor.rs:105`);
* `UnsubscribeAll` takes back one registration per topic (`Channel!unsubscribe`),
  and one of two survives, whereas `src/actor/channel.rs:275` says all topics;
  `PubSub` allows either;
* `unsubscribe` compares paths, and terminated subscribers stay registered: an
  actor created under a path used before may find that its `Unsubscribe` took
  the old entry, and goes on receiving;
* `schedule_at_time` cuts both times to full seconds and may send up to a second
  early, never more (`NotTooEarly`).

Deadlock is not checked where a system may stop: all actors gone, all budgets
spent.

## Fairness

`Mailbox`: the executor runs every task that is ready, so a dispatch under way,
a run under way, the creator's `ActorInit` and the parent's answer each go on
(weak fairness). Each kind of kernel message is received in the end although
others may be received before it again and again (strong fairness): the task
that sends it waits for a place in a FIFO channel. Clients may stop at any time.
`Supervision`: the same for kernels and for threads inside `create_actor`; user
messages, and therefore panics and children, may never come. `Channel`: the
channel and its subscribers are run while they have messages, which is what
`MessagesHandled` says of a mailbox. `Selection`: the thread inside a walk goes
on; nothing is assumed of the actors. `System`: the guardian, the channels, the
shutdown actors and the logger are run while they have messages, each kernel
message arrives, and an actor told to stop ends unless its stop is lost, which
is `StopCompletes` of `Supervision`. Nothing is assumed about the loss, nor that
anybody stops such an actor again, so `ShutdownCompletes` excepts the behaviours
in which one is stuck again and again or for ever; clients, also the one that
would drop a future, may do nothing. `Timer`: the thread is an operating system
thread and time passes; time may pass without a step of the thread, but not for
ever.

## Proofs

All theorems hold for any number of clients, actors, jobs, calls, subscribers
and messages, any tree, limits and budgets. TLC checks the same definitions on
the runs' instances.

`Queue`. `QueueImplementsFifo`: the invariant is the type invariant, whose point
is that at most one message is set aside; each operation is a step of `Fifo` on
`next_item \o rx`.

`Mailbox`.

* `MailboxNoLostWakeup` and `MailboxScheduledMeansRun`. Neither is inductive
  alone: a sender that finds the flag set relies on `ScheduledMeansRun`, which
  says that the flag is only ever set while a `RunActor` is on its way, a run
  has yet to clear it, or a sender is about to send one. The inductive
  invariant is `WakeupInv`, the two together with the type invariant. The step
  is split as the code is: enqueuing, the three steps of a dispatch, the steps
  of a run, the kernel's other messages. The delicate cases are a dispatch that
  gives up because the flag is set, and the two polls at the end of a run, which
  are only right because the flag was cleared before.
* `MailboxInitBeforeRecv`, from `InitInv`: an instance that is yet to start is
  suspended, or its `ActorInit` will be handled by the next `process_sys_msgs`,
  before `process_msgs` (`StartOrder`). `recv` is guarded by the flag alone, so
  the invariant follows the `ActorInit` that clears it from the queue to its
  handling.

`Supervision`. The types include that an actor lists started children of its own
(`OwnChildren`), which rests on what each step of a creation has done
(`StartedOK`). `TreeInv` has four parts beside them, each relying on those
before it:

* `PathInv`: every path taken has exactly one bearer, creations under way and
  failed ones included. It gives `SupervisionUniquePath` and
  `SupervisionPathsHaveBearers`.
* `KnownInv`: nothing happens to an actor before its reference is known, and
  every event of an end, in a queue or in the events channel, is of an actor
  that has ended, however often and to whomever it is told. The
  attempt to prove it showed that the model let a `Stop` reach an actor whose
  creation was half done, which nobody could send; `Stop` was corrected.
* `ListInv`: a parent lists every child that is alive and past `add_child`,
  unless it is forgotten. A new child takes no living one's place in the map,
  because of `PathInv`, and an end takes none off the list but the one it is of
  or one that it makes forgotten, because of `KnownInv`.
* `GoneInv`: `TerminateActor` and `RestartActor` are on their way only where the
  list has been empty, and who comes after that is late. With it follow
  `SupervisionChildrenGoFirst` and the action
  property `SupervisionRestartAfterChildren`.

`Timer`. `JobsInv` says where a job can be: an id has one job, its `Cancel` is
behind it in the channel, and a job on its way is in neither Vec and unsent.
This gives `TimerOnceAtMostOnce` and `TimerCancelIsFinal`. `TimeOK` compares the
ticks left of a job with what its caller asked for, less the part of a second
that is cut off, and gives the action property `TimerNotTooEarly`; `SpacingOK`
compares them with the ticks since its last message, and gives
`TimerRepeatSpacing`.

`System`. `StopInv`: /user lists the kids that are alive unless they are
forgotten, an `ActorTerminated` is of a kid that has ended, /user is about to
end only where the list has been empty, so that who lives then is late or
forgotten, and nobody hears of its end before it has ended; hence
`SystemCompletedMeansStopped`. `ShutdownInv` adds the places in the queues: a
call that subscribed in time is in the channel's list or its `Subscribe` is in
the mailbox, and ahead of the news. Hence `SystemSubscribedBeforeEnd`.

`Selection`. `SelectionInv` follows the walk: after k segments the path leads to
the anchor, and every way through stable actors goes over it (`OnWay`); of a
`*`, those told have been visited and the stable ones visited have been told
(`AllOK`). With what the tree keeps (`TreeInv`: an actor lists children of its
own under names of their own, and all that are stable) it gives
`SelectionOnlySelected`, `SelectionStableReached` and
`SelectionPanicsExplained`. That splitting a path and taking "/user/" out of it
yield text is proved by induction over the path.

`SelectionPathMeans` needs what the two do. A selection is made of its path by
`select` and never changed (`SelectionMade`), so `PathMeans` is a statement
about text and trees. A relative path is left as it is, and the sets `LeadTo`
computes step by step are the ends of `Ways` (`LeadToWays`). An absolute path
that begins with "/user/" and has it nowhere else loses just that
(`WithoutPrefix`); its parts are an empty one, "user" and the parts of the rest
(`SplitBehind`, `SegmentsBehind`), and a way from the root along "user" is one
from the guardian of /user with a step before it (`WayDown`, `WayUp`), since
nobody else below the root has that name (`UserBelowRoot`). Any other absolute
path keeps its first "/" (`KeepsSlash`), so its first part is empty, and nobody
bears an empty name (`SplitSlash`, `NoName`): it selects nobody. The theorem is
for any tokens, any names and any tree; the run has 19 paths.

`Channel`. `ChannelActsWhenTaken` is an argument by counting: a registration is
an entry of a Vec and a debt an entry of the references a publication still goes
to, and `push`, `remove` and the two loops of a publication add up what is
counted; `remove` at the first entry of the actor's path makes the count of one
bearer of it smaller by one (`CountUnsubscribe`, `UnsubscribeChange`).
`ChannelImplementsPubSub` adds what waits in the mailbox: the state
after n operations is a run (`RunTo`); an operation told makes the run one
longer (`RunAppend`), one taken makes it begin one later (`RunTail`), and a copy
handed out can be handed out before or after the operations that wait
(`RunPaid`).

The library's induction theorems cannot be used here, since they take a
predicate as a parameter. `InductionProofs` therefore states induction for sets
of numbers (`InductionTo`), from the least element of the set of
counterexamples, and from it that functions defined by recursion over 0..n are
what their definition says (`RecursionTo`).

Assumptions on the constants, each with its name in the module:

* thread identities are distinct, limits and budgets are naturals, strategies
  are those of the code (`ThreadAssumption`, `LimitAssumption`,
  `StrategyAssumption`, `BehaviourAssumption`, `BoundAssumption`,
  `SystemAssumption`, `TimerAssumption`: delays and intervals are naturals,
  times are integers, a second has ticks);
* the tree (`TreeAssumption`): who is up has a parent that is up; in
  `Selection`, the three guardians are below the root, where `create_root` puts
  them, nobody else is, and they take system messages;
* the guardian of /user is called "user", and no name is empty
  (`NameAssumption`): `create_root` and `validate_name`;
* actors that are up at first bear distinct paths (`AliveAssumption`, and part
  of `TreeAssumption` in `Selection`): they have been through `register`;
* paths are sequences of tokens, and selectors are the system or actors that
  are not guardians, whose callbacks select nothing (`PathAssumption`,
  `SelectorAssumption`).

Only model-checked: the liveness properties, which like `ENABLED` are out of the
prover's reach, and the three properties that are violated, whose runs show a
counterexample.

## What is left out

Weak memory: `scheduled` and `suspended` are accessed with `Relaxed` ordering,
and the models are sequentially consistent. Message content and types, except
that a message of the wrong type is refused. The kernel channel's capacity of
1000: senders wait in tasks of their own, so it delays and does not drop; for
the same reason the number of surplus `RunActor` messages has no property.
`sys_recv` of a channel, which nothing reaches. That a repeat job outlives its
receiver: the timer does not look at the receiver, and nothing says it should.
Which characters a name may have, uris, the system builder and the reading of
configuration files, log formatting, the generic constructors of `Props`, the
delegating impls of references, and the derive macro, which have no state or run
at compile time. In `System`, panics of the guardians (their callbacks do
nothing), and the other two guardians, which never stop; in `Selection`, the end
of a guardian. Subscriptions to the events channel other than those of shutdowns
are in `Supervision`, where they are there from the start.

## Plan

1. Done: queue, mailbox and kernel, supervision with failing factories, channel,
   timer, selection, start-up and shutdown; the proofs above.
2. Left: a store-buffer variant of the wakeup protocol, for the `Relaxed`
   accesses to `scheduled`.
