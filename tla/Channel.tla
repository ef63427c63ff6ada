------------------------------- MODULE Channel ------------------------------
(***************************************************************************)
(* A channel actor, src/actor/channel.rs: a user channel (Channel<Msg>),   *)
(* the system's event channel (EventsChannel) or the channel of dead       *)
(* letters (Channel<DeadLetter>), with its subscribers.                    *)
(*                                                                         *)
(* Clients tell it operations; they wait in its mailbox, the FIFO of       *)
(* Mailbox, and the channel handles one at a time.  A publication is a     *)
(* loop of tells, and between two of them clients, subscribers and their   *)
(* termination go on.  A tell to a terminated subscriber is a dead letter  *)
(* on a user channel, is dropped on the event channel (sys_tell), and on   *)
(* the dead letter channel comes back to the channel itself.  Nobody takes *)
(* a terminated subscriber out of the registry, and another actor may be   *)
(* created with its path.                                                  *)
(***************************************************************************)
EXTENDS Subscriptions, SequencesExt

CONSTANTS Kinds,         \* which of the three channels are considered
          MaxTells,      \* bound on operations told by clients
          MaxDeaths,     \* bound on subscribers that terminate
          MailboxBound,  \* bound on the channel's mailbox
          InboxBound     \* bound on a subscriber's mailbox

ASSUME KindAssumption == Kinds \subseteq {"user", "events", "dead_letters"}

ASSUME BoundAssumption ==
    MaxTells \in Nat /\ MaxDeaths \in Nat /\ MailboxBound \in Nat /\ InboxBound \in Nat

VARIABLES kind,      \* which channel this is
          mailbox,   \* operations told to the channel, not yet handled
          subs,      \* Channel.subs, an absent topic being an empty Vec
          current,   \* the message being published
          targets,   \* references it is still to be told to
          inbox,     \* each subscriber's mailbox
          life,      \* unborn, open, or where it is in terminate_actor
          tells      \* operations told so far

vars == <<kind, mailbox, subs, current, targets, inbox, life, tells>>

Init ==
    /\ kind \in Kinds
    /\ mailbox = <<>>
    /\ subs = [t \in Topic |-> <<>>]
    /\ current = DeadLetter /\ targets = <<>>
    /\ inbox = [s \in Subscriber |-> <<>>]
    /\ life = [s \in Subscriber |-> "unborn"]
    /\ tells = 0

-----------------------------------------------------------------------------
(* Clients                                                                 *)

(* Who tells an operation on an actor has a reference to it.               *)
Tell(o) ==
    /\ o.op # "Publish" => life[o.actor] # "unborn"
    /\ tells < MaxTells /\ Len(mailbox) < MailboxBound
    /\ mailbox' = Append(mailbox, o)
    /\ tells' = tells + 1
    /\ UNCHANGED <<kind, subs, current, targets, inbox, life>>

-----------------------------------------------------------------------------
(* The channel                                                             *)

(* Mutant: pop, which drops the last entry wherever the actor's is.        *)
unsubscribe_pops(v, actor) ==
    IF \E i \in DOMAIN v : SamePath(v[i], actor) THEN Front(v) ELSE v

(* fn unsubscribe: the first entry with the actor's path goes, be it of    *)
(* this actor or of one that had the path before.                          *)
unsubscribe(v, actor) == RemoveFirstMatch(v, LAMBDA x : SamePath(x, actor))

Receive(op) ==
    /\ targets = <<>> /\ mailbox # <<>>
    /\ Head(mailbox).op = op
    /\ mailbox' = Tail(mailbox)
    /\ UNCHANGED <<kind, inbox, life, tells>>

ReceiveSubscribe ==
    /\ Receive("Subscribe")
    /\ subs' = [subs EXCEPT ![Head(mailbox).topic] = Append(@, Head(mailbox).actor)]
    /\ UNCHANGED <<current, targets>>

ReceiveUnsubscribe ==
    /\ Receive("Unsubscribe")
    /\ subs' = [subs EXCEPT ![Head(mailbox).topic] = unsubscribe(@, Head(mailbox).actor)]
    /\ UNCHANGED <<current, targets>>

ReceiveUnsubscribeAll ==
    /\ Receive("UnsubscribeAll")
    /\ subs' = [t \in Topic |-> unsubscribe(subs[t], Head(mailbox).actor)]
    /\ UNCHANGED <<current, targets>>

(* Mutant: a subscriber found for "*" stops the search.                    *)
ReceivePublish_either ==
    /\ Receive("Publish")
    /\ current' = Head(mailbox).msg
    /\ targets' = IF subs[All] # <<>> THEN subs[All] ELSE subs[Head(mailbox).topic]
    /\ UNCHANGED subs

(* The two loops of Receive<Publish>: subscribers of "*", then those of    *)
(* the topic.                                                              *)
ReceivePublish ==
    /\ Receive("Publish")
    /\ current' = Head(mailbox).msg
    /\ targets' = subs[All] \o subs[Head(mailbox).topic]
    /\ UNCHANGED subs

(* Mutant: every channel hears of its own dead letters.                    *)
DeadLetters_any ==
    /\ Len(mailbox) < MailboxBound
    /\ mailbox' = Append(mailbox, DeadPublish)

(* A message that cannot be delivered: only the channel of dead letters    *)
(* hears of it again.  Publishing to itself is bounded like any tell.      *)
DeadLetters ==
    IF kind = "dead_letters"
    THEN /\ Len(mailbox) < MailboxBound
         /\ mailbox' = Append(mailbox, DeadPublish)
    ELSE UNCHANGED mailbox

(* sub.tell, or sub.sys_tell on the event channel.                         *)
TellTarget ==
    /\ targets # <<>>
    /\ targets' = Tail(targets)
    /\ LET s == Head(targets)
       IN  \/ /\ life[s] # "closed"
              /\ Len(inbox[s]) < InboxBound
              /\ inbox' = [inbox EXCEPT ![s] = Append(@, current)]
              /\ UNCHANGED mailbox
           \/ /\ life[s] = "closed"
              /\ DeadLetters
              /\ UNCHANGED inbox
    /\ UNCHANGED <<kind, subs, current, life, tells>>

-----------------------------------------------------------------------------
(* Subscribers                                                             *)

(* Mutant: the path is not looked up before the actor is created.          *)
Create_unchecked(s) ==
    /\ life[s] = "unborn"
    /\ life' = [life EXCEPT ![s] = "open"]
    /\ UNCHANGED <<kind, mailbox, subs, current, targets, inbox, tells>>

(* create_actor: the path is free, its last bearer having left             *)
(* terminate_actor's unregister behind.                                    *)
Create(s) ==
    /\ life[s] = "unborn"
    /\ \A r \in Subscriber : SamePath(r, s) => life[r] # "open"
    /\ life' = [life EXCEPT ![s] = "open"]
    /\ UNCHANGED <<kind, mailbox, subs, current, targets, inbox, tells>>

Handle(s) ==
    /\ life[s] = "open" /\ inbox[s] # <<>>
    /\ inbox' = [inbox EXCEPT ![s] = Tail(@)]
    /\ UNCHANGED <<kind, mailbox, subs, current, targets, life, tells>>

(* terminate_actor: the path is unregistered, user messages left in the    *)
(* mailbox are flushed to dead letters, system messages are not; then the  *)
(* mailbox is dropped.                                                     *)
Terminate(s) ==
    /\ life[s] = "open"
    /\ Cardinality({r \in Subscriber : life[r] \notin {"unborn", "open"}}) < MaxDeaths
    /\ life' = [life EXCEPT ![s] = "flushing"]
    /\ UNCHANGED <<kind, mailbox, subs, current, targets, inbox, tells>>

Flush(s) ==
    /\ life[s] = "flushing" /\ kind # "events" /\ inbox[s] # <<>>
    /\ inbox' = [inbox EXCEPT ![s] = Tail(@)]
    /\ DeadLetters
    /\ UNCHANGED <<kind, subs, current, targets, life, tells>>

Flushed(s) ==
    /\ life[s] = "flushing"
    /\ kind # "events" => inbox[s] = <<>>
    /\ life' = [life EXCEPT ![s] = "flushed"]
    /\ UNCHANGED <<kind, mailbox, subs, current, targets, inbox, tells>>

(* The readers are dropped, with what came in since.                       *)
Close(s) ==
    /\ life[s] = "flushed"
    /\ life' = [life EXCEPT ![s] = "closed"]
    /\ inbox' = [inbox EXCEPT ![s] = <<>>]
    /\ UNCHANGED <<kind, mailbox, subs, current, targets, tells>>

-----------------------------------------------------------------------------
ChannelStep ==
    \/ ReceiveSubscribe
    \/ ReceiveUnsubscribe
    \/ ReceiveUnsubscribeAll
    \/ ReceivePublish
    \/ TellTarget

ClientMsg == {o \in ChannelMsg : o.op = "Publish" => o.msg \in Msg}

Next ==
    \/ \E o \in ClientMsg : Tell(o)
    \/ ChannelStep
    \/ \E s \in Subscriber :
          Create(s) \/ Handle(s) \/ Terminate(s) \/ Flush(s) \/ Flushed(s) \/ Close(s)

Spec == Init /\ [][Next]_vars

(* The channel and its subscribers are run as long as they have messages   *)
(* (Mailbox, MessagesHandled) and a termination once begun is one pass of  *)
(* the kernel.  Clients owe nothing.                                       *)
Terminating(s) == Flush(s) \/ Flushed(s) \/ Close(s)

Fairness ==
    /\ WF_vars(ChannelStep)
    /\ \A s \in Subscriber : WF_vars(Handle(s)) /\ WF_vars(Terminating(s))

FairSpec == Spec /\ Fairness

-----------------------------------------------------------------------------
(* Types: entries of the registry and references in a publication are      *)
(* subscribers, what waits in a mailbox is an operation or a message.  The *)
(* path by which the channel knows a subscriber is that of one actor at a  *)
(* time: no live actor's registration is taken back in place of another's. *)
TypeOK ==
    /\ kind \in Kinds
    /\ mailbox \in Seq(ChannelMsg) /\ Len(mailbox) <= MailboxBound
    /\ subs \in [Topic -> Seq(Subscriber)]
    /\ current \in Payload /\ targets \in Seq(Subscriber)
    /\ inbox \in [Subscriber -> Seq(Payload)]
    /\ life \in [Subscriber -> {"unborn", "open", "flushing", "flushed", "closed"}]
    /\ \A r, s \in Subscriber :
          SamePath(r, s) /\ life[r] = "open" /\ life[s] = "open" => r = s
    /\ tells \in 0..MaxTells

(* What the registry and the publication under way amount to.              *)
Count(q, s) == Cardinality({i \in DOMAIN q : q[i] = s})

Counts[registry \in [Topic -> Seq(Subscriber)]] ==
    [s \in Subscriber |-> [t \in Topic |-> Count(registry[t], s)]]

Held == Counts[subs]

Owed == [s \in Subscriber |-> Copies(current, Count(targets, s))]

Living == {s \in Subscriber : life[s] # "closed"}

Taken == INSTANCE PubSub WITH
    held <- Held, owed <- Owed, inbox <- inbox, alive <- Living

(* Although the registry is a HashMap of Vecs and a publication is told to *)
(* one reference after the other while clients, subscribers and their      *)
(* termination go on, an operation acts as a whole when the channel takes  *)
(* it from its mailbox: each registration is one copy of each message,     *)
(* none is lost, doubled or told out of turn, and unsubscribing takes from *)
(* no other path (channel.rs recv, unsubscribe).                           *)
ActsWhenTaken ==
    /\ Taken!Spec
    /\ [][Len(mailbox') < Len(mailbox) => Taken!Tell(Head(mailbox))]_vars

(* The registry after an operation.                                        *)
Registry(registry, o) ==
    CASE o.op = "Subscribe"      -> [registry EXCEPT ![o.topic] = Append(@, o.actor)]
      [] o.op = "Unsubscribe"    -> [registry EXCEPT ![o.topic] = unsubscribe(@, o.actor)]
      [] o.op = "UnsubscribeAll" -> [t \in Topic |-> unsubscribe(registry[t], o.actor)]
      [] o.op = "Publish"        -> registry

(* What an operation makes of the registry and the debts.                  *)
State == [registry : [Topic -> Seq(Subscriber)], owed : [Subscriber -> Seq(Payload)]]

Effect[st \in State] ==
    [o \in ChannelMsg |-> [registry |-> Registry(st.registry, o),
                           owed |-> Owing(Counts[st.registry], st.owed, o)]]

(* The registry and the debts once the first n operations in the mailbox   *)
(* have been applied.                                                      *)
After[n \in 0..Len(mailbox)] ==
    IF n = 0 THEN [registry |-> subs, owed |-> Owed]
    ELSE Effect[After[n - 1]][mailbox[n]]

Applied == After[Len(mailbox)]

Abstract == INSTANCE PubSub WITH
    held <- Counts[Applied.registry], owed <- Applied.owed,
    inbox <- inbox, alive <- Living

(* Although operations wait in the mailbox, each acts as if it took place  *)
(* when it was told: every subscriber gets each message once per           *)
(* registration it held at that moment, in order of publication, and an    *)
(* unsubscription told before a message was published has taken back a     *)
(* registration of that path by then (channel.rs recv).                    *)
ImplementsPubSub ==
    /\ Abstract!Spec
    /\ [][tells' # tells => Abstract!Tell(Last(mailbox'))]_vars

(* Idle: no operation waits and no publication is under way.               *)
Idle == mailbox = <<>> /\ targets = <<>>

(* A channel comes to rest whenever clients leave it alone, unless it is   *)
(* the channel of dead letters and a terminated actor is still registered: *)
(* then each message it cannot deliver to it is published again.           *)
ComesToRest ==
    \/ []<>Idle
    \/ <>[](kind = "dead_letters" /\ \E s \in Subscriber, t \in Topic :
                life[s] \in {"flushing", "flushed", "closed"} /\ s \in ToSet(subs[t]))

=============================================================================
