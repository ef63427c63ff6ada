---------------------------- MODULE Subscriptions ---------------------------
(***************************************************************************)
(* What the operations on a channel mean, with a subscription counted      *)
(* rather than stored: held[s][t] is the number of times subscriber s is   *)
(* registered for topic t.  A channel knows a subscriber by its path, and  *)
(* actors of one path may follow each other.  PubSub is the specification  *)
(* built from this and Channel (src/actor/channel.rs) is checked against   *)
(* that.                                                                   *)
(***************************************************************************)
EXTENDS Naturals, Sequences

CONSTANTS Subscriber,   \* actors that subscribe
          Path,         \* the path of each
          Topic,        \* topics of the channel
          All,          \* the topic "*", to which every message belongs
          Msg,          \* messages that clients publish
          DeadLetter,   \* the message published for an undeliverable one
          DeadTopic     \* the topic of dead letters

ASSUME TopicAssumption == All \in Topic /\ DeadTopic \in Topic

ASSUME MessageAssumption == DeadLetter \notin Msg

Payload == Msg \cup {DeadLetter}

(* The operations: the variants of ChannelMsg.                             *)
ChannelMsg ==
    [op : {"Subscribe", "Unsubscribe"}, actor : Subscriber, topic : Topic]
        \cup [op : {"UnsubscribeAll"}, actor : Subscriber]
        \cup [op : {"Publish"}, topic : Topic, msg : Payload]

SamePath(a, b) == Path[a] = Path[b]

Registrations == [Subscriber -> [Topic -> Nat]]

(* Registrations of the actor's path for the topics are taken back, one at *)
(* least where there is one: which of several, and whether all of them,    *)
(* is left open.  Nobody else's are touched.                               *)
TakenBack(c, actor, topics) ==
    /\ \A s \in Subscriber, t \in Topic :
          /\ c.after[s][t] <= c.before[s][t]
          /\ t \notin topics \/ ~SamePath(s, actor) => c.after[s][t] = c.before[s][t]
    /\ \A t \in topics, r \in Subscriber :
          SamePath(r, actor) /\ c.before[r][t] > 0 =>
              \E s \in Subscriber : SamePath(s, actor) /\ c.after[s][t] < c.before[s][t]

(* The changes of the registrations that an operation may make.            *)
Changes(o) ==
    {c \in [before : Registrations, after : Registrations] :
        CASE o.op = "Subscribe" ->
                c.after = [c.before EXCEPT ![o.actor][o.topic] = @ + 1]
          [] o.op = "Unsubscribe"    -> TakenBack(c, o.actor, {o.topic})
          [] o.op = "UnsubscribeAll" -> TakenBack(c, o.actor, Topic)
          [] o.op = "Publish"        -> c.after = c.before}

Copies(msg, n) == [i \in 1..n |-> msg]

(* What an operation adds to the messages each subscriber is owed: a copy  *)
(* for each registration for "*" and one for each for the topic, so two    *)
(* when the topic is "*" itself.                                           *)
Owing(held, owed, o) ==
    IF o.op # "Publish" THEN owed
    ELSE [s \in Subscriber |->
            owed[s] \o Copies(o.msg, held[s][All] + held[s][o.topic])]

DeadPublish == [op |-> "Publish", topic |-> DeadTopic, msg |-> DeadLetter]
=============================================================================
