------------------------------- MODULE PubSub -------------------------------
(***************************************************************************)
(* What a channel promises: an operation takes effect at the moment it is  *)
(* told to the channel, and from then on a published message is owed to    *)
(* those who held a subscription at that moment, once for each, in the     *)
(* order of publication.                                                   *)
(***************************************************************************)
EXTENDS Subscriptions

VARIABLES held,    \* [Subscriber -> [Topic -> Nat]], registrations
          owed,    \* [Subscriber -> Seq(Payload)], published, not delivered
          inbox,   \* [Subscriber -> Seq(Payload)], delivered, not handled
          alive    \* subscribers that have not terminated, unborn ones too

vars == <<held, owed, inbox, alive>>

Init ==
    /\ held = [s \in Subscriber |-> [t \in Topic |-> 0]]
    /\ owed = [s \in Subscriber |-> <<>>]
    /\ inbox = [s \in Subscriber |-> <<>>]
    /\ alive = Subscriber

Tell(o) ==
    /\ UNCHANGED <<inbox, alive>>
    /\ [before |-> held, after |-> held'] \in Changes(o)
    /\ owed' = Owing(held, owed, o)

Deliver(s) ==
    /\ s \in alive
    /\ owed[s] # <<>>
    /\ inbox' = [inbox EXCEPT ![s] = Append(@, Head(owed[s]))]
    /\ owed' = [owed EXCEPT ![s] = Tail(@)]
    /\ UNCHANGED <<held, alive>>

(* What is owed to a terminated subscriber is discarded and may be         *)
(* published again as a dead letter.                                       *)
Discard(s) ==
    /\ s \notin alive
    /\ owed[s] # <<>>
    /\ LET rest == [owed EXCEPT ![s] = Tail(@)]
       IN  \/ owed' = rest
           \/ owed' = Owing(held, rest, DeadPublish)
    /\ UNCHANGED <<held, inbox, alive>>

Handle(s) ==
    /\ inbox[s] # <<>>
    /\ inbox' = [inbox EXCEPT ![s] = Tail(@)]
    /\ UNCHANGED <<held, owed, alive>>

(* The messages a terminating subscriber leaves behind are dead letters.   *)
Flush(s) ==
    /\ s \in alive
    /\ inbox[s] # <<>>
    /\ inbox' = [inbox EXCEPT ![s] = Tail(@)]
    /\ owed' = Owing(held, owed, DeadPublish)
    /\ UNCHANGED <<held, alive>>

Terminate(s) ==
    /\ alive' = alive \ {s}
    /\ inbox' = [inbox EXCEPT ![s] = <<>>]
    /\ UNCHANGED <<held, owed>>

Next ==
    \/ \E o \in ChannelMsg : Tell(o)
    \/ \E s \in Subscriber :
          Deliver(s) \/ Discard(s) \/ Handle(s) \/ Flush(s) \/ Terminate(s)

Spec == Init /\ [][Next]_vars
=============================================================================
