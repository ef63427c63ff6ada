---------------------------- MODULE SystemProofs ----------------------------
(***************************************************************************)
(* Proofs about System: type correctness; a completed shutdown means that  *)
(* /user and the actors below it have stopped; and no shutdown misses the  *)
(* end of /user.                                                           *)
(***************************************************************************)
EXTENDS System, SequenceTheorems, FiniteSetTheorems, TLAPS

(* Before create_root there is no /user.                                   *)
BootInv == boot \in {"new", "proto"} => user = "none"

(* /user lists every kid that is alive: ActorOf lists it at once, in the   *)
(* place of none that is alive, and it is taken off the list only for the  *)
(* message of its end, or for that of another of its name.                 *)
ListInv ==
    /\ \A k \in Kid \ forgotten : Alive(k) => k \in listed
    /\ \A i \in 1..Len(sys_queue) :
          sys_queue[i].kind = "ActorTerminated" => kids[sys_queue[i].actor] = "closed"

(* Once the last child is gone no kid is alive but those created too late  *)
(* and those forgotten.                                                    *)
EmptyInv ==
    (rx.TerminateActor > 0 \/ user \in {"closed", "panicked"}) =>
        /\ is_terminating
        /\ \A k \in Kid \ (late \cup forgotten) : ~Alive(k)

(* Nobody hears of the end of /user before it has ended.                   *)
HeardInv ==
    /\ \A i \in 1..Len(events) : events[i] = UserEnded => user = "closed"
    /\ \A s \in Call :
          /\ \A i \in 1..Len(inbox[s]) : inbox[s][i] = "user" => user = "closed"
          /\ future[s] = "completed" => user = "closed"

StopInv == TypeOK /\ BootInv /\ ListInv /\ EmptyInv /\ HeardInv

(* What a call subscribed in time stays so: in the mailbox of the channel, *)
(* then in its list.                                                       *)
TimelyInv ==
    \A s \in in_time :
        \/ \E i \in 1..Len(subs) : subs[i] = s
        \/ \E j \in 1..Len(events) : events[j] = Subscribe(s)

(* A ShutdownActor fails only when it has used its sender.                 *)
FailedInv == \A s \in Call : shutdown[s] = "failed" => tx[s] # "some"

(* SubscribedBeforeEnd, with the places in the queues: what tells call s   *)
(* of the end of /user is in its inbox, was used, or is still to be        *)
(* published to it.                                                        *)
AtHand(s) ==
    \/ \E i \in 1..Len(inbox[s]) : inbox[s][i] = "user"
    \/ tx[s] # "some"
    \/ \E i \in 1..Len(events) :
          /\ events[i] = UserEnded
          /\ \/ \E n \in 1..Len(subs) : subs[n] = s
             \/ \E j \in 1..i : events[j] = Subscribe(s)

AtHandInv == user = "closed" => \A s \in in_time : AtHand(s)

ShutdownInv == StopInv /\ TimelyInv /\ FailedInv /\ AtHandInv

-----------------------------------------------------------------------------
(* Type correctness                                                        *)

(* The message that a sequence holds first, and what is left of it.        *)
LEMMA HeadTail ==
    ASSUME NEW S, NEW seq \in Seq(S), seq # <<>>
    PROVE  /\ Head(seq) \in S /\ Tail(seq) \in Seq(S)
           /\ Len(seq) > 0 /\ Head(seq) = seq[1]
           /\ Len(Tail(seq)) = Len(seq) - 1
           /\ \A i \in 1..Len(Tail(seq)) : Tail(seq)[i] = seq[i + 1]
  BY HeadTailProperties, EmptySeq, LenProperties

(* What Append adds, and what it leaves in place.                          *)
LEMMA AppendAt ==
    ASSUME NEW S, NEW seq \in Seq(S), NEW m \in S
    PROVE  /\ Append(seq, m) \in Seq(S)
           /\ Len(Append(seq, m)) = Len(seq) + 1
           /\ \A i \in 1..Len(seq) : Append(seq, m)[i] = seq[i]
           /\ Append(seq, m)[Len(seq) + 1] = m
  BY AppendProperties, LenProperties

(* An event goes to a subscriber once for every registration it has.       *)
LEMMA Copies ==
    ASSUME subs \in Seq(Call), NEW s \in Call
    PROVE  LET registered == {i \in DOMAIN subs : subs[i] = s}
           IN  /\ Cardinality(registered) \in Nat
               /\ (\E i \in 1..Len(subs) : subs[i] = s) => Cardinality(registered) > 0
<1> DEFINE registered == {i \in DOMAIN subs : subs[i] = s}
<1>1. IsFiniteSet(1..Len(subs))
  BY FS_Interval, LenProperties
<1>2. registered \subseteq 1..Len(subs)
  BY LenProperties
<1>3. IsFiniteSet(registered)
  BY <1>1, <1>2, FS_Subset
<1>4. Cardinality(registered) \in Nat
  BY <1>3, FS_CardinalityType
<1>5. ASSUME \E i \in 1..Len(subs) : subs[i] = s
      PROVE  Cardinality(registered) > 0
  <2>1. registered # {}
    BY <1>5, LenProperties
  <2>2. Cardinality(registered) # 0
    BY <1>3, <2>1, FS_EmptySet
  <2> QED
    BY <1>4, <2>2
<1> QED
  BY <1>4, <1>5

(* What Deliver leaves in an inbox.                                        *)
LEMMA Delivered ==
    ASSUME TypeOK, NEW s \in Call, NEW msg \in ChannelMsg, msg.op = "Publish"
    PROVE  /\ Deliver(s, msg) \in Seq(Kid \cup {"user"})
           /\ \A i \in 1..Len(Deliver(s, msg)) :
                 Deliver(s, msg)[i] = "user" =>
                     \/ \E j \in 1..Len(inbox[s]) : inbox[s][j] = "user"
                     \/ msg = UserEnded
           /\ (\E j \in 1..Len(inbox[s]) : inbox[s][j] = "user") =>
                 \E i \in 1..Len(Deliver(s, msg)) : Deliver(s, msg)[i] = "user"
           /\ (msg = UserEnded /\ \E i \in 1..Len(subs) : subs[i] = s) =>
                 \E i \in 1..Len(Deliver(s, msg)) : Deliver(s, msg)[i] = "user"
<1> DEFINE copies == Cardinality({i \in DOMAIN subs : subs[i] = s})
           more == [i \in 1..copies |-> msg.actor]
<1>1. inbox[s] \in Seq(Kid \cup {"user"}) /\ subs \in Seq(Call)
  BY DEF TypeOK
<1>2. /\ copies \in Nat
      /\ (\E i \in 1..Len(subs) : subs[i] = s) => copies > 0
  BY <1>1, Copies
<1>3. CASE msg.topic # "actor.terminated"
  <2>1. Deliver(s, msg) = inbox[s]
    BY <1>3 DEF Deliver
  <2>2. msg # UserEnded
    BY <1>3 DEF UserEnded, Publish
  <2> QED
    BY <1>1, <2>1, <2>2
<1>4. CASE msg.topic = "actor.terminated"
  <2>1. Deliver(s, msg) = inbox[s] \o more
    BY <1>4 DEF Deliver
  <2>2. /\ msg.actor \in Kid \cup {"user"}
        /\ msg.actor = "user" => msg = UserEnded
    BY <1>4 DEF ChannelMsg, UserEnded, Publish
  <2>3. msg = UserEnded => msg.actor = "user"
    BY DEF UserEnded, Publish
  <2> HIDE DEF copies
  <2>4. more \in Seq(Kid \cup {"user"})
    BY <1>2, <2>2, SeqDef
  <2>5. Len(more) = copies /\ \A i \in 1..Len(more) : more[i] = msg.actor
    <3>1. DOMAIN more = 1..copies
      OBVIOUS
    <3>2. Len(more) = copies
      BY <1>2, <2>4, <3>1, LenProperties
    <3> QED
      BY <3>2
  <2> HIDE DEF more
  <2>6. /\ inbox[s] \o more \in Seq(Kid \cup {"user"})
        /\ Len(inbox[s] \o more) = Len(inbox[s]) + Len(more)
        /\ \A i \in 1..Len(inbox[s]) : (inbox[s] \o more)[i] = inbox[s][i]
        /\ \A i \in 1..Len(inbox[s]) + Len(more) :
              i > Len(inbox[s]) => (inbox[s] \o more)[i] = more[i - Len(inbox[s])]
    BY <1>1, <2>4, ConcatProperties, LenProperties
  <2>7. Len(inbox[s]) \in Nat /\ Len(more) \in Nat
    BY <1>1, <2>4, LenProperties
  <2>8. \A i \in 1..Len(inbox[s] \o more) :
            (inbox[s] \o more)[i] = "user" =>
                \/ \E j \in 1..Len(inbox[s]) : inbox[s][j] = "user"
                \/ msg = UserEnded
    BY <2>2, <2>5, <2>6, <2>7
  <2>9. (\E j \in 1..Len(inbox[s]) : inbox[s][j] = "user") =>
            \E i \in 1..Len(inbox[s] \o more) : (inbox[s] \o more)[i] = "user"
    BY <2>6, <2>7
  <2>10. ASSUME msg = UserEnded, \E i \in 1..Len(subs) : subs[i] = s
         PROVE  \E i \in 1..Len(inbox[s] \o more) : (inbox[s] \o more)[i] = "user"
    <3>1. Len(more) > 0 /\ more[1] = "user"
      BY <1>2, <2>3, <2>5, <2>7, <2>10
    <3>2. (inbox[s] \o more)[Len(inbox[s]) + 1] = "user"
      BY <3>1, <2>6, <2>7
    <3> QED
      BY <3>1, <3>2, <2>6, <2>7
  <2> QED
    BY <2>1, <2>6, <2>8, <2>9, <2>10
<1> QED
  BY <1>3, <1>4

(* The types hold at first.                                                *)
LEMMA InitType == Init => TypeOK
<1> SUFFICES ASSUME Init PROVE TypeOK
  OBVIOUS
<1>1. 0 \in 0..Word - 1
  BY SystemAssumption
<1>2. rx \in [Sys : Nat, TerminateActor : Nat] /\ kids \in [Kid -> {"unborn"}]
  BY DEF Init
<1>3. /\ shutdown \in [Call -> {"none"}] /\ tx \in [Call -> {"some"}]
      /\ future \in [Call -> {"none"}] /\ inbox \in [Call -> Seq(Kid \cup {"user"})]
  BY DEF Init
<1>4. /\ sys_queue \in Seq(UserMsg) /\ events \in Seq(ChannelMsg) /\ subs \in Seq(Call)
      /\ letters \in Seq(Letter \cup {"Subscribe"}) /\ log_queue \in Seq(Letter)
  BY DEF Init
<1>5. /\ boot = "new" /\ limit = 0 /\ user = "none" /\ asys = "bare" /\ listed = {}
      /\ forgotten = {} /\ is_terminating = FALSE /\ late = {} /\ in_time = {} /\ logger = "none"
      /\ logged = {} /\ due = {}
  BY DEF Init
<1> QED
  BY <1>1, <1>2, <1>3, <1>4, <1>5 DEF TypeOK

(* The steps of ActorSystem::create keep them.                             *)
LEMMA StartType == ASSUME TypeOK, Start PROVE TypeOK'
<1>1. ASSUME NEW name \in Names, NEW cfg \in Limits, Create(name, cfg)
      PROVE  TypeOK'
  <2>1. cfg % Word \in 0..Word - 1
    BY SystemAssumption
  <2> QED
    BY <1>1, <2>1 DEF TypeOK, Create, SystemSettings, guardian, channel, calls, deadLetters
<1>2. CASE CreateRoot
  BY <1>2 DEF TypeOK, CreateRoot, channel, calls, deadLetters
<1>3. CASE SysChannels
  BY <1>3 DEF TypeOK, SysChannels, guardian, channel, calls, deadLetters
<1>4. CASE StartLogger
  BY <1>4 DEF TypeOK, StartLogger, guardian, channel, calls, deadLetters
<1>5. CASE CompleteStart
  <2>1. rx' \in [Sys : Nat, TerminateActor : Nat]
    <3>1. rx \in [Sys : Nat, TerminateActor : Nat] /\ rx' = [rx EXCEPT !.Sys = rx.Sys + 1]
      BY <1>5 DEF TypeOK, CompleteStart
    <3> QED
      BY <3>1
  <2> QED
    BY <1>5, <2>1 DEF TypeOK, CompleteStart, channel, calls, deadLetters
<1> QED
  BY <1>1, <1>2, <1>3, <1>4, <1>5 DEF Start

(* What is told to /user, and what is published, keeps its queue typed.    *)
LEMMA ToldUserType ==
    ASSUME TypeOK, NEW msg \in UserMsg
    PROVE  ToldUser(msg) \in Seq(UserMsg)
  BY AppendAt DEF TypeOK, ToldUser

(* An event published is a message to the events channel.                  *)
LEMMA PublishEventType ==
    ASSUME TypeOK, NEW topic, NEW actor, Publish(topic, actor) \in ChannelMsg,
           PublishEvent(topic, actor)
    PROVE  events' \in Seq(ChannelMsg)
  BY AppendAt DEF TypeOK, PublishEvent

(* The actors below /user keep the types.                                  *)
LEMMA KidType ==
    ASSUME TypeOK, NEW k \in Kid,
           ActorOf(k) \/ StopKid(k) \/ LoseStop(k) \/ Unregister(k) \/ KidEnds(k)
    PROVE  TypeOK'
<1>1. /\ Publish("actor.created", k) \in ChannelMsg
      /\ Publish("actor.terminated", k) \in ChannelMsg
      /\ [kind |-> "ActorTerminated", actor |-> k] \in UserMsg
  BY DEF Publish, ChannelMsg, UserMsg
<1>2. CASE ActorOf(k)
  <2>1. events' \in Seq(ChannelMsg)
    BY <1>1, <1>2, PublishEventType DEF ActorOf
  <2> QED
    BY <1>2, <2>1 DEF TypeOK, ActorOf, start, calls, deadLetters
<1>3. CASE StopKid(k) \/ LoseStop(k) \/ Unregister(k)
  <2>1. kids' \in [Kid -> {"unborn", "up", "stopping", "stuck", "unregistered", "closed"}]
    BY <1>3 DEF TypeOK, StopKid, LoseStop, Unregister
  <2>2. UNCHANGED <<start, guardian, late, channel, calls, deadLetters>>
    BY <1>3, Zenon DEF StopKid, LoseStop, Unregister
  <2> QED
    BY <2>1, <2>2 DEF TypeOK, start, guardian, channel, calls, deadLetters
<1>4. CASE KidEnds(k)
  <2>1. events' \in Seq(ChannelMsg)
    BY <1>1, <1>4, PublishEventType DEF KidEnds
  <2>2. sys_queue' \in Seq(UserMsg)
    BY <1>1, <1>4, ToldUserType DEF KidEnds
  <2> QED
    BY <1>4, <2>1, <2>2 DEF TypeOK, KidEnds, start, calls, deadLetters
<1> QED
  BY <1>2, <1>3, <1>4

(* A counter of the messages to the kernel.                                *)
KernelMsgs == [Sys : Nat, TerminateActor : Nat]

(* A TerminateActor sent is one more on its way.                           *)
LEMMA TerminatingType ==
    ASSUME rx \in KernelMsgs, NEW n \in {0, 1}, Terminating(n)
    PROVE  rx' \in KernelMsgs /\ rx'.TerminateActor = rx.TerminateActor + n
  BY DEF Terminating, KernelMsgs

(* The handle received takes no other kernel message away.                 *)
LEMMA ReceiveSysRx ==
    ASSUME rx \in KernelMsgs, ReceiveSys
    PROVE  rx' \in KernelMsgs /\ rx'.TerminateActor = rx.TerminateActor
<1>1. rx' = [rx EXCEPT !.Sys = rx.Sys - 1] /\ rx.Sys > 0
  BY DEF ReceiveSys
<1>2. rx.Sys - 1 \in Nat
  BY <1>1 DEF KernelMsgs
<1> QED
  BY <1>1, <1>2 DEF KernelMsgs

(* The guardian of /user and its kernel keep the types.                    *)
LEMMA UserType == ASSUME TypeOK, User PROVE TypeOK'
<1>1. CASE HandleStop
  <2>1. sys_queue' \in Seq(UserMsg)
    BY <1>1, HeadTail DEF TypeOK, HandleStop
  <2>2. rx' \in KernelMsgs
    <3>1. rx \in KernelMsgs
      BY DEF TypeOK, KernelMsgs
    <3>2. \E n \in {0, 1} : Terminating(n)
      BY <1>1 DEF HandleStop
    <3> QED
      BY <3>1, <3>2, TerminatingType
  <2>3. kids' \in [Kid -> {"unborn", "up", "stopping", "stuck", "unregistered", "closed"}]
    BY <1>1 DEF TypeOK, HandleStop
  <2> QED
    BY <1>1, <2>1, <2>2, <2>3 DEF TypeOK, KernelMsgs, HandleStop, start, channel, calls, deadLetters
<1>2. CASE HandleTerminated
  <2>1. sys_queue' \in Seq(UserMsg)
    BY <1>2, HeadTail DEF TypeOK, HandleTerminated
  <2>2. rx' \in KernelMsgs
    <3>1. rx \in KernelMsgs
      BY DEF TypeOK, KernelMsgs
    <3>2. \E n \in {0, 1} : Terminating(n)
      BY <1>2 DEF HandleTerminated
    <3> QED
      BY <3>1, <3>2, TerminatingType
  <2> QED
    BY <1>2, <2>1, <2>2 DEF TypeOK, KernelMsgs, HandleTerminated, Removed, start, channel, calls, deadLetters
<1>3. CASE ReceiveSys
  <2>1. rx' \in KernelMsgs
    BY <1>3, ReceiveSysRx DEF TypeOK, KernelMsgs
  <2> QED
    BY <1>3, <2>1 DEF TypeOK, KernelMsgs, ReceiveSys, start, channel, calls, deadLetters
<1>4. CASE ReceiveTerminate
  <2>1. Publish("actor.terminated", "user") \in ChannelMsg
    BY DEF Publish, ChannelMsg
  <2>2. events' \in Seq(ChannelMsg)
    BY <1>4, <2>1, PublishEventType DEF ReceiveTerminate, TypeOK
  <2> QED
    BY <1>4, <2>2 DEF TypeOK, ReceiveTerminate, start, calls, deadLetters
<1> QED
  BY <1>1, <1>2, <1>3, <1>4 DEF User

(* So does the events channel.                                             *)
LEMMA EventType == ASSUME TypeOK, HandleEvent PROVE TypeOK'
<1>1. /\ Head(events) \in ChannelMsg
      /\ events' \in Seq(ChannelMsg)
  BY HeadTail DEF TypeOK, HandleEvent
<1>2. CASE Head(events).op = "Subscribe" /\ subs' = Append(subs, Head(events).actor)
           /\ UNCHANGED inbox
  <2>1. Head(events).actor \in Call
    BY <1>1, <1>2 DEF ChannelMsg
  <2>2. subs' \in Seq(Call)
    BY <1>2, <2>1, AppendAt DEF TypeOK
  <2> QED
    BY <1>1, <1>2, <2>2 DEF TypeOK, HandleEvent, start, guardian, deadLetters
<1>3. CASE Head(events).op = "Publish" /\ UNCHANGED subs
           /\ inbox' = [s \in Call |-> Deliver(s, Head(events))]
  <2>1. inbox' \in [Call -> Seq(Kid \cup {"user"})]
    BY <1>1, <1>3, Delivered
  <2> QED
    BY <1>1, <1>3, <2>1 DEF TypeOK, HandleEvent, start, guardian, deadLetters
<1> QED
  BY <1>2, <1>3 DEF HandleEvent

(* So do the callers of shutdown and their actors.                         *)
LEMMA CallType ==
    ASSUME TypeOK, NEW s \in Call, Shutdown(s) \/ DropFuture(s) \/ ShutdownActor(s)
    PROVE  TypeOK'
<1>1. CASE Shutdown(s)
  BY <1>1 DEF TypeOK, Shutdown, start, guardian, channel, deadLetters
<1>2. CASE DropFuture(s)
  BY <1>2 DEF TypeOK, DropFuture, start, guardian, channel, deadLetters
<1>3. CASE PreStart(s)
  <2>1. Subscribe(s) \in ChannelMsg /\ [kind |-> "Stop"] \in UserMsg
    BY DEF Subscribe, ChannelMsg, UserMsg
  <2>2. \/ events' = Append(events, Subscribe(s)) /\ sys_queue' = sys_queue
        \/ sys_queue' = ToldUser([kind |-> "Stop"]) /\ events' = events
    BY <1>3 DEF PreStart
  <2>3. events \in Seq(ChannelMsg) /\ sys_queue \in Seq(UserMsg)
    BY DEF TypeOK
  <2>4. events' \in Seq(ChannelMsg) /\ sys_queue' \in Seq(UserMsg)
    BY <2>1, <2>2, <2>3, AppendAt, ToldUserType
  <2> QED
    BY <1>3, <2>4 DEF TypeOK, PreStart, start, deadLetters
<1>4. CASE Receive(s)
  <2>1. inbox' \in [Call -> Seq(Kid \cup {"user"})]
    BY <1>4, HeadTail DEF TypeOK, Receive
  <2> QED
    BY <1>4, <2>1 DEF TypeOK, Receive, start, guardian, channel, deadLetters
<1>5. CASE IgnoreEvent(s)
  <2>1. inbox' \in [Call -> Seq(Kid \cup {"user"})]
    BY <1>5, HeadTail DEF TypeOK, IgnoreEvent
  <2> QED
    BY <1>5, <2>1 DEF TypeOK, IgnoreEvent, start, guardian, channel, deadLetters
<1>6. CASE Restarted(s)
  <2>1. Publish("actor.restarted", s) \in ChannelMsg
    BY DEF Publish, ChannelMsg
  <2>2. events' \in Seq(ChannelMsg)
    BY <1>6, <2>1, PublishEventType DEF Restarted
  <2> QED
    BY <1>6, <2>2 DEF TypeOK, Restarted, start, guardian, deadLetters
<1> QED
  BY <1>1, <1>2, <1>3, <1>4, <1>5, <1>6 DEF ShutdownActor

(* The actions of the dead letters and their logger.                       *)
LetterStep == (\E l \in Letter : TellGone(l)) \/ LoggerInit \/ HandleLetter \/ Log

(* So do the dead letters and their logger.                                *)
LEMMA LetterType == ASSUME TypeOK, LetterStep PROVE TypeOK'
<1>1. ASSUME NEW l \in Letter, TellGone(l)
      PROVE  TypeOK'
  <2>1. letters' \in Seq(Letter \cup {"Subscribe"})
    BY <1>1, AppendAt DEF TypeOK, TellGone
  <2> QED
    BY <1>1, <2>1 DEF TypeOK, TellGone, start, guardian, channel, calls
<1>2. CASE LoggerInit
  <2>1. letters' \in Seq(Letter \cup {"Subscribe"})
    BY <1>2, AppendAt DEF TypeOK, LoggerInit
  <2> QED
    BY <1>2, <2>1 DEF TypeOK, LoggerInit, start, guardian, channel, calls
<1>3. CASE HandleLetter
  <2>1. /\ Head(letters) \in Letter \cup {"Subscribe"}
        /\ letters' \in Seq(Letter \cup {"Subscribe"})
    BY <1>3, HeadTail DEF TypeOK, HandleLetter
  <2>2. \/ log_queue' = log_queue
        \/ Head(letters) # "Subscribe" /\ log_queue' = Append(log_queue, Head(letters))
    BY <1>3 DEF HandleLetter
  <2>3. log_queue' \in Seq(Letter)
    <3>1. log_queue \in Seq(Letter)
      BY DEF TypeOK
    <3>2. Head(letters) # "Subscribe" => Head(letters) \in Letter
      BY <2>1
    <3> QED
      BY <2>2, <3>1, <3>2, AppendAt
  <2> QED
    BY <1>3, <2>1, <2>3 DEF TypeOK, HandleLetter, start, guardian, channel, calls
<1>4. CASE Log
  <2>1. Head(log_queue) \in Letter /\ log_queue' \in Seq(Letter)
    BY <1>4, HeadTail DEF TypeOK, Log
  <2> QED
    BY <1>4, <2>1 DEF TypeOK, Log, start, guardian, channel, calls
<1> QED
  BY <1>1, <1>2, <1>3, <1>4 DEF LetterStep

(* So does a step that changes nothing.                                    *)
LEMMA StutterType == ASSUME TypeOK, UNCHANGED vars PROVE TypeOK'
  BY DEF TypeOK, vars, start, guardian, channel, calls, deadLetters

(* So does every step.                                                     *)
LEMMA TypeInvariant == TypeOK /\ [Next]_vars => TypeOK'
<1> SUFFICES ASSUME TypeOK, [Next]_vars PROVE TypeOK'
  OBVIOUS
<1> QED
  BY StartType, UserType, EventType, KidType, CallType, LetterType, StutterType
  DEF Next, LetterStep

(* Every queue holds messages of its kind and every state is one of its    *)
(* values, whatever the actors, the calls, the letters and the width of    *)
(* the limit (system.rs, logger.rs).                                       *)
THEOREM SystemTypeOK == Spec => []TypeOK
  BY InitType, TypeInvariant, PTL DEF Spec

-----------------------------------------------------------------------------
(* What the groups of actions leave alone                                  *)

KidStep(k) == ActorOf(k) \/ StopKid(k) \/ LoseStop(k) \/ Unregister(k) \/ KidEnds(k)

CallStep(s) == Shutdown(s) \/ DropFuture(s) \/ ShutdownActor(s)

(* What the start leaves alone.                                            *)
LEMMA StartFrame ==
    Start => UNCHANGED <<asys, sys_queue, is_terminating, listed, forgotten, kids,
                         late, events, subs, calls>>
  BY DEF Start, Create, CreateRoot, SysChannels, StartLogger, CompleteStart,
         guardian, channel

(* What /user and its kernel leave alone.                                  *)
LEMMA UserFrame == User => UNCHANGED <<boot, late, subs, calls>>
  BY DEF User, HandleStop, HandleTerminated, ReceiveSys, ReceiveTerminate, start, channel

(* What the events channel leaves alone.                                   *)
LEMMA EventFrame ==
    HandleEvent => UNCHANGED <<boot, user, asys, rx, sys_queue, is_terminating, listed,
                               forgotten, kids, late, shutdown, tx, future, in_time>>
  BY DEF HandleEvent, start, guardian

(* What the actors below /user leave alone.                                *)
LEMMA KidFrame ==
    ASSUME NEW k \in Kid
    PROVE  KidStep(k) => UNCHANGED <<boot, user, rx, is_terminating, subs, calls>>
  BY DEF KidStep, ActorOf, StopKid, LoseStop, Unregister, KidEnds, start, guardian, channel

(* What a shutdown leaves alone.                                           *)
LEMMA CallFrame ==
    ASSUME NEW s \in Call
    PROVE  CallStep(s) => UNCHANGED <<boot, user, rx, is_terminating, listed,
                                      forgotten, kids, late, subs>>
  BY DEF CallStep, ShutdownActor, Shutdown, DropFuture, PreStart, Receive, IgnoreEvent,
         Restarted, start, guardian, channel

(* What dead letters leave alone.                                          *)
LEMMA LetterFrame ==
    LetterStep => UNCHANGED <<start, guardian, kids, late, channel, calls>>
  BY DEF LetterStep, TellGone, LoggerInit, HandleLetter, Log

(* The steps by who takes them.                                            *)
LEMMA NextCases ==
    [Next]_vars <=> \/ Start \/ User \/ HandleEvent \/ LetterStep \/ UNCHANGED vars
                    \/ \E k \in Kid : KidStep(k)
                    \/ \E s \in Call : CallStep(s)
  BY DEF Next, KidStep, CallStep, LetterStep

-----------------------------------------------------------------------------
(* A completed shutdown                                                    *)

(* Every step keeps that there is no /user before create_root.             *)
LEMMA BootStep == TypeOK /\ BootInv /\ [Next]_vars => BootInv'
<1> SUFFICES ASSUME TypeOK, BootInv, [Next]_vars PROVE BootInv'
  OBVIOUS
<1>1. CASE Start
  BY <1>1 DEF BootInv, Start, Create, CreateRoot, SysChannels, StartLogger, CompleteStart,
              ValidName, guardian
<1>2. CASE User
  <2>1. boot' = boot /\ user = "open"
    BY <1>2 DEF User, HandleStop, HandleTerminated, ReceiveSys, ReceiveTerminate, start
  <2> QED
    BY <2>1 DEF BootInv
<1>3. CASE UNCHANGED <<boot, user>>
  BY <1>3 DEF BootInv
<1> QED
  BY <1>1, <1>2, <1>3, NextCases, EventFrame, KidFrame, CallFrame, LetterFrame
  DEF vars, start, guardian

(* What is told to /user puts at most that message behind the others.      *)
LEMMA ToldUserAt ==
    ASSUME TypeOK, NEW msg \in UserMsg
    PROVE  \A i \in 1..Len(ToldUser(msg)) :
               \/ i \in 1..Len(sys_queue) /\ ToldUser(msg)[i] = sys_queue[i]
               \/ ToldUser(msg)[i] = msg
<1>1. sys_queue \in Seq(UserMsg)
  BY DEF TypeOK
<1>2. Len(sys_queue) \in Nat
  BY <1>1, LenProperties
<1>3. CASE user = "open"
  BY <1>1, <1>2, <1>3, AppendAt DEF ToldUser
<1>4. CASE user # "open"
  BY <1>1, <1>4 DEF ToldUser
<1> QED
  BY <1>3, <1>4

(* Every step keeps that /user lists every kid that is alive.              *)
LEMMA ListStep == TypeOK /\ ListInv /\ [Next]_vars => ListInv'
<1> SUFFICES ASSUME TypeOK, ListInv, [Next]_vars PROVE ListInv'
  OBVIOUS
<1>q. sys_queue \in Seq(UserMsg) /\ Len(sys_queue) \in Nat
  BY LenProperties DEF TypeOK
<1>a. \A i \in 1..Len(sys_queue) :
          sys_queue[i].kind = "ActorTerminated" => sys_queue[i].actor \in Kid
  <2>1. \A i \in 1..Len(sys_queue) : sys_queue[i] \in UserMsg
    BY <1>q, ElementOfSeq
  <2> QED
    BY <2>1 DEF UserMsg
<1>k. kids \in [Kid -> {"unborn", "up", "stopping", "stuck", "unregistered", "closed"}]
  BY DEF TypeOK
<1>1. CASE User
  <2>1. CASE HandleStop
    <3>1. /\ kids' = [k \in Kid |-> IF k \in listed /\ Alive(k)
                                      THEN "stopping" ELSE kids[k]]
          /\ listed' = listed /\ forgotten' = forgotten
          /\ sys_queue # <<>> /\ sys_queue' = Tail(sys_queue)
      BY <2>1 DEF HandleStop
    <3>2. \A k \in Kid : /\ Alive(k)' => Alive(k)
                         /\ kids[k] = "closed" => kids'[k] = "closed"
      BY <3>1 DEF Alive
    <3>3. \A k \in Kid \ forgotten' : Alive(k)' => k \in listed'
      BY <3>1, <3>2 DEF ListInv
    <3>4. \A i \in 1..Len(sys_queue') :
              i + 1 \in 1..Len(sys_queue) /\ sys_queue'[i] = sys_queue[i + 1]
      BY <1>q, <3>1, HeadTail
    <3>5. \A i \in 1..Len(sys_queue') :
              sys_queue'[i].kind = "ActorTerminated" =>
                  kids'[sys_queue'[i].actor] = "closed"
      BY <1>a, <3>2, <3>4 DEF ListInv
    <3> QED
      BY <3>3, <3>5 DEF ListInv
  <2>2. CASE HandleTerminated
    <3> DEFINE end == Head(sys_queue).actor
    <3>1. /\ kids' = kids /\ listed' = listed \ SameName(end)
          /\ forgotten' = forgotten \cup ((listed \cap SameName(end)) \ {end})
          /\ sys_queue # <<>> /\ sys_queue' = Tail(sys_queue)
          /\ Head(sys_queue).kind = "ActorTerminated"
      BY <2>2 DEF HandleTerminated, Removed
    <3>2. Head(sys_queue) = sys_queue[1] /\ 1 \in 1..Len(sys_queue)
      BY <1>q, <3>1, HeadTail
    <3>3. kids[end] = "closed"
      BY <3>1, <3>2 DEF ListInv
    <3>4. \A k \in Kid \ forgotten' : Alive(k)' => k \in listed'
      BY <3>1, <3>3 DEF ListInv, Alive
    <3>5. \A i \in 1..Len(sys_queue') :
              i + 1 \in 1..Len(sys_queue) /\ sys_queue'[i] = sys_queue[i + 1]
      BY <1>q, <3>1, HeadTail
    <3>6. \A i \in 1..Len(sys_queue') :
              sys_queue'[i].kind = "ActorTerminated" =>
                  kids'[sys_queue'[i].actor] = "closed"
      BY <3>1, <3>5 DEF ListInv
    <3> QED
      BY <3>4, <3>6 DEF ListInv
  <2>3. CASE ReceiveSys
    BY <2>3 DEF ListInv, Alive, ReceiveSys
  <2>4. CASE ReceiveTerminate
    <3>1. UNCHANGED <<kids, listed, forgotten>> /\ sys_queue' = <<>>
      BY <2>4 DEF ReceiveTerminate
    <3>2. Len(sys_queue') = 0
      BY <3>1
    <3> QED
      BY <3>1, <3>2 DEF ListInv, Alive
  <2> QED
    BY <1>1, <2>1, <2>2, <2>3, <2>4 DEF User
<1>2. ASSUME NEW k \in Kid, KidStep(k)
      PROVE  ListInv'
  <2>1. CASE ActorOf(k)
    <3>1. /\ kids[k] = "unborn" /\ kids' = [kids EXCEPT ![k] = "up"]
          /\ listed' = (listed \ SameName(k)) \cup {k}
          /\ UNCHANGED <<forgotten, sys_queue>>
          /\ \A j \in SameName(k) : ~Alive(j)
      BY <2>1 DEF ActorOf
    <3>2. \A j \in Kid : j # k => kids'[j] = kids[j]
      BY <1>k, <3>1
    <3>3. \A j \in Kid \ forgotten' : Alive(j)' => j \in listed'
      BY <3>1, <3>2 DEF ListInv, Alive
    <3>4. \A i \in 1..Len(sys_queue') :
              sys_queue'[i].kind = "ActorTerminated" =>
                  kids'[sys_queue'[i].actor] = "closed"
      BY <1>a, <3>1, <3>2 DEF ListInv
    <3> QED
      BY <3>3, <3>4 DEF ListInv
  <2>2. CASE StopKid(k) \/ LoseStop(k) \/ Unregister(k)
    <3>1. /\ Alive(k)
          /\ \E st \in {"stopping", "stuck", "unregistered"} : kids' = [kids EXCEPT ![k] = st]
          /\ UNCHANGED <<listed, forgotten, sys_queue>>
      BY <2>2 DEF StopKid, LoseStop, Unregister, Alive, guardian
    <3>2. \A j \in Kid : j # k => kids'[j] = kids[j]
      BY <1>k, <3>1
    <3>3. \A j \in Kid \ forgotten' : Alive(j)' => j \in listed'
      BY <3>1, <3>2 DEF ListInv, Alive
    <3>4. \A i \in 1..Len(sys_queue') :
              sys_queue'[i].kind = "ActorTerminated" =>
                  kids'[sys_queue'[i].actor] = "closed"
      BY <1>a, <3>1, <3>2 DEF ListInv, Alive
    <3> QED
      BY <3>3, <3>4 DEF ListInv
  <2>3. CASE KidEnds(k)
    <3> DEFINE end == [kind |-> "ActorTerminated", actor |-> k]
    <3>1. /\ kids' = [kids EXCEPT ![k] = "closed"]
          /\ UNCHANGED <<listed, forgotten>> /\ sys_queue' = ToldUser(end)
      BY <2>3 DEF KidEnds
    <3>2. end \in UserMsg
      BY DEF UserMsg
    <3>3. \A i \in 1..Len(sys_queue') :
              \/ i \in 1..Len(sys_queue) /\ sys_queue'[i] = sys_queue[i]
              \/ sys_queue'[i] = end
      BY <3>1, <3>2, ToldUserAt
    <3>4. \A i \in 1..Len(sys_queue') :
              sys_queue'[i].kind = "ActorTerminated" =>
                  kids'[sys_queue'[i].actor] = "closed"
      BY <1>a, <1>k, <3>1, <3>3 DEF ListInv
    <3>5. \A j \in Kid : Alive(j)' => Alive(j)
      BY <1>k, <3>1 DEF Alive
    <3> QED
      BY <3>1, <3>4, <3>5 DEF ListInv
  <2> QED
    BY <1>2, <2>1, <2>2, <2>3 DEF KidStep
<1>3. ASSUME NEW s \in Call, CallStep(s)
      PROVE  ListInv'
  <2>1. UNCHANGED <<kids, listed, forgotten>>
    BY <1>3, CallFrame
  <2>2. sys_queue' = sys_queue \/ sys_queue' = ToldUser([kind |-> "Stop"])
    BY <1>3 DEF CallStep, ShutdownActor, Shutdown, DropFuture, PreStart, Receive,
                IgnoreEvent, Restarted, guardian
  <2>3. [kind |-> "Stop"] \in UserMsg
    BY DEF UserMsg
  <2>4. \A i \in 1..Len(sys_queue') :
            \/ i \in 1..Len(sys_queue) /\ sys_queue'[i] = sys_queue[i]
            \/ sys_queue'[i] = [kind |-> "Stop"]
    BY <2>2, <2>3, ToldUserAt
  <2> QED
    BY <2>1, <2>4 DEF ListInv, Alive
<1>4. CASE UNCHANGED <<kids, listed, forgotten, sys_queue>>
  BY <1>4 DEF ListInv, Alive
<1> QED
  BY <1>1, <1>2, <1>3, <1>4, NextCases, StartFrame, EventFrame, LetterFrame
  DEF vars, guardian

(* Every step keeps that a /user about to end has an empty list.           *)
LEMMA EmptyStep ==
    TypeOK /\ ListInv /\ ListInv' /\ EmptyInv /\ [Next]_vars => EmptyInv'
<1> SUFFICES ASSUME TypeOK, ListInv, ListInv', EmptyInv, [Next]_vars PROVE EmptyInv'
  OBVIOUS
<1> DEFINE Over == rx.TerminateActor > 0 \/ user \in {"closed", "panicked"}
<1>k. kids \in [Kid -> {"unborn", "up", "stopping", "stuck", "unregistered", "closed"}]
  BY DEF TypeOK
<1>r. rx \in KernelMsgs
  BY DEF TypeOK, KernelMsgs
<1>1. CASE Start
  <2>1. UNCHANGED <<is_terminating, kids, late, forgotten>>
    BY <1>1, StartFrame
  <2>2. /\ rx'.TerminateActor = rx.TerminateActor
        /\ user' = user \/ user' = "open"
    BY <1>1, <1>r DEF Start, Create, CreateRoot, SysChannels, StartLogger,
                      CompleteStart, guardian, KernelMsgs
  <2> QED
    BY <2>1, <2>2 DEF EmptyInv, Alive
<1>2. CASE User
  <2>1. CASE HandleStop
    <3>1. /\ user' = user /\ is_terminating' = TRUE
          /\ UNCHANGED <<late, forgotten>>
          /\ kids' = [k \in Kid |-> IF k \in listed /\ Alive(k)
                                      THEN "stopping" ELSE kids[k]]
          /\ Terminating(IF listed = {} THEN 1 ELSE 0)
          /\ listed' = listed
      BY <2>1 DEF HandleStop
    <3>2. CASE listed = {}
      <4>1. \A k \in Kid \ forgotten' : ~Alive(k)'
        BY <3>1, <3>2 DEF ListInv
      <4> QED
        BY <3>1, <4>1 DEF EmptyInv
    <3>3. CASE listed # {}
      <4>1. rx'.TerminateActor = rx.TerminateActor + 0
        BY <1>r, <3>1, <3>3, TerminatingType
      <4>2. rx'.TerminateActor = rx.TerminateActor
        BY <1>r, <4>1 DEF KernelMsgs
      <4>3. \A k \in Kid : ~Alive(k) => ~Alive(k)'
        BY <3>1 DEF Alive
      <4> QED
        BY <3>1, <4>2, <4>3 DEF EmptyInv
    <3> QED
      BY <3>2, <3>3
  <2>2. CASE HandleTerminated
    <3>1. /\ user' = user /\ is_terminating' = is_terminating
          /\ UNCHANGED <<late, kids>> /\ forgotten \subseteq forgotten'
          /\ Terminating(IF is_terminating /\ listed # {} /\ listed' = {} THEN 1 ELSE 0)
      BY <2>2 DEF HandleTerminated, Removed
    <3>2. CASE is_terminating /\ listed # {} /\ listed' = {}
      <4>1. \A k \in Kid \ forgotten' : ~Alive(k)'
        BY <3>1, <3>2 DEF ListInv
      <4> QED
        BY <3>1, <3>2, <4>1 DEF EmptyInv
    <3>3. CASE ~(is_terminating /\ listed # {} /\ listed' = {})
      <4>1. rx'.TerminateActor = rx.TerminateActor + 0
        BY <1>r, <3>1, <3>3, TerminatingType
      <4>2. rx'.TerminateActor = rx.TerminateActor
        BY <1>r, <4>1 DEF KernelMsgs
      <4> QED
        BY <3>1, <4>2 DEF EmptyInv, Alive
    <3> QED
      BY <3>2, <3>3
  <2>3. CASE ReceiveSys
    <3>1. UNCHANGED <<user, is_terminating, late, forgotten, kids>>
      BY <2>3 DEF ReceiveSys
    <3>2. rx'.TerminateActor = rx.TerminateActor
      BY <1>r, <2>3, ReceiveSysRx
    <3> QED
      BY <3>1, <3>2 DEF EmptyInv, Alive
  <2>4. CASE ReceiveTerminate
    <3>1. UNCHANGED <<is_terminating, late, forgotten, kids>> /\ rx.TerminateActor > 0
      BY <2>4 DEF ReceiveTerminate
    <3> QED
      BY <3>1 DEF EmptyInv, Alive
  <2> QED
    BY <1>2, <2>1, <2>2, <2>3, <2>4 DEF User
<1>3. ASSUME NEW k \in Kid, KidStep(k)
      PROVE  EmptyInv'
  <2>1. UNCHANGED <<user, rx, is_terminating>>
    BY <1>3, KidFrame
  <2>2. SUFFICES ASSUME Over
                 PROVE  \A j \in Kid \ (late' \cup forgotten') : ~Alive(j)'
    BY <2>1 DEF EmptyInv
  <2>3. is_terminating /\ \A j \in Kid \ (late \cup forgotten) : ~Alive(j)
    BY <2>2 DEF EmptyInv
  <2>4. CASE ActorOf(k)
    <3>1. /\ kids' = [kids EXCEPT ![k] = "up"] /\ late' = late \cup {k}
          /\ forgotten' = forgotten
      BY <2>3, <2>4 DEF ActorOf
    <3> QED
      BY <1>k, <2>3, <3>1 DEF Alive
  <2>5. CASE StopKid(k) \/ LoseStop(k) \/ Unregister(k)
    <3>1. /\ \E st \in {"stopping", "stuck", "unregistered"} : kids' = [kids EXCEPT ![k] = st]
          /\ UNCHANGED <<late, forgotten>> /\ Alive(k)
      BY <2>5 DEF StopKid, LoseStop, Unregister, Alive, guardian
    <3> QED
      BY <1>k, <2>3, <3>1 DEF Alive
  <2>6. CASE KidEnds(k)
    <3>1. kids' = [kids EXCEPT ![k] = "closed"] /\ UNCHANGED <<late, forgotten>>
      BY <2>6 DEF KidEnds
    <3> QED
      BY <1>k, <2>3, <3>1 DEF Alive
  <2> QED
    BY <1>3, <2>4, <2>5, <2>6 DEF KidStep
<1>4. CASE UNCHANGED <<rx, user, is_terminating, kids, late, forgotten>>
  BY <1>4 DEF EmptyInv, Alive
<1> QED
  BY <1>1, <1>2, <1>3, <1>4, NextCases, EventFrame, CallFrame, LetterFrame
  DEF vars, guardian

(* The end of /user is published by ReceiveTerminate alone.                *)
LEMMA EndPublished ==
    ASSUME TypeOK, NEW topic, NEW actor, Publish(topic, actor) \in ChannelMsg,
           PublishEvent(topic, actor)
    PROVE  \A i \in 1..Len(events') :
               \/ i \in 1..Len(events) /\ events'[i] = events[i]
               \/ i = Len(events) + 1 /\ events'[i] = Publish(topic, actor)
<1>1. events \in Seq(ChannelMsg) /\ Len(events) \in Nat
  BY LenProperties DEF TypeOK
<1> QED
  BY <1>1, AppendAt DEF PublishEvent

(* Every step keeps that the end of /user is heard of only after it.       *)
LEMMA HeardStep == TypeOK /\ BootInv /\ HeardInv /\ [Next]_vars => HeardInv'
<1> SUFFICES ASSUME TypeOK, BootInv, HeardInv, [Next]_vars PROVE HeardInv'
  OBVIOUS
<1>e. events \in Seq(ChannelMsg) /\ Len(events) \in Nat
  BY LenProperties DEF TypeOK
<1>1. CASE Start
  <2>1. UNCHANGED <<events, inbox, future>>
    BY <1>1, StartFrame DEF calls
  <2>2. user' = user \/ user = "none"
    BY <1>1 DEF Start, Create, CreateRoot, SysChannels, StartLogger, CompleteStart,
                guardian, BootInv
  <2> QED
    BY <2>1, <2>2 DEF HeardInv
<1>2. CASE User
  <2>1. UNCHANGED <<inbox, future>>
    BY <1>2, UserFrame DEF calls
  <2>2. CASE ReceiveTerminate
    <3>1. user = "open"
      BY <2>2 DEF ReceiveTerminate
    <3>2. /\ \A i \in 1..Len(events) : events[i] # UserEnded
          /\ \A s \in Call : /\ \A i \in 1..Len(inbox[s]) : inbox[s][i] # "user"
                             /\ future[s] # "completed"
      BY <3>1 DEF HeardInv
    <3>3. user' = "closed" \/ events' = events
      BY <2>2 DEF ReceiveTerminate
    <3> QED
      BY <2>1, <3>2, <3>3 DEF HeardInv
  <2>3. CASE UNCHANGED <<user, events>>
    BY <2>1, <2>3 DEF HeardInv
  <2> QED
    BY <1>2, <2>2, <2>3 DEF User, HandleStop, HandleTerminated, ReceiveSys, channel
<1>3. CASE HandleEvent
  <2>1. user' = user /\ future' = future
    BY <1>3, EventFrame
  <2>2. events # <<>> /\ events' = Tail(events)
    BY <1>3 DEF HandleEvent
  <2>3. /\ Head(events) \in ChannelMsg
        /\ Head(events) = events[1] /\ 1 \in 1..Len(events)
        /\ \A i \in 1..Len(events') : i + 1 \in 1..Len(events) /\ events'[i] = events[i + 1]
    BY <1>e, <2>2, HeadTail
  <2>4. \A i \in 1..Len(events') : events'[i] = UserEnded => user' = "closed"
    BY <2>1, <2>3 DEF HeardInv
  <2>5. ASSUME NEW s \in Call, NEW i \in 1..Len(inbox'[s]), inbox'[s][i] = "user"
        PROVE  user' = "closed"
    <3>1. CASE inbox' = inbox
      BY <2>1, <2>5, <3>1 DEF HeardInv
    <3>2. CASE /\ Head(events).op = "Publish"
               /\ inbox' = [t \in Call |-> Deliver(t, Head(events))]
      <4>1. inbox'[s] = Deliver(s, Head(events))
        BY <3>2
      <4>2. \/ \E j \in 1..Len(inbox[s]) : inbox[s][j] = "user"
            \/ Head(events) = UserEnded
        BY <2>3, <2>5, <3>2, <4>1, Delivered
      <4> QED
        BY <2>1, <2>3, <4>2 DEF HeardInv
    <3> QED
      BY <1>3, <3>1, <3>2 DEF HandleEvent
  <2> QED
    BY <2>1, <2>4, <2>5 DEF HeardInv
<1>4. ASSUME NEW k \in Kid, KidStep(k)
      PROVE  HeardInv'
  <2>1. UNCHANGED <<user, inbox, future>>
    BY <1>4, KidFrame DEF calls
  <2>2. \/ events' = events
        \/ PublishEvent("actor.created", k) \/ PublishEvent("actor.terminated", k)
    BY <1>4 DEF KidStep, ActorOf, StopKid, LoseStop, Unregister, KidEnds, channel
  <2>3. /\ Publish("actor.created", k) \in ChannelMsg
        /\ Publish("actor.terminated", k) \in ChannelMsg
    BY DEF Publish, ChannelMsg
  <2>4. /\ Publish("actor.created", k) # UserEnded
        /\ Publish("actor.terminated", k) # UserEnded
    BY SystemAssumption DEF Publish, UserEnded
  <2>5. \A i \in 1..Len(events') :
            events'[i] = UserEnded => i \in 1..Len(events) /\ events[i] = UserEnded
    BY <2>2, <2>3, <2>4, EndPublished
  <2> QED
    BY <2>1, <2>5 DEF HeardInv
<1>5. ASSUME NEW s \in Call, CallStep(s)
      PROVE  HeardInv'
  <2>1. user' = user
    BY <1>5, CallFrame
  <2>2. \A i \in 1..Len(events') :
            events'[i] = UserEnded => i \in 1..Len(events) /\ events[i] = UserEnded
    <3>1. \/ events' = events
          \/ events' = Append(events, Subscribe(s))
          \/ PublishEvent("actor.restarted", s)
      BY <1>5 DEF CallStep, ShutdownActor, Shutdown, DropFuture, PreStart, Receive,
                  IgnoreEvent, Restarted, channel
    <3>2. /\ Subscribe(s) \in ChannelMsg
          /\ Publish("actor.restarted", s) \in ChannelMsg
      BY DEF Subscribe, Publish, ChannelMsg
    <3>3. /\ Subscribe(s) # UserEnded
          /\ Publish("actor.restarted", s) # UserEnded
      BY DEF Subscribe, Publish, UserEnded
    <3>4. CASE events' = Append(events, Subscribe(s))
      BY <1>e, <3>2, <3>3, <3>4, AppendAt
    <3> QED
      BY <3>1, <3>2, <3>3, <3>4, EndPublished
  <2>3. CASE Receive(s) \/ IgnoreEvent(s)
    <3>1. /\ inbox[s] # <<>> /\ inbox' = [inbox EXCEPT ![s] = Tail(inbox[s])]
          /\ \/ future' = future
             \/ /\ Head(inbox[s]) = "user"
                /\ future' = [future EXCEPT ![s] = "completed"]
      BY <2>3 DEF Receive, IgnoreEvent
    <3>2. /\ inbox \in [Call -> Seq(Kid \cup {"user"})]
          /\ future \in [Call -> {"none", "pending", "completed", "dropped"}]
      BY DEF TypeOK
    <3>3. inbox[s] \in Seq(Kid \cup {"user"}) /\ Len(inbox[s]) \in Nat
      BY <3>2, LenProperties
    <3>4. /\ Head(inbox[s]) = inbox[s][1] /\ 1 \in 1..Len(inbox[s])
          /\ \A i \in 1..Len(Tail(inbox[s])) :
                i + 1 \in 1..Len(inbox[s]) /\ Tail(inbox[s])[i] = inbox[s][i + 1]
      BY <3>1, <3>3, HeadTail
    <3>5. ASSUME NEW t \in Call, NEW i \in 1..Len(inbox'[t]), inbox'[t][i] = "user"
          PROVE  user = "closed"
      <4>1. CASE t = s
        <5>1. inbox'[t] = Tail(inbox[s])
          BY <3>1, <3>2, <4>1
        <5> QED
          BY <3>4, <3>5, <5>1 DEF HeardInv
      <4>2. CASE t # s
        <5>1. inbox'[t] = inbox[t]
          BY <3>1, <3>2, <4>2
        <5> QED
          BY <3>5, <5>1 DEF HeardInv
      <4> QED
        BY <4>1, <4>2
    <3>6. \A t \in Call : future'[t] = "completed" => user = "closed"
      <4>1. Head(inbox[s]) = "user" => user = "closed"
        BY <3>4 DEF HeardInv
      <4> QED
        BY <3>1, <3>2, <4>1 DEF HeardInv
    <3> QED
      BY <2>1, <2>2, <3>5, <3>6 DEF HeardInv
  <2>4. CASE Shutdown(s) \/ DropFuture(s)
    <3>1. /\ inbox' = inbox
          /\ \/ future' = [future EXCEPT ![s] = "pending"]
             \/ future' = [future EXCEPT ![s] = "dropped"]
      BY <2>4 DEF Shutdown, DropFuture
    <3>2. \A t \in Call : future'[t] = "completed" => future[t] = "completed"
      BY <3>1 DEF TypeOK
    <3> QED
      BY <2>1, <2>2, <3>1, <3>2 DEF HeardInv
  <2>5. CASE PreStart(s) \/ Restarted(s)
    <3>1. inbox' = inbox /\ future' = future
      BY <2>5 DEF PreStart, Restarted
    <3> QED
      BY <2>1, <2>2, <3>1 DEF HeardInv
  <2> QED
    BY <1>5, <2>3, <2>4, <2>5 DEF CallStep, ShutdownActor
<1>6. CASE UNCHANGED <<user, events, inbox, future>>
  BY <1>6 DEF HeardInv
<1> QED
  BY <1>1, <1>2, <1>3, <1>4, <1>5, <1>6, NextCases, LetterFrame
  DEF vars, guardian, channel, calls

(* The invariant of stopping holds at first.                               *)
LEMMA InitStop == Init => StopInv
<1> SUFFICES ASSUME Init PROVE StopInv
  OBVIOUS
<1>1. TypeOK
  BY InitType
<1>2. BootInv /\ ListInv /\ EmptyInv
  BY DEF Init, BootInv, ListInv, EmptyInv, Alive
<1>3. HeardInv
  BY DEF Init, HeardInv
<1> QED
  BY <1>1, <1>2, <1>3 DEF StopInv

(* Every step keeps it.                                                    *)
LEMMA StopStep == StopInv /\ [Next]_vars => StopInv'
  BY TypeInvariant, BootStep, ListStep, EmptyStep, HeardStep DEF StopInv

(* When the future of a shutdown completes, /user has ended and so have    *)
(* the actors below it that were there when it began to stop and were not  *)
(* forgotten for another of their name: for any number of actors, names,   *)
(* calls and drops, in any order of the events, and although stops may be  *)
(* lost (system.rs ShutdownActor, actor_cell.rs death_watch).              *)
THEOREM SystemCompletedMeansStopped == Spec => []CompletedMeansStopped
<1>1. StopInv => CompletedMeansStopped
  BY DEF StopInv, HeardInv, EmptyInv, CompletedMeansStopped
<1> QED
  BY <1>1, InitStop, StopStep, PTL DEF Spec

-----------------------------------------------------------------------------
(* No shutdown misses the end of /user                                     *)

(* An element of a sequence has a place in it.                             *)
LEMMA InSet ==
    ASSUME NEW S, NEW seq \in Seq(S), NEW x
    PROVE  x \in ToSet(seq) <=> \E i \in 1..Len(seq) : seq[i] = x
  BY LenProperties DEF ToSet

(* What is at hand is what SubscribedBeforeEnd asks for.                   *)
LEMMA AtHandMeans == TypeOK /\ AtHandInv => SubscribedBeforeEnd
<1> SUFFICES ASSUME TypeOK, user = "closed", NEW s \in in_time, AtHand(s)
             PROVE  \/ "user" \in ToSet(inbox[s]) \/ tx[s] # "some"
                    \/ \E i \in DOMAIN events :
                          /\ events[i] = UserEnded
                          /\ s \in ToSet(subs) \/ \E j \in 1..i : events[j] = Subscribe(s)
  BY DEF AtHandInv, SubscribedBeforeEnd
<1>1. /\ s \in Call /\ inbox[s] \in Seq(Kid \cup {"user"})
      /\ subs \in Seq(Call) /\ events \in Seq(ChannelMsg)
  BY DEF TypeOK
<1>2. DOMAIN events = 1..Len(events)
  BY <1>1, LenProperties
<1>3. /\ "user" \in ToSet(inbox[s]) <=> \E i \in 1..Len(inbox[s]) : inbox[s][i] = "user"
      /\ s \in ToSet(subs) <=> \E i \in 1..Len(subs) : subs[i] = s
  BY <1>1, InSet
<1> QED
  BY <1>2, <1>3 DEF AtHand

(* Only the channel takes from its mailbox; everyone else adds at the end. *)
EventsGrow ==
    /\ Len(events') \in Nat /\ Len(events) <= Len(events')
    /\ \A i \in 1..Len(events) : events'[i] = events[i]
    /\ subs' = subs

(* The mailbox of the events channel only grows, but when the channel      *)
(* takes a message.                                                        *)
LEMMA Growing ==
    ASSUME TypeOK, [Next]_vars
    PROVE  EventsGrow \/ HandleEvent
<1>e. events \in Seq(ChannelMsg) /\ Len(events) \in Nat
  BY LenProperties DEF TypeOK
<1>1. ASSUME NEW msg \in ChannelMsg, events' = Append(events, msg), subs' = subs
      PROVE  EventsGrow
  BY <1>e, <1>1, AppendAt DEF EventsGrow
<1>2. ASSUME events' = events, subs' = subs
      PROVE  EventsGrow
  BY <1>e, <1>2 DEF EventsGrow
<1>3. CASE Start
  BY <1>2, <1>3, StartFrame
<1>4. CASE User
  <2>1. subs' = subs
    BY <1>4, UserFrame
  <2>2. events' = events \/ events' = Append(events, UserEnded)
    BY <1>4 DEF User, HandleStop, HandleTerminated, ReceiveSys, ReceiveTerminate,
                PublishEvent, UserEnded, channel
  <2>3. UserEnded \in ChannelMsg
    BY DEF UserEnded, Publish, ChannelMsg
  <2> QED
    BY <1>1, <1>2, <2>1, <2>2, <2>3
<1>5. ASSUME NEW k \in Kid, KidStep(k)
      PROVE  EventsGrow
  <2>1. subs' = subs
    BY <1>5, KidFrame
  <2>2. \/ events' = events
        \/ events' = Append(events, Publish("actor.created", k))
        \/ events' = Append(events, Publish("actor.terminated", k))
    BY <1>5 DEF KidStep, ActorOf, StopKid, LoseStop, Unregister, KidEnds, PublishEvent, channel
  <2>3. /\ Publish("actor.created", k) \in ChannelMsg
        /\ Publish("actor.terminated", k) \in ChannelMsg
    BY DEF Publish, ChannelMsg
  <2> QED
    BY <1>1, <1>2, <2>1, <2>2, <2>3
<1>6. ASSUME NEW s \in Call, CallStep(s)
      PROVE  EventsGrow
  <2>1. subs' = subs
    BY <1>6, CallFrame
  <2>2. \/ events' = events
        \/ events' = Append(events, Subscribe(s))
        \/ events' = Append(events, Publish("actor.restarted", s))
    BY <1>6 DEF CallStep, ShutdownActor, Shutdown, DropFuture, PreStart, Receive,
                IgnoreEvent, Restarted, PublishEvent, channel
  <2>3. /\ Subscribe(s) \in ChannelMsg
        /\ Publish("actor.restarted", s) \in ChannelMsg
    BY DEF Subscribe, Publish, ChannelMsg
  <2> QED
    BY <1>1, <1>2, <2>1, <2>2, <2>3
<1>7. CASE LetterStep \/ UNCHANGED vars
  BY <1>2, <1>7, LetterFrame DEF vars, channel
<1> QED
  BY <1>3, <1>4, <1>5, <1>6, <1>7, NextCases

(* What HandleEvent takes, and where the other events are afterwards.      *)
LEMMA EventTaken ==
    ASSUME TypeOK, HandleEvent
    PROVE  /\ Head(events) \in ChannelMsg
           /\ Head(events) = events[1] /\ Len(events) > 0 /\ Len(events) \in Nat
           /\ Len(events') = Len(events) - 1
           /\ \A i \in 1..Len(events') : events'[i] = events[i + 1]
<1>1. events \in Seq(ChannelMsg) /\ events # <<>> /\ events' = Tail(events)
  BY DEF TypeOK, HandleEvent
<1>2. Len(events) \in Nat
  BY <1>1, LenProperties
<1> QED
  BY <1>1, <1>2, HeadTail

(* A Subscribe that is handled is a registration; no registration is lost. *)
LEMMA Registered ==
    ASSUME TypeOK, HandleEvent, NEW s \in Call,
           Head(events) = Subscribe(s) \/ \E n \in 1..Len(subs) : subs[n] = s
    PROVE  \E n \in 1..Len(subs') : subs'[n] = s
<1>1. subs \in Seq(Call) /\ Len(subs) \in Nat
  BY LenProperties DEF TypeOK
<1>2. CASE Head(events).op = "Subscribe" /\ subs' = Append(subs, Head(events).actor)
  <2>1. Head(events).actor \in Call
    BY <1>2, EventTaken DEF ChannelMsg
  <2>2. /\ Len(subs') = Len(subs) + 1
        /\ \A n \in 1..Len(subs) : subs'[n] = subs[n]
        /\ subs'[Len(subs) + 1] = Head(events).actor
    BY <1>1, <1>2, <2>1, AppendAt
  <2>3. Head(events) = Subscribe(s) => Head(events).actor = s
    BY DEF Subscribe
  <2>4. CASE Head(events) = Subscribe(s)
    BY <1>1, <2>2, <2>3, <2>4
  <2>5. CASE \E n \in 1..Len(subs) : subs[n] = s
    BY <1>1, <2>2, <2>5
  <2> QED
    BY <2>4, <2>5
<1>3. CASE Head(events).op = "Publish" /\ subs' = subs
  <2>1. Head(events) # Subscribe(s)
    BY <1>3 DEF Subscribe
  <2> QED
    BY <1>3, <2>1
<1> QED
  BY <1>2, <1>3 DEF HandleEvent

(* A call is in time only by the step that tells its subscription.         *)
LEMMA InTimeGrows ==
    ASSUME [Next]_vars
    PROVE  \/ in_time' = in_time
           \/ \E s \in Call : /\ in_time' = in_time \cup {s} /\ user = "open"
                              /\ user' = user
                              /\ events' = Append(events, Subscribe(s))
<1>1. ASSUME NEW s \in Call, CallStep(s), in_time' # in_time
      PROVE  /\ in_time' = in_time \cup {s} /\ user = "open" /\ user' = user
             /\ events' = Append(events, Subscribe(s))
  <2>1. PreStart(s)
    BY <1>1 DEF CallStep, ShutdownActor, Shutdown, DropFuture, Receive, IgnoreEvent,
                Restarted
  <2>2. user = "open" /\ shutdown[s] = "init" /\ in_time' = in_time \cup {s}
    BY <1>1, <2>1 DEF PreStart
  <2>3. events' = Append(events, Subscribe(s))
    BY <2>1, <2>2 DEF PreStart, Tells
  <2> QED
    BY <1>1, <2>2, <2>3, CallFrame
<1> QED
  BY <1>1, NextCases, StartFrame, UserFrame, EventFrame, KidFrame, LetterFrame
  DEF vars, calls

(* Every step keeps that a timely call is registered or has asked to be.   *)
LEMMA TimelyStep == TypeOK /\ TimelyInv /\ [Next]_vars => TimelyInv'
<1> SUFFICES ASSUME TypeOK, TimelyInv, [Next]_vars, NEW s \in in_time'
             PROVE  \/ \E i \in 1..Len(subs') : subs'[i] = s
                    \/ \E j \in 1..Len(events') : events'[j] = Subscribe(s)
  BY DEF TimelyInv
<1>e. events \in Seq(ChannelMsg) /\ Len(events) \in Nat
  BY LenProperties DEF TypeOK
<1>1. CASE s \in in_time
  <2>0. s \in Call
    BY <1>1 DEF TypeOK
  <2>1. CASE EventsGrow
    BY <1>1, <1>e, <2>1 DEF TimelyInv, EventsGrow
  <2>2. CASE HandleEvent
    <3>1. CASE \E i \in 1..Len(subs) : subs[i] = s
      BY <2>0, <2>2, <3>1, Registered
    <3>2. ASSUME NEW j \in 1..Len(events), events[j] = Subscribe(s)
          PROVE  \/ \E i \in 1..Len(subs') : subs'[i] = s
                 \/ \E i \in 1..Len(events') : events'[i] = Subscribe(s)
      <4>1. CASE j = 1
        BY <2>0, <2>2, <3>2, <4>1, EventTaken, Registered
      <4>2. CASE j # 1
        <5>1. j - 1 \in 1..Len(events') /\ events'[j - 1] = events[j]
          BY <2>2, <3>2, <4>2, EventTaken
        <5> QED
          BY <3>2, <5>1
      <4> QED
        BY <4>1, <4>2
    <3> QED
      BY <1>1, <3>1, <3>2 DEF TimelyInv
  <2> QED
    BY <2>1, <2>2, Growing
<1>2. CASE s \notin in_time
  <2>1. s \in Call /\ events' = Append(events, Subscribe(s))
    BY <1>2, InTimeGrows
  <2>2. Subscribe(s) \in ChannelMsg
    BY <2>1 DEF Subscribe, ChannelMsg
  <2>3. Len(events') = Len(events) + 1 /\ events'[Len(events) + 1] = Subscribe(s)
    BY <1>e, <2>1, <2>2, AppendAt
  <2> QED
    BY <1>e, <2>3
<1> QED
  BY <1>1, <1>2

(* Every step keeps that a ShutdownActor fails only without its sender.    *)
LEMMA FailedStep == TypeOK /\ FailedInv /\ [Next]_vars => FailedInv'
<1> SUFFICES ASSUME TypeOK, FailedInv, [Next]_vars PROVE FailedInv'
  OBVIOUS
<1>1. ASSUME NEW s \in Call, CallStep(s)
      PROVE  FailedInv'
  <2>1. CASE Receive(s)
    <3>1. \/ shutdown' = shutdown /\ tx' = tx
          \/ shutdown' = shutdown /\ tx' = [tx EXCEPT ![s] = "none"]
          \/ tx' = [tx EXCEPT ![s] = "poisoned"]
             /\ shutdown' = [shutdown EXCEPT ![s] = "failed"]
      BY <2>1 DEF Receive
    <3> QED
      BY <3>1 DEF FailedInv, TypeOK
  <2>2. CASE PreStart(s)
    <3>1. /\ shutdown' = [shutdown EXCEPT ![s] = IF shutdown[s] = "init" THEN "half" ELSE "up"]
          /\ tx' = tx
      BY <2>2 DEF PreStart
    <3> QED
      BY <3>1 DEF FailedInv, TypeOK
  <2>3. CASE Shutdown(s) \/ Restarted(s)
    <3>1. shutdown' = [shutdown EXCEPT ![s] = "init"] /\ tx' = tx
      BY <2>3 DEF Shutdown, Restarted
    <3> QED
      BY <3>1 DEF FailedInv, TypeOK
  <2>4. CASE DropFuture(s) \/ IgnoreEvent(s)
    <3>1. shutdown' = shutdown /\ tx' = tx
      BY <2>4 DEF DropFuture, IgnoreEvent
    <3> QED
      BY <3>1 DEF FailedInv
  <2> QED
    BY <1>1, <2>1, <2>2, <2>3, <2>4 DEF CallStep, ShutdownActor
<1>2. CASE UNCHANGED <<shutdown, tx>>
  BY <1>2 DEF FailedInv
<1> QED
  BY <1>1, <1>2, NextCases, StartFrame, UserFrame, EventFrame, KidFrame, LetterFrame
  DEF vars, calls

(* The end of /user is published behind every subscription told in time.   *)
LEMMA EndComes ==
    ASSUME TypeOK, TimelyInv, [Next]_vars, user # "closed", user' = "closed",
           NEW s \in in_time'
    PROVE  AtHand(s)'
<1>1. ReceiveTerminate /\ events' = Append(events, UserEnded)
  <2>1. User
    BY NextCases, EventFrame, KidFrame, CallFrame, LetterFrame
    DEF vars, guardian, Start, Create, CreateRoot, SysChannels, StartLogger, CompleteStart
  <2>2. ReceiveTerminate
    BY <2>1 DEF User, HandleStop, HandleTerminated, ReceiveSys
  <2> QED
    BY <2>2 DEF ReceiveTerminate, PublishEvent, UserEnded
<1>2. in_time' = in_time /\ subs' = subs
  BY <1>1, UserFrame DEF User, calls
<1>3. UserEnded \in ChannelMsg
  BY DEF UserEnded, Publish, ChannelMsg
<1>4. events \in Seq(ChannelMsg) /\ Len(events) \in Nat
  BY LenProperties DEF TypeOK
<1>5. /\ Len(events') = Len(events) + 1
      /\ \A i \in 1..Len(events) : events'[i] = events[i]
      /\ events'[Len(events) + 1] = UserEnded
  BY <1>1, <1>3, <1>4, AppendAt
<1>6. \/ \E n \in 1..Len(subs') : subs'[n] = s
      \/ \E j \in 1..Len(events') : events'[j] = Subscribe(s)
  BY <1>2, <1>4, <1>5 DEF TimelyInv
<1> QED
  BY <1>4, <1>5, <1>6 DEF AtHand

(* As long as a call's inbox and sender stay, what it has at hand stays.   *)
LEMMA AtHandGrows ==
    ASSUME TypeOK, EventsGrow, NEW s \in Call, inbox'[s] = inbox[s], tx'[s] = tx[s],
           AtHand(s)
    PROVE  AtHand(s)'
<1>1. Len(events) \in Nat
  BY LenProperties DEF TypeOK
<1>2. CASE (\E i \in 1..Len(inbox[s]) : inbox[s][i] = "user") \/ tx[s] # "some"
  BY <1>2 DEF AtHand
<1>3. ASSUME NEW i \in 1..Len(events), events[i] = UserEnded,
             \/ \E n \in 1..Len(subs) : subs[n] = s
             \/ \E j \in 1..i : events[j] = Subscribe(s)
      PROVE  AtHand(s)'
  <2>1. i \in 1..Len(events') /\ events'[i] = UserEnded
    BY <1>1, <1>3 DEF EventsGrow
  <2>2. \A j \in 1..i : events'[j] = events[j]
    BY <1>1, <1>3 DEF EventsGrow
  <2>3. \/ \E n \in 1..Len(subs') : subs'[n] = s
        \/ \E j \in 1..i : events'[j] = Subscribe(s)
    BY <1>3, <2>2 DEF EventsGrow
  <2> QED
    BY <2>1, <2>3 DEF AtHand
<1> QED
  BY <1>2, <1>3 DEF AtHand

(* The channel moves the subscription to its list and the end of /user to  *)
(* the inboxes of those on it, in that order.                              *)
LEMMA AtHandDelivered ==
    ASSUME TypeOK, HandleEvent, NEW s \in Call, AtHand(s)
    PROVE  AtHand(s)'
<1>1. /\ Head(events) \in ChannelMsg
      /\ Head(events) = events[1] /\ Len(events) > 0 /\ Len(events) \in Nat
      /\ Len(events') = Len(events) - 1
      /\ \A i \in 1..Len(events') : events'[i] = events[i + 1]
  BY EventTaken
<1>2. \/ inbox' = inbox
      \/ /\ Head(events).op = "Publish"
         /\ inbox' = [t \in Call |-> Deliver(t, Head(events))]
  BY DEF HandleEvent
<1>3. tx' = tx
  BY EventFrame
<1>4. CASE \E i \in 1..Len(inbox[s]) : inbox[s][i] = "user"
  <2>1. CASE inbox' = inbox
    BY <1>4, <2>1 DEF AtHand
  <2>2. CASE /\ Head(events).op = "Publish"
             /\ inbox' = [t \in Call |-> Deliver(t, Head(events))]
    <3>1. inbox'[s] = Deliver(s, Head(events))
      BY <2>2
    <3>2. \E i \in 1..Len(inbox'[s]) : inbox'[s][i] = "user"
      BY <1>1, <1>4, <2>2, <3>1, Delivered
    <3> QED
      BY <3>2 DEF AtHand
  <2> QED
    BY <1>2, <2>1, <2>2
<1>5. CASE tx[s] # "some"
  BY <1>3, <1>5 DEF AtHand
<1>6. ASSUME NEW i \in 1..Len(events), events[i] = UserEnded,
             \/ \E n \in 1..Len(subs) : subs[n] = s
             \/ \E j \in 1..i : events[j] = Subscribe(s)
      PROVE  AtHand(s)'
  <2>0. UserEnded # Subscribe(s) /\ UserEnded.op = "Publish"
    BY DEF UserEnded, Publish, Subscribe
  <2>1. CASE i = 1
    <3>1. Head(events) = UserEnded /\ \E n \in 1..Len(subs) : subs[n] = s
      BY <1>1, <1>6, <2>0, <2>1
    <3>2. inbox' = [t \in Call |-> Deliver(t, Head(events))]
      BY <2>0, <3>1 DEF HandleEvent
    <3>3. inbox'[s] = Deliver(s, Head(events))
      BY <3>2
    <3>4. \E n \in 1..Len(inbox'[s]) : inbox'[s][n] = "user"
      BY <1>1, <2>0, <3>1, <3>3, Delivered
    <3> QED
      BY <3>4 DEF AtHand
  <2>2. CASE i # 1
    <3>1. i - 1 \in 1..Len(events') /\ events'[i - 1] = UserEnded
      BY <1>1, <1>6, <2>2
    <3>2. CASE Head(events) = Subscribe(s) \/ \E n \in 1..Len(subs) : subs[n] = s
      <4>1. \E n \in 1..Len(subs') : subs'[n] = s
        BY <3>2, Registered
      <4> QED
        BY <3>1, <4>1 DEF AtHand
    <3>3. CASE Head(events) # Subscribe(s) /\ ~ \E n \in 1..Len(subs) : subs[n] = s
      <4>1. PICK j \in 1..i : events[j] = Subscribe(s)
        BY <1>6, <3>3
      <4>2. j # 1
        BY <1>1, <3>3, <4>1
      <4>3. j - 1 \in 1..i - 1 /\ events'[j - 1] = Subscribe(s)
        BY <1>1, <1>6, <4>1, <4>2
      <4> QED
        BY <3>1, <4>3 DEF AtHand
    <3> QED
      BY <3>2, <3>3
  <2> QED
    BY <2>1, <2>2
<1> QED
  BY <1>4, <1>5, <1>6 DEF AtHand

(* Whoever takes the end of /user from its inbox has used its sender.      *)
LEMMA AtHandReceived ==
    ASSUME TypeOK, FailedInv, NEW s \in Call, Receive(s) \/ IgnoreEvent(s), AtHand(s)
    PROVE  AtHand(s)'
<1>1. UNCHANGED <<events, subs>>
  BY DEF Receive, IgnoreEvent, channel
<1>2. /\ inbox \in [Call -> Seq(Kid \cup {"user"})]
      /\ tx \in [Call -> {"some", "none", "poisoned"}]
  BY DEF TypeOK
<1>3. /\ inbox[s] # <<>> /\ inbox' = [inbox EXCEPT ![s] = Tail(inbox[s])]
      /\ \/ tx' = tx /\ (Head(inbox[s]) # "user" \/ tx[s] # "some")
         \/ tx' = [tx EXCEPT ![s] = "none"]
         \/ tx' = [tx EXCEPT ![s] = "poisoned"]
  BY DEF Receive, IgnoreEvent, FailedInv
<1>4. /\ inbox'[s] = Tail(inbox[s]) /\ inbox[s] \in Seq(Kid \cup {"user"})
      /\ inbox[s] # <<>>
  BY <1>2, <1>3
<1>5. CASE tx'[s] # "some"
  BY <1>5 DEF AtHand
<1>6. CASE tx'[s] = "some"
  <2>1. Head(inbox[s]) # "user" /\ tx[s] = "some"
    BY <1>2, <1>3, <1>6
  <2>2. CASE \E i \in 1..Len(inbox[s]) : inbox[s][i] = "user"
    <3>1. /\ Head(inbox[s]) = inbox[s][1] /\ Len(inbox[s]) \in Nat
          /\ Len(inbox'[s]) = Len(inbox[s]) - 1
          /\ \A i \in 1..Len(inbox'[s]) : inbox'[s][i] = inbox[s][i + 1]
      BY <1>4, HeadTail, LenProperties
    <3>2. PICK i \in 1..Len(inbox[s]) : inbox[s][i] = "user"
      BY <2>2
    <3>3. i # 1
      BY <2>1, <3>1, <3>2
    <3>4. i - 1 \in 1..Len(inbox'[s]) /\ inbox'[s][i - 1] = "user"
      BY <3>1, <3>2, <3>3
    <3> QED
      BY <3>4 DEF AtHand
  <2>3. CASE ~ \E i \in 1..Len(inbox[s]) : inbox[s][i] = "user"
    BY <1>1, <2>1, <2>3 DEF AtHand
  <2> QED
    BY <2>2, <2>3
<1> QED
  BY <1>5, <1>6

(* Every step keeps the news at hand of the calls that are to get it.      *)
LEMMA AtHandStep ==
    TypeOK /\ TimelyInv /\ FailedInv /\ AtHandInv /\ [Next]_vars => AtHandInv'
<1> SUFFICES ASSUME TypeOK, TimelyInv, FailedInv, AtHandInv, [Next]_vars,
                    user' = "closed", NEW s \in in_time'
             PROVE  AtHand(s)'
  BY DEF AtHandInv
<1>1. CASE user # "closed"
  BY <1>1, EndComes
<1>2. CASE user = "closed"
  <2>1. s \in in_time
    BY <1>2, InTimeGrows
  <2>2. s \in Call /\ AtHand(s)
    BY <1>2, <2>1 DEF AtHandInv, TypeOK
  <2>3. CASE HandleEvent
    BY <2>2, <2>3, AtHandDelivered
  <2>4. CASE EventsGrow
    <3>1. CASE inbox'[s] = inbox[s] /\ tx'[s] = tx[s]
      BY <2>2, <2>4, <3>1, AtHandGrows
    <3>2. ASSUME NEW t \in Call, CallStep(t)
          PROVE  AtHand(s)'
      <4>1. CASE Receive(t) \/ IgnoreEvent(t)
        <5>1. CASE t = s
          BY <2>2, <4>1, <5>1, AtHandReceived
        <5>2. CASE t # s
          <6>1. /\ inbox' = [inbox EXCEPT ![t] = Tail(inbox[t])]
                /\ \/ tx' = tx
                   \/ tx' = [tx EXCEPT ![t] = "none"]
                   \/ tx' = [tx EXCEPT ![t] = "poisoned"]
            BY <4>1 DEF Receive, IgnoreEvent
          <6>2. inbox'[s] = inbox[s] /\ tx'[s] = tx[s]
            BY <2>2, <5>2, <6>1 DEF TypeOK
          <6> QED
            BY <3>1, <6>2
        <5> QED
          BY <5>1, <5>2
      <4>2. CASE Shutdown(t) \/ DropFuture(t) \/ PreStart(t) \/ Restarted(t)
        <5>1. inbox' = inbox /\ tx' = tx
          BY <4>2 DEF Shutdown, DropFuture, PreStart, Restarted
        <5> QED
          BY <3>1, <5>1
      <4> QED
        BY <3>2, <4>1, <4>2 DEF CallStep, ShutdownActor
    <3>3. CASE UNCHANGED <<inbox, tx>>
      BY <3>1, <3>3
    <3> QED
      BY <2>3, <3>2, <3>3, NextCases, StartFrame, UserFrame, KidFrame, LetterFrame
      DEF vars, calls
  <2> QED
    BY <2>3, <2>4, Growing
<1> QED
  BY <1>1, <1>2

(* The invariant of shutdown holds at first.                               *)
LEMMA InitShutdown == Init => ShutdownInv
<1> SUFFICES ASSUME Init PROVE ShutdownInv
  OBVIOUS
<1>1. TimelyInv /\ FailedInv /\ AtHandInv
  BY DEF Init, TimelyInv, FailedInv, AtHandInv
<1> QED
  BY <1>1, InitStop DEF ShutdownInv

(* Every step keeps it.                                                    *)
LEMMA ShutdownStep == ShutdownInv /\ [Next]_vars => ShutdownInv'
<1> SUFFICES ASSUME ShutdownInv, [Next]_vars PROVE ShutdownInv'
  OBVIOUS
<1>1. TypeOK /\ StopInv /\ TimelyInv /\ FailedInv /\ AtHandInv
  BY DEF ShutdownInv, StopInv
<1> QED
  BY <1>1, StopStep, TimelyStep, FailedStep, AtHandStep DEF ShutdownInv

(* A shutdown never misses the end it brought about: when /user has ended, *)
(* every call whose actor started before has the news, has used it, or     *)
(* will get it from the channel, its subscription being registered or      *)
(* ahead of the news in the channel's mailbox (system.rs pre_start of      *)
(* ShutdownActor, and its todo).                                           *)
THEOREM SystemSubscribedBeforeEnd == Spec => []SubscribedBeforeEnd
<1>1. ShutdownInv => SubscribedBeforeEnd
  BY AtHandMeans DEF ShutdownInv, StopInv
<1> QED
  BY <1>1, InitShutdown, ShutdownStep, PTL DEF Spec

=============================================================================
