-------------------------- MODULE SupervisionProofs -------------------------
(***************************************************************************)
(* Proofs about Supervision for any tree of actors, any names, props and   *)
(* strategies, and any bounds.                                             *)
(***************************************************************************)
EXTENDS Supervision, SequenceTheorems, TLAPS

(* The constants of the tree.                                              *)
LEMMA TreeFacts ==
    /\ Guardian \in Actor
    /\ Alive \subseteq Actor
    /\ Watchers \subseteq Actor
    /\ \A a \in Actor \ {Guardian} : Parent[a] \in Actor
  BY TreeAssumption

(* The registry of paths and the lives of actors keep their types.         *)
LEMMA RegistryStep == RegistryOK /\ [Next]_vars => RegistryOK'
<1> SUFFICES ASSUME RegistryOK, [Next]_vars
             PROVE  RegistryOK'
  OBVIOUS
<1> USE DEF RegistryOK, registry, factories, outcomes
<1>1. ASSUME NEW a \in Actor, Register(a) \/ StartActor(a) \/ AddChild(a) \/ TellInit(a)
      PROVE  RegistryOK'
  BY <1>1 DEF Register, StartActor, AddChild, TellInit, Produces, ProducePanics, ChildrenOf,
              LateWith
<1>2. ASSUME NEW a \in Actor, Stop(a) \/ Drain(a)
      PROVE  RegistryOK'
  BY <1>2 DEF Stop, Drain
<1>3. ASSUME NEW a \in Actor, Handle(a)
      PROVE  RegistryOK'
  BY <1>3 DEF Handle, HandleInit, HandleStop, HandleRestart, HandleFailed, HandleTerminated
<1>4. ASSUME NEW a \in Actor, RecvPanic(a)
      PROVE  RegistryOK'
  BY <1>4 DEF RecvPanic
<1>5. ASSUME NEW a \in Actor, CallbackActorOf(a)
      PROVE  RegistryOK'
  BY <1>5 DEF CallbackActorOf, ActorOf, Produces, ProducePanics, LateWith
<1>6. ASSUME NEW a \in Actor, RestartActor(a)
      PROVE  RegistryOK'
  BY <1>6 DEF RestartActor, Produces, ProducePanics
<1>7. ASSUME NEW a \in Actor, TerminateActor(a) \/ PublishEnd(a) \/ Close(a)
      PROVE  RegistryOK'
  BY <1>7 DEF TerminateActor, PublishEnd, Close
<1>8. CASE UNCHANGED vars \/ TellWatchers
  BY <1>8 DEF vars, TellWatchers
<1>9. QED
  BY <1>1, <1>2, <1>3, <1>4, <1>5, <1>6, <1>7, <1>8 DEF Next

(* A message sent to a kernel is one more of its kind.                     *)
LEMMA SendType ==
    ASSUME CellsOK, NEW a \in Actor, NEW k \in KernelMsg, Send(a, k)
    PROVE  rx' \in [Actor -> [KernelMsg -> Nat]]
  BY DEF CellsOK, Send

(* What a panic leaves of the instance.                                    *)
LEMMA FailsType ==
    ASSUME CellsOK, NEW a \in Actor, NEW behind, Fails(a, behind)
    PROVE  instance' \in [Actor -> {"none", "fresh", "started", "stopped"}]
  BY DEF CellsOK, Fails

(* The children, instances and kernel channels keep their types.           *)
LEMMA CellsStep == CellsOK /\ [Next]_vars => CellsOK'
<1> SUFFICES ASSUME CellsOK, [Next]_vars
             PROVE  CellsOK'
  OBVIOUS
<1> USE DEF CellsOK, cells, mailboxes, factories, outcomes
<1>1. ASSUME NEW a \in Actor, Register(a) \/ StartActor(a) \/ TellInit(a)
      PROVE  CellsOK'
  BY <1>1 DEF Register, StartActor, TellInit
<1>2. ASSUME NEW a \in Actor, AddChild(a)
      PROVE  CellsOK'
  BY <1>2, TreeFacts DEF AddChild, WithChild
<1>3. ASSUME NEW a \in Actor, Stop(a) \/ Drain(a)
      PROVE  CellsOK'
  BY <1>3 DEF Stop, Drain
<1>4. ASSUME NEW a \in Actor, HandleInit(a) \/ HandleFailed(a) \/ RecvPanic(a)
      PROVE  CellsOK'
  BY <1>4 DEF HandleInit, HandleFailed, RecvPanic, Panic, Fails
<1>5. ASSUME NEW a \in Actor, HandleStop(a)
      PROVE  CellsOK'
  <2>1. rx' \in [Actor -> [KernelMsg -> Nat]]
    BY <1>5, SendType DEF HandleStop, KernelMsg
  <2>2. instance' \in [Actor -> {"none", "fresh", "started", "stopped"}]
    BY <1>5, FailsType DEF HandleStop, PostStopped, Panic
  <2>3. QED
    BY <1>5, <2>1, <2>2 DEF HandleStop
<1>6. ASSUME NEW a \in Actor, HandleRestart(a)
      PROVE  CellsOK'
  BY <1>6 DEF HandleRestart, Send, KernelMsg
<1>7. ASSUME NEW a \in Actor, HandleTerminated(a)
      PROVE  CellsOK'
  <2>1. rx' \in [Actor -> [KernelMsg -> Nat]]
    <3>1. CASE Send(a, "TerminateActor")
      BY <3>1, SendType DEF KernelMsg
    <3>2. CASE UNCHANGED rx
      BY <3>2
    <3>3. CASE \E m, n \in {0, 1} :
                  rx' = [rx EXCEPT ![a]["TerminateActor"] = @ + m, ![a]["RestartActor"] = @ + n]
      BY <3>3 DEF KernelMsg
    <3>4. QED
      BY <1>7, <3>1, <3>2, <3>3 DEF HandleTerminated
  <2>2. instance' \in [Actor -> {"none", "fresh", "started", "stopped"}]
    BY <1>7, FailsType DEF HandleTerminated, PostStopped, Panic
  <2>3. children' \in [Actor -> SUBSET Actor] /\ forgotten' \subseteq Actor
    BY <1>7 DEF HandleTerminated, Removed, SamePath
  <2>4. QED
    BY <2>1, <2>2, <2>3
<1>8. ASSUME NEW a \in Actor, CallbackActorOf(a)
      PROVE  CellsOK'
  <2>1. PICK c \in Actor \ {Guardian} : ActorOf(a, c)
    BY <1>8 DEF CallbackActorOf
  <2>2. WithChild(a, c) \in SUBSET Actor
    BY DEF WithChild
  <2>3. children' \in [Actor -> SUBSET Actor]
    BY <2>1, <2>2 DEF ActorOf
  <2>4. QED
    BY <1>8, <2>3 DEF CallbackActorOf
<1>9. ASSUME NEW a \in Actor, RestartActor(a) \/ TerminateActor(a)
      PROVE  CellsOK'
  <2>1. rx' \in [Actor -> [KernelMsg -> Nat]]
    BY <1>9 DEF RestartActor, TerminateActor, Receive, KernelMsg
  <2>2. instance' \in [Actor -> {"none", "fresh", "started", "stopped"}]
    BY <1>9 DEF RestartActor, TerminateActor
  <2>3. UNCHANGED <<children, forgotten>>
    BY <1>9 DEF RestartActor, TerminateActor
  <2>4. QED
    BY <2>1, <2>2, <2>3
<1>10. ASSUME NEW a \in Actor, PublishEnd(a) \/ Close(a)
      PROVE  CellsOK'
  <2>1. rx' \in [Actor -> [KernelMsg -> Nat]]
    <3>1. rx' = rx \/ rx' = [rx EXCEPT ![a] = [k \in KernelMsg |-> 0]]
      BY <1>10 DEF PublishEnd, Close
    <3>2. QED
      BY <3>1
  <2>2. UNCHANGED <<children, forgotten, instance>>
    BY <1>10 DEF PublishEnd, Close
  <2>3. QED
    BY <2>1, <2>2
<1>11. CASE UNCHANGED vars \/ TellWatchers
  BY <1>11 DEF vars, TellWatchers
<1>12. QED
  BY <1>1, <1>2, <1>3, <1>4, <1>5, <1>6, <1>7, <1>8, <1>9, <1>10, <1>11 DEF Next, Handle

(* The flags of all cells keep their types.                                *)
LEMMA FlagsStep == FlagsOK /\ [Next]_vars => FlagsOK'
<1> SUFFICES ASSUME FlagsOK, [Next]_vars
             PROVE  FlagsOK'
  OBVIOUS
<1> USE DEF FlagsOK, cells, mailboxes, registry, factories, outcomes
<1>1. ASSUME NEW a \in Actor, Register(a) \/ StartActor(a) \/ AddChild(a) \/ TellInit(a)
      PROVE  FlagsOK'
  BY <1>1 DEF Register, StartActor, AddChild, TellInit
<1>2. ASSUME NEW a \in Actor, Stop(a) \/ Drain(a)
      PROVE  FlagsOK'
  BY <1>2 DEF Stop, Drain
<1>3. ASSUME NEW a \in Actor, HandleInit(a) \/ HandleFailed(a) \/ RecvPanic(a)
      PROVE  FlagsOK'
  BY <1>3 DEF HandleInit, HandleFailed, RecvPanic, Panic, Fails
<1>4. ASSUME NEW a \in Actor, HandleStop(a)
      PROVE  FlagsOK'
  BY <1>4 DEF HandleStop, Panic, Fails
<1>5. ASSUME NEW a \in Actor, HandleRestart(a)
      PROVE  FlagsOK'
  BY <1>5 DEF HandleRestart
<1>6. ASSUME NEW a \in Actor, HandleTerminated(a)
      PROVE  FlagsOK'
  BY <1>6 DEF HandleTerminated, Panic, Fails
<1>7. ASSUME NEW a \in Actor, CallbackActorOf(a)
      PROVE  FlagsOK'
  BY <1>7 DEF CallbackActorOf, ActorOf
<1>8. ASSUME NEW a \in Actor,
             RestartActor(a) \/ TerminateActor(a) \/ PublishEnd(a) \/ Close(a)
      PROVE  FlagsOK'
  BY <1>8 DEF RestartActor, TerminateActor, PublishEnd, Close
<1>9. CASE UNCHANGED vars \/ TellWatchers
  BY <1>9 DEF vars, TellWatchers
<1>10. QED
  BY <1>1, <1>2, <1>3, <1>4, <1>5, <1>6, <1>7, <1>8, <1>9 DEF Next, Handle

(* Who is in create_actor by a thread outside is to be a child of /user,   *)
(* and from start_actor on its kernel was started.                         *)
StartedOK ==
    \A a \in Actor :
        /\ creation[a] \in {"registered", "started", "added"} => a \in ChildrenOf(Guardian)
        /\ creation[a] \in {"started", "added", "done"} => life[a] # "unborn"

(* Every step keeps that, and nobody becomes unborn again.                 *)
LEMMA StartedStep ==
    ASSUME RegistryOK, StartedOK, [Next]_vars
    PROVE  StartedOK' /\ \A a \in Actor : life'[a] = "unborn" => life[a] = "unborn"
<1> USE DEF RegistryOK, StartedOK
<1>1. CASE UNCHANGED <<life, creation>>
  BY <1>1 DEF ChildrenOf
<1>2. ASSUME NEW a \in Actor, Register(a) \/ AddChild(a) \/ TellInit(a)
      PROVE  StartedOK' /\ life' = life
  BY <1>2 DEF Register, AddChild, TellInit, ChildrenOf
<1>3. ASSUME NEW a \in Actor, StartActor(a)
      PROVE  StartedOK' /\ \A b \in Actor : life'[b] = "unborn" => life[b] = "unborn"
  BY <1>3 DEF StartActor, ChildrenOf
<1>4. ASSUME NEW a \in Actor, CallbackActorOf(a)
      PROVE  StartedOK' /\ \A b \in Actor : life'[b] = "unborn" => life[b] = "unborn"
  BY <1>4 DEF CallbackActorOf, ActorOf, ChildrenOf
<1>5. ASSUME NEW a \in Actor, TerminateActor(a) \/ PublishEnd(a) \/ Close(a)
      PROVE  StartedOK' /\ \A b \in Actor : life'[b] = "unborn" => life[b] = "unborn"
  BY <1>5 DEF TerminateActor, PublishEnd, Close, ChildrenOf
<1>6. QED
  BY <1>1, <1>2, <1>3, <1>4, <1>5
     DEF Next, Handle, Stop, Drain, HandleInit, HandleStop, HandleRestart, HandleFailed,
         HandleTerminated, RecvPanic, RestartActor, TellWatchers, registry, vars

(* A child is listed by its parent only, after its kernel was started.     *)
LEMMA OwnStep ==
    ASSUME RegistryOK, CellsOK, StartedOK, OwnChildren, [Next]_vars
    PROVE  OwnChildren'
<1>0. \A a \in Actor : life'[a] = "unborn" => life[a] = "unborn"
  BY StartedStep
<1>1. CASE \A a \in Actor : children'[a] \subseteq children[a]
  BY <1>0, <1>1 DEF OwnChildren, ChildrenOf
<1>2. ASSUME NEW a \in Actor, NEW c \in ChildrenOf(a), life'[c] # "unborn",
             children' = [children EXCEPT ![a] = WithChild(a, c)]
      PROVE  OwnChildren'
  <2>1. \A b \in Actor : \A d \in children'[b] : d \in children[b] \/ (b = a /\ d = c)
    BY <1>2 DEF WithChild, CellsOK
  <2>2. QED
    BY <1>0, <1>2, <2>1 DEF OwnChildren, ChildrenOf
<1>3. CASE UNCHANGED children
  BY <1>1, <1>3
<1>4. ASSUME NEW a \in Actor, AddChild(a)
      PROVE  OwnChildren'
  BY <1>2, <1>4, TreeFacts DEF AddChild, StartedOK
<1>5. ASSUME NEW a \in Actor, CallbackActorOf(a)
      PROVE  OwnChildren'
  <2>1. PICK c \in Actor \ {Guardian} : ActorOf(a, c)
    BY <1>5 DEF CallbackActorOf
  <2>2. life' = [life EXCEPT ![c] = "open"] => life'[c] # "unborn"
    BY DEF RegistryOK
  <2>3. QED
    BY <1>2, <1>3, <2>1, <2>2 DEF ActorOf
<1>6. ASSUME NEW a \in Actor, HandleTerminated(a)
      PROVE  OwnChildren'
  BY <1>1, <1>6 DEF HandleTerminated, Removed, CellsOK
<1>7. QED
  BY <1>3, <1>4, <1>5, <1>6
     DEF Next, Handle, Register, StartActor, TellInit, Stop, Drain, HandleInit, HandleStop,
         HandleRestart, HandleFailed, RecvPanic, RestartActor, TerminateActor, PublishEnd,
         Close, TellWatchers, vars, cells

(* What is told to an actor is appended to its queue, if it is open.       *)
LEMMA ToldAt ==
    ASSUME NEW queues \in [Actor -> Seq(SystemMsg)], NEW msgs
    PROVE  /\ DOMAIN Told(queues, msgs) = Actor
           /\ \A a \in Actor : Told(queues, msgs)[a] =
                 IF a \in DOMAIN msgs /\ IsOpen(a) THEN Append(queues[a], msgs[a])
                                                   ELSE queues[a]
  BY DEF Told

(* Telling system messages to actors keeps the types of the queues.        *)
LEMMA ToldType ==
    ASSUME NEW queues \in [Actor -> Seq(SystemMsg)], NEW msgs,
           \A x \in DOMAIN msgs : msgs[x] \in SystemMsg
    PROVE  Told(queues, msgs) \in [Actor -> Seq(SystemMsg)]
<1>1. \A a \in Actor : a \in DOMAIN msgs => Append(queues[a], msgs[a]) \in Seq(SystemMsg)
  BY AppendProperties
<1>2. QED
  BY <1>1 DEF Told

(* The messages of the model.                                              *)
LEMMA MessageType ==
    /\ [kind |-> "ActorInit"] \in SystemMsg
    /\ [kind |-> "Stop"] \in SystemMsg
    /\ [kind |-> "Restart"] \in SystemMsg
    /\ \A a \in Actor : [kind |-> "Failed", actor |-> a] \in SystemMsg
    /\ \A a \in Actor : [kind |-> "ActorTerminated", actor |-> a] \in SystemMsg
  BY DEF SystemMsg

(* Messages about an actor name one.                                       *)
LEMMA NamedActor ==
    ASSUME NEW m \in SystemMsg, m.kind \in {"Failed", "ActorTerminated"}
    PROVE  m.actor \in Actor
  BY DEF SystemMsg

(* A panic empties the staged messages and tells the parent.               *)
LEMMA FailsQueues ==
    ASSUME QueuesOK, NEW a \in Actor, NEW behind, Fails(a, behind), UNCHANGED events
    PROVE  QueuesOK'
<1>1. sys_queue' \in [Actor -> Seq(SystemMsg)]
  BY ToldType, MessageType DEF QueuesOK, Fails
<1>2. staged' = [staged EXCEPT ![a] = <<>>]
  BY DEF Fails
<1>3. QED
  BY <1>1, <1>2 DEF QueuesOK

(* A message handled leaves the ones staged behind it.                     *)
LEMMA HandledQueues ==
    ASSUME QueuesOK, NEW a \in Actor, NEW kind, Handling(a, kind), Handled(a)
    PROVE  staged' \in [Actor -> Seq(SystemMsg)]
<1>1. Tail(staged[a]) \in Seq(SystemMsg)
  BY HeadTailProperties DEF QueuesOK, Handling
<1>2. QED
  BY <1>1 DEF QueuesOK, Handled

(* Every queue holds system messages.                                      *)
LEMMA QueuesStep == QueuesOK /\ [Next]_vars => QueuesOK'
<1> SUFFICES ASSUME QueuesOK, [Next]_vars
             PROVE  QueuesOK'
  OBVIOUS
<1> USE DEF mailboxes, registry
<1>1. ASSUME NEW a \in Actor, Register(a) \/ StartActor(a) \/ AddChild(a) \/ TerminateActor(a)
      PROVE  QueuesOK'
  BY <1>1 DEF QueuesOK, Register, StartActor, AddChild, TerminateActor
<1>2. ASSUME NEW a \in Actor, TellInit(a)
      PROVE  QueuesOK'
  BY <1>2, ToldType, MessageType DEF QueuesOK, TellInit
<1>3. ASSUME NEW a \in Actor, Stop(a)
      PROVE  QueuesOK'
  BY <1>3, ToldType, MessageType DEF QueuesOK, Stop
<1>4. ASSUME NEW a \in Actor, Drain(a)
      PROVE  QueuesOK'
  BY <1>4 DEF QueuesOK, Drain
<1>5. ASSUME NEW a \in Actor, HandleInit(a)
      PROVE  QueuesOK'
  <2>0. UNCHANGED events
    BY <1>5 DEF HandleInit
  <2>1. CASE \E behind : Fails(a, behind)
    BY <2>0, <2>1, FailsQueues
  <2>2. CASE Handled(a) /\ UNCHANGED sys_queue
    BY <1>5, <2>2, HandledQueues DEF HandleInit, QueuesOK
  <2>3. QED
    BY <1>5, <2>1, <2>2 DEF HandleInit, Panic
<1>6. ASSUME NEW a \in Actor, HandleStop(a)
      PROVE  QueuesOK'
  <2>0. UNCHANGED events
    BY <1>6 DEF HandleStop
  <2>1. CASE \E behind : Fails(a, behind)
    BY <2>0, <2>1, FailsQueues
  <2>2. CASE Handled(a) /\ (UNCHANGED sys_queue \/ StopChildren(a))
    <3>1. staged' \in [Actor -> Seq(SystemMsg)]
      BY <1>6, <2>2, HandledQueues DEF HandleStop
    <3>2. sys_queue' \in [Actor -> Seq(SystemMsg)]
      BY <2>2, ToldType, MessageType DEF QueuesOK, StopChildren
    <3>3. QED
      BY <2>0, <3>1, <3>2 DEF QueuesOK
  <2>3. QED
    BY <1>6, <2>1, <2>2 DEF HandleStop, Panic
<1>7. ASSUME NEW a \in Actor, HandleRestart(a)
      PROVE  QueuesOK'
  <2>1. staged' \in [Actor -> Seq(SystemMsg)]
    BY <1>7, HandledQueues DEF HandleRestart
  <2>2. sys_queue' \in [Actor -> Seq(SystemMsg)]
    BY <1>7, ToldType, MessageType DEF QueuesOK, HandleRestart, StopChildren
  <2>3. QED
    BY <1>7, <2>1, <2>2 DEF HandleRestart, QueuesOK
<1>8. ASSUME NEW a \in Actor, HandleFailed(a)
      PROVE  QueuesOK'
  <2>0. UNCHANGED events
    BY <1>8 DEF HandleFailed
  <2>1. CASE \E behind : Fails(a, behind)
    BY <2>0, <2>1, FailsQueues
  <2>2. CASE /\ Handled(a)
             /\ \E B : \E msg \in SystemMsg :
                    sys_queue' = Told(sys_queue, [x \in B |-> msg])
    <3>1. staged' \in [Actor -> Seq(SystemMsg)]
      BY <1>8, <2>2, HandledQueues DEF HandleFailed
    <3>2. sys_queue' \in [Actor -> Seq(SystemMsg)]
      BY <2>2, ToldType DEF QueuesOK
    <3>3. QED
      BY <2>0, <3>1, <3>2 DEF QueuesOK
  <2>3. QED
    BY <1>8, <2>1, <2>2, MessageType, BehaviourAssumption DEF HandleFailed, Strategy
<1>9. ASSUME NEW a \in Actor, HandleTerminated(a)
      PROVE  QueuesOK'
  <2>0. UNCHANGED events
    BY <1>9 DEF HandleTerminated
  <2>1. CASE \E behind : Fails(a, behind)
    BY <2>0, <2>1, FailsQueues
  <2>2. CASE Handled(a) /\ UNCHANGED sys_queue
    BY <1>9, <2>2, HandledQueues DEF HandleTerminated, QueuesOK
  <2>3. QED
    BY <1>9, <2>1, <2>2 DEF HandleTerminated, Panic
<1>10. ASSUME NEW a \in Actor, RecvPanic(a)
      PROVE  QueuesOK'
  BY <1>10, FailsQueues DEF RecvPanic, Panic
<1>11. ASSUME NEW a \in Actor, CallbackActorOf(a)
      PROVE  QueuesOK'
  <2>1. PICK c \in Actor \ {Guardian} : ActorOf(a, c)
    BY <1>11 DEF CallbackActorOf
  <2>2. Append(sys_queue[c], [kind |-> "ActorInit"]) \in Seq(SystemMsg)
    BY MessageType, AppendProperties DEF QueuesOK
  <2>3. sys_queue' \in [Actor -> Seq(SystemMsg)]
    BY <2>1, <2>2 DEF ActorOf, QueuesOK
  <2>4. QED
    BY <1>11, <2>3 DEF CallbackActorOf, QueuesOK
<1>12. ASSUME NEW a \in Actor, RestartActor(a)
      PROVE  QueuesOK'
  BY <1>12, ToldType, MessageType DEF QueuesOK, RestartActor
<1>13. ASSUME NEW a \in Actor, Close(a)
      PROVE  QueuesOK'
  <2> DEFINE event == [kind |-> "ActorTerminated", actor |-> a]
             queues == IF a = Guardian THEN sys_queue
                                       ELSE Told(sys_queue, [p \in {Parent[a]} |-> event])
  <2>1. queues \in [Actor -> Seq(SystemMsg)]
    BY ToldType, MessageType DEF QueuesOK
  <2>2. sys_queue' \in [Actor -> Seq(SystemMsg)]
    <3>1. sys_queue' = [queues EXCEPT ![a] = <<>>]
      BY <1>13 DEF Close
    <3> HIDE DEF queues
    <3>2. QED
      BY <2>1, <3>1
  <2>3. QED
    BY <1>13, <2>2 DEF QueuesOK, Close
<1>14. ASSUME NEW a \in Actor, PublishEnd(a)
      PROVE  QueuesOK'
  <2>1. events' \in Seq(Actor)
    BY <1>14, AppendProperties DEF PublishEnd, QueuesOK
  <2>2. QED
    BY <1>14, <2>1 DEF PublishEnd, QueuesOK
<1>15. CASE TellWatchers
  <2>1. events' \in Seq(Actor) /\ Head(events) \in Actor
    BY <1>15, HeadTailProperties DEF TellWatchers, QueuesOK
  <2>2. sys_queue' \in [Actor -> Seq(SystemMsg)]
    BY <1>15, <2>1, ToldType, MessageType DEF TellWatchers, QueuesOK
  <2>3. QED
    BY <1>15, <2>1, <2>2 DEF TellWatchers, QueuesOK
<1>16. CASE UNCHANGED vars
  BY <1>16 DEF vars, QueuesOK
<1>17. QED
  BY <1>1, <1>2, <1>3, <1>4, <1>5, <1>6, <1>7, <1>8, <1>9, <1>10, <1>11, <1>12,
     <1>13, <1>14, <1>15, <1>16 DEF Next, Handle

(* Every variable keeps its type, and an actor lists only children of its  *)
(* own, whose kernels were started: create_actor never lists a child that  *)
(* it then fails to start (provider.rs create_actor, actor_cell.rs).       *)
THEOREM SupervisionTypeOK == Spec => []TypeOK
<1>1. Init => RegistryOK
  BY TreeFacts DEF Init, RegistryOK
<1>2. Init => CellsOK
  BY TreeFacts DEF Init, CellsOK, ChildrenOf
<1>3. Init => QueuesOK
  BY DEF Init, QueuesOK
<1>4. ASSUME Init PROVE FlagsOK
  <2>1. suspended \in [Actor -> BOOLEAN]
    <3>1. \A a : (a \notin Alive \ {Guardian}) \in BOOLEAN
      OBVIOUS
    <3>2. suspended = [a \in Actor |-> a \notin Alive \ {Guardian}]
      BY <1>4 DEF Init
    <3>3. QED
      BY <3>1, <3>2, Zenon
  <2>2. /\ is_terminating = [a \in Actor |-> FALSE]
        /\ is_restarting = [a \in Actor |-> FALSE]
        /\ lost = FALSE
    BY <1>4 DEF Init
  <2>3. QED
    BY <2>1, <2>2 DEF FlagsOK
<1>5. Init => StartedOK /\ OwnChildren
  <2> SUFFICES ASSUME Init
               PROVE  StartedOK /\ OwnChildren
    OBVIOUS
  <2>1. \A a \in Actor : creation[a] = "none"
    BY DEF Init
  <2>2. /\ life = [a \in Actor |-> IF a \in Alive THEN "open" ELSE "unborn"]
        /\ children = [a \in Actor |-> ChildrenOf(a) \cap Alive]
    BY DEF Init
  <2>3. OwnChildren
    BY <2>2, TreeFacts DEF OwnChildren
  <2>4. QED
    BY <2>1, <2>3 DEF StartedOK
<1> DEFINE Inv == TypeOK /\ StartedOK
<1>6. Init => Inv
  BY <1>1, <1>2, <1>3, <1>4, <1>5 DEF TypeOK
<1>7. Inv /\ [Next]_vars => Inv'
  BY RegistryStep, CellsStep, QueuesStep, FlagsStep, StartedStep, OwnStep DEF TypeOK
<1>8. QED
  BY <1>6, <1>7, PTL DEF Spec

-----------------------------------------------------------------------------
(* An actor bears its path from register to terminate_actor, or for ever   *)
(* if its factory panicked in create_actor.                                *)
Bears(a) == life[a] = "open" \/ creation[a] \in {"registered", "failed"}

(* The bearers and the registry: each path that is taken has exactly one.  *)
(* UniquePath is about the living only and is not inductive: a path that   *)
(* is registered and whose kernel is yet to start must be free of another. *)
PathInv ==
    /\ \A a \in Actor : creation[a] \in {"registered", "failed"} => life[a] = "unborn"
    /\ \A a \in Actor \ {Guardian} : Bears(a) => Path(a) \in paths
    /\ \A a, b \in Actor \ {Guardian} :
          Bears(a) /\ Bears(b) /\ Path(a) = Path(b) => a = b
    /\ PathsHaveBearers

(* Registering, ending and failing to start keep one bearer per path.      *)
LEMMA PathStep == TypeOK /\ PathInv /\ [Next]_vars => PathInv'
<1> SUFFICES ASSUME TypeOK, PathInv, [Next]_vars
             PROVE  PathInv'
  OBVIOUS
<1> USE DEF PathInv, PathsHaveBearers, Bears
<1>0. /\ life \in [Actor -> {"unborn", "open", "unregistered", "published", "closed"}]
      /\ creation \in [Actor -> {"none", "registered", "started", "failed", "added", "done"}]
  BY DEF TypeOK, RegistryOK
<1>1. CASE UNCHANGED <<life, creation, paths>>
  BY <1>1
<1>2. ASSUME NEW a \in Actor, Register(a)
      PROVE  PathInv'
  <2>1. /\ a # Guardian /\ life[a] = "unborn" /\ creation[a] = "none"
        /\ Path(a) \notin paths /\ paths' = paths \cup {Path(a)} /\ life' = life
        /\ creation' = [creation EXCEPT ![a] = "registered"]
    BY <1>2 DEF Register, ChildrenOf
  <2>2. QED
    BY <1>0, <2>1
<1>3. ASSUME NEW a \in Actor, StartActor(a)
      PROVE  PathInv'
  <2>1. creation[a] = "registered" /\ paths' = paths
    BY <1>3 DEF StartActor
  <2>2. CASE /\ life' = [life EXCEPT ![a] = "open"]
             /\ creation' = [creation EXCEPT ![a] = "started"]
    BY <1>0, <2>1, <2>2
  <2>3. CASE life' = life /\ creation' = [creation EXCEPT ![a] = "failed"]
    BY <1>0, <2>1, <2>3
  <2>4. QED
    BY <1>3, <2>2, <2>3 DEF StartActor
<1>4. ASSUME NEW a \in Actor, AddChild(a) \/ TellInit(a)
      PROVE  PathInv'
  <2>1. /\ creation[a] \in {"started", "added"} /\ UNCHANGED <<life, paths>>
        /\ \E c \in {"added", "done"} : creation' = [creation EXCEPT ![a] = c]
    BY <1>4 DEF AddChild, TellInit
  <2>2. QED
    BY <1>0, <2>1
<1>5. ASSUME NEW a \in Actor, CallbackActorOf(a)
      PROVE  PathInv'
  <2>1. PICK c \in Actor \ {Guardian} : ActorOf(a, c)
    BY <1>5 DEF CallbackActorOf
  <2>2. /\ life[c] = "unborn" /\ creation[c] = "none"
        /\ Path(c) \notin paths /\ paths' = paths \cup {Path(c)}
    BY <2>1 DEF ActorOf
  <2>3. CASE life' = [life EXCEPT ![c] = "open"] /\ creation' = creation
    BY <1>0, <2>2, <2>3
  <2>4. CASE life' = life /\ creation' = [creation EXCEPT ![c] = "failed"]
    BY <1>0, <2>2, <2>4
  <2>5. QED
    BY <2>1, <2>3, <2>4 DEF ActorOf
<1>6. ASSUME NEW a \in Actor, TerminateActor(a)
      PROVE  PathInv'
  <2>1. /\ life[a] = "open" /\ creation' = creation
        /\ life' = [life EXCEPT ![a] = "unregistered"]
        /\ paths' = IF a = Guardian THEN paths ELSE paths \ {Path(a)}
    BY <1>6 DEF TerminateActor, Receive, KernelFree
  <2>2. CASE a = Guardian
    BY <1>0, <2>1, <2>2
  <2>3. CASE a # Guardian
    BY <1>0, <2>1, <2>3
  <2>4. QED
    BY <2>2, <2>3
<1>7. ASSUME NEW a \in Actor, PublishEnd(a) \/ Close(a)
      PROVE  PathInv'
  BY <1>0, <1>7 DEF PublishEnd, Close
<1>8. QED
  BY <1>1, <1>2, <1>3, <1>4, <1>5, <1>6, <1>7
     DEF Next, Handle, Stop, Drain, HandleInit, HandleStop, HandleRestart, HandleFailed,
         HandleTerminated, RecvPanic, RestartActor, TellWatchers, registry, vars

(* At first each path has its bearer.                                      *)
LEMMA PathInit == Init => PathInv
<1> SUFFICES ASSUME Init
             PROVE  PathInv
  OBVIOUS
<1>1. /\ life = [a \in Actor |-> IF a \in Alive THEN "open" ELSE "unborn"]
      /\ creation = [a \in Actor |-> "none"]
      /\ paths = {Path(a) : a \in Alive \ {Guardian}}
  BY DEF Init
<1>2. QED
  BY <1>1, TreeFacts, AliveAssumption DEF PathInv, PathsHaveBearers, Bears

(* Whatever is created, stopped and created again by any number of         *)
(* threads: no two live actors bear the same path, and the path of a live  *)
(* actor is taken (provider.rs register, kernel.rs terminate_actor).       *)
THEOREM SupervisionUniquePath == Spec => []UniquePath
<1>1. PathInv => UniquePath
  BY DEF PathInv, Bears, UniquePath
<1>2. QED
  BY <1>1, PathInit, PathStep, SupervisionTypeOK, PTL DEF Spec

(* No path leaks, except that of a create_actor whose factory panicked     *)
(* (provider.rs create_actor, kernel.rs terminate_actor).                  *)
THEOREM SupervisionPathsHaveBearers == Spec => []PathsHaveBearers
<1>1. PathInv => PathsHaveBearers
  BY DEF PathInv
<1>2. QED
  BY <1>1, PathInit, PathStep, SupervisionTypeOK, PTL DEF Spec

-----------------------------------------------------------------------------
(* The reference of an actor is known to others from add_child on, or from *)
(* the start if it was up at first.                                        *)
Known(a) == life[a] # "unborn" /\ creation[a] # "started"

Untouched(a) ==
    /\ sys_queue[a] = <<>> /\ staged[a] = <<>>
    /\ rx[a]["TerminateActor"] = 0 /\ rx[a]["RestartActor"] = 0
    /\ instance[a] = "fresh"

(* The event of an actor's end is published when its path is free.         *)
Ended(a) == life[a] \in {"published", "closed"}

(* What a message says of an actor: that is known, that is has ended.      *)
Credible(m) == /\ m.kind = "Failed" => Known(m.actor)
               /\ m.kind = "ActorTerminated" => Ended(m.actor)

AllCredible(q) == \A i \in 1..Len(q) : Credible(q[i])

(* What create_actor has done when it is at each of its steps.             *)
CreationOK ==
    \A a \in Actor :
        /\ creation[a] = "started" => life[a] = "open"
        /\ creation[a] \in {"added", "done"} => life[a] # "unborn"
        /\ creation[a] \in {"registered", "started", "added"} => a \in ChildrenOf(Guardian)

(* Nothing happens to an actor before its reference is known, only known   *)
(* actors are listed, fail or have children, and every event of an end, on *)
(* its way to the parent or to a watcher, is of one that has ended.        *)
KnownInv ==
    /\ CreationOK
    /\ Known(Guardian) /\ instance[Guardian] # "none"
    /\ \A a \in Actor : ~Known(a) => Untouched(a)
    /\ \A a \in Actor \ {Guardian} : life[a] # "unborn" => Known(Parent[a])
    /\ \A a \in Actor : \A c \in children[a] : Known(c)
    /\ \A a \in Actor : AllCredible(sys_queue[a]) /\ AllCredible(staged[a])
    /\ \A i \in 1..Len(events) : Ended(events[i])

(* The steps that change the life of an actor or its creation.             *)
LEMMA LivesChange ==
    ASSUME [Next]_vars
    PROVE  \/ UNCHANGED <<life, creation>>
           \/ \E a \in Actor : \/ Register(a) \/ StartActor(a) \/ AddChild(a) \/ TellInit(a)
                                \/ CallbackActorOf(a) \/ TerminateActor(a)
                                \/ PublishEnd(a) \/ Close(a)
  BY DEF Next, Handle, Stop, Drain, HandleInit, HandleStop, HandleRestart, HandleFailed,
         HandleTerminated, RecvPanic, RestartActor, TellWatchers, registry, vars

(* Once known, an actor stays known, once ended it stays so, and           *)
(* create_actor goes on step by step.                                      *)
LEMMA KnownGrows ==
    ASSUME TypeOK, PathInv, KnownInv, [Next]_vars
    PROVE  CreationOK' /\ \A a \in Actor : (Known(a) => Known(a)') /\ (Ended(a) => Ended(a)')
<1> USE DEF CreationOK, Known, Ended, KnownInv
<1>0. /\ life \in [Actor -> {"unborn", "open", "unregistered", "published", "closed"}]
      /\ creation \in [Actor -> {"none", "registered", "started", "failed", "added", "done"}]
  BY DEF TypeOK, RegistryOK
<1>1. CASE UNCHANGED <<life, creation>>
  BY <1>1
<1>2. ASSUME NEW a \in Actor, Register(a) \/ AddChild(a) \/ TellInit(a)
      PROVE  CreationOK' /\ \A b \in Actor : (Known(b) => Known(b)') /\ (Ended(b) => Ended(b)')
  BY <1>0, <1>2 DEF Register, AddChild, TellInit
<1>3. ASSUME NEW a \in Actor, StartActor(a)
      PROVE  CreationOK' /\ \A b \in Actor : (Known(b) => Known(b)') /\ (Ended(b) => Ended(b)')
  BY <1>0, <1>3 DEF StartActor, PathInv
<1>4. ASSUME NEW a \in Actor, CallbackActorOf(a)
      PROVE  CreationOK' /\ \A b \in Actor : (Known(b) => Known(b)') /\ (Ended(b) => Ended(b)')
  BY <1>0, <1>4 DEF CallbackActorOf, ActorOf
<1>5. ASSUME NEW a \in Actor, TerminateActor(a)
      PROVE  CreationOK' /\ \A b \in Actor : (Known(b) => Known(b)') /\ (Ended(b) => Ended(b)')
  <2>1. creation[a] # "started"
    BY <1>5 DEF TerminateActor, Receive, Untouched
  <2>2. QED
    BY <1>0, <1>5, <2>1 DEF TerminateActor, Receive, KernelFree
<1>6. ASSUME NEW a \in Actor, PublishEnd(a) \/ Close(a)
      PROVE  CreationOK' /\ \A b \in Actor : (Known(b) => Known(b)') /\ (Ended(b) => Ended(b)')
  BY <1>0, <1>6 DEF PublishEnd, Close
<1>7. QED
  BY <1>1, <1>2, <1>3, <1>4, <1>5, <1>6, LivesChange

(* Only a known actor fails, handles a message or hears of the kernel.     *)
LEMMA ActingKnown ==
    ASSUME KnownInv, NEW a \in Actor,
           \/ staged[a] # <<>> \/ sys_queue[a] # <<>>
           \/ rx[a]["TerminateActor"] # 0 \/ rx[a]["RestartActor"] # 0
           \/ instance[a] # "fresh"
    PROVE  Known(a)
  BY DEF KnownInv, Untouched

(* A message that says nothing but the truth.                              *)
Polite(m) == m \in SystemMsg /\ Credible(m)

(* What a step does to the queues: such messages go to known actors, and   *)
(* those in a queue are staged, handled or dropped.                        *)
MailQuiet(a) ==
    \/ sys_queue'[a] = sys_queue[a]
    \/ sys_queue'[a] = <<>>
    \/ /\ Known(a)'
       /\ \E m \in SystemMsg : Polite(m) /\ sys_queue'[a] = Append(sys_queue[a], m)

StagedQuiet(a) ==
    \/ staged'[a] \in {staged[a], sys_queue[a]}
    \/ staged[a] # <<>> /\ staged'[a] \in {<<>>, Tail(staged[a])}

QueuesQuiet == \A a \in Actor : MailQuiet(a) /\ StagedQuiet(a)

(* Such messages, told to known actors.                                    *)
LEMMA ToldQuiet ==
    ASSUME QueuesOK, NEW msgs,
           \A x \in Actor : x \in DOMAIN msgs => (IsOpen(x) => Known(x)') /\ Polite(msgs[x]),
           sys_queue' = Told(sys_queue, msgs)
    PROVE  \A a \in Actor : MailQuiet(a)
<1> SUFFICES ASSUME NEW a \in Actor
             PROVE  MailQuiet(a)
  OBVIOUS
<1>1. sys_queue'[a] = IF a \in DOMAIN msgs /\ IsOpen(a) THEN Append(sys_queue[a], msgs[a])
                                                        ELSE sys_queue[a]
  BY ToldAt DEF QueuesOK
<1>2. a \in DOMAIN msgs => msgs[a] \in SystemMsg
  BY DEF Polite
<1>3. QED
  BY <1>1, <1>2 DEF MailQuiet

(* Handling a message takes it from the staged ones.                       *)
LEMMA HandledQuiet ==
    ASSUME QueuesOK, NEW a \in Actor, NEW kind, Handling(a, kind), Handled(a)
    PROVE  \A b \in Actor : StagedQuiet(b)
  BY DEF Handling, Handled, QueuesOK, StagedQuiet

(* A panic tells the parent of one that is known.                          *)
LEMMA FailsQuiet ==
    ASSUME QueuesOK, KnownInv, NEW a \in Actor \ {Guardian}, Known(a), NEW behind,
           Fails(a, behind),
           \A x \in Actor : Known(x) => Known(x)'
    PROVE  QueuesQuiet
<1> DEFINE m == [kind |-> "Failed", actor |-> a]
           msgs == [p \in {Parent[a]} |-> m]
<1>1. Known(Parent[a])
  BY DEF KnownInv, Known
<1>2. Polite(m)
  BY MessageType DEF Polite, Credible
<1>3. sys_queue' = Told(sys_queue, msgs) /\ staged' = [staged EXCEPT ![a] = <<>>]
  BY DEF Fails
<1>4. \A x \in Actor : x \in DOMAIN msgs => Known(x)' /\ Polite(msgs[x])
  BY <1>1, <1>2
<1> HIDE DEF msgs
<1>5. \A b \in Actor : MailQuiet(b)
  BY <1>3, <1>4, ToldQuiet
<1>6. QED
  BY <1>3, <1>5 DEF QueuesQuiet, StagedQuiet, QueuesOK

(* Every step treats the queues that way.                                  *)
LEMMA StepsQuiet ==
    ASSUME TypeOK, PathInv, KnownInv, Next
    PROVE  QueuesQuiet
<1>0. QueuesOK /\ \A x \in Actor : Known(x) => Known(x)'
  BY KnownGrows DEF TypeOK
<1> USE DEF mailboxes
<1>1. CASE UNCHANGED <<sys_queue, staged>>
  BY <1>1 DEF QueuesQuiet, MailQuiet, StagedQuiet
<1>2. ASSUME NEW a \in Actor, TellInit(a)
      PROVE  QueuesQuiet
  <2> DEFINE msgs == [b \in {a} |-> [kind |-> "ActorInit"]]
  <2>1. Known(a)
    BY <1>2 DEF TellInit, KnownInv, CreationOK, Known
  <2>2. \A x \in Actor : x \in DOMAIN msgs => Known(x)' /\ Polite(msgs[x])
    BY <1>0, <2>1, MessageType DEF Polite, Credible
  <2>3. sys_queue' = Told(sys_queue, msgs) /\ staged' = staged
    BY <1>2 DEF TellInit
  <2> HIDE DEF msgs
  <2>4. QED
    BY <1>0, <2>2, <2>3, ToldQuiet DEF QueuesQuiet, StagedQuiet
<1>3. ASSUME NEW a \in Actor, Stop(a)
      PROVE  QueuesQuiet
  <2> DEFINE msgs == [b \in {a} |-> [kind |-> "Stop"]]
  <2>1. Known(a)
    BY <1>3 DEF Stop, Known
  <2>2. \A x \in Actor : x \in DOMAIN msgs => Known(x)' /\ Polite(msgs[x])
    BY <1>0, <2>1, MessageType DEF Polite, Credible
  <2>3. sys_queue' = Told(sys_queue, msgs) /\ staged' = staged
    BY <1>3 DEF Stop
  <2> HIDE DEF msgs
  <2>4. QED
    BY <1>0, <2>2, <2>3, ToldQuiet DEF QueuesQuiet, StagedQuiet
<1>4. ASSUME NEW a \in Actor, RestartActor(a)
      PROVE  QueuesQuiet
  <2> DEFINE msgs == [b \in {a} |-> [kind |-> "ActorInit"]]
  <2>1. Known(a)
    BY <1>4, ActingKnown DEF RestartActor, Receive
  <2>2. \A x \in Actor : x \in DOMAIN msgs => Known(x)' /\ Polite(msgs[x])
    BY <1>0, <2>1, MessageType DEF Polite, Credible
  <2>3. (sys_queue' = Told(sys_queue, msgs) \/ UNCHANGED sys_queue) /\ staged' = staged
    BY <1>4 DEF RestartActor
  <2> HIDE DEF msgs
  <2>4. QED
    BY <1>0, <1>1, <2>2, <2>3, ToldQuiet DEF QueuesQuiet, StagedQuiet
<1>5. ASSUME NEW a \in Actor, NEW behind, Fails(a, behind), Known(a),
             instance[a] = "none" \/ a \in Fallible
      PROVE  QueuesQuiet
  BY <1>0, <1>5, FailsQuiet, BehaviourAssumption DEF KnownInv
<1>6. ASSUME NEW a \in Actor, NEW kind, Handling(a, kind), Handled(a),
             UNCHANGED sys_queue \/ StopChildren(a)
      PROVE  QueuesQuiet
  <2> DEFINE msgs == [c \in children[a] |-> [kind |-> "Stop"]]
  <2>1. \A x \in Actor : x \in DOMAIN msgs => Known(x)' /\ Polite(msgs[x])
    BY <1>0, MessageType DEF Polite, Credible, KnownInv
  <2>2. sys_queue' = Told(sys_queue, msgs) \/ UNCHANGED sys_queue
    BY <1>6 DEF StopChildren
  <2> HIDE DEF msgs
  <2>3. \A b \in Actor : MailQuiet(b)
    BY <1>0, <2>1, <2>2, ToldQuiet DEF MailQuiet
  <2>4. QED
    BY <1>0, <1>6, <2>3, HandledQuiet DEF QueuesQuiet
<1>7. ASSUME NEW a \in Actor, HandleInit(a)
      PROVE  QueuesQuiet
  <2>1. Handling(a, "ActorInit") /\ Known(a)
    BY <1>7, ActingKnown DEF HandleInit, Handling
  <2>2. QED
    BY <1>5, <1>6, <1>7, <2>1 DEF HandleInit, Panic
<1>8. ASSUME NEW a \in Actor, HandleStop(a)
      PROVE  QueuesQuiet
  <2>1. Handling(a, "Stop") /\ Known(a)
    BY <1>8, ActingKnown DEF HandleStop, Handling
  <2>2. QED
    BY <1>5, <1>6, <1>8, <2>1 DEF HandleStop, Panic
<1>9. ASSUME NEW a \in Actor, HandleRestart(a)
      PROVE  QueuesQuiet
  BY <1>6, <1>9 DEF HandleRestart
<1>10. ASSUME NEW a \in Actor, HandleTerminated(a)
      PROVE  QueuesQuiet
  <2>1. Handling(a, "ActorTerminated") /\ Known(a)
    BY <1>10, ActingKnown DEF HandleTerminated, Handling
  <2>2. QED
    BY <1>5, <1>6, <1>10, <2>1 DEF HandleTerminated, Panic
<1>11. ASSUME NEW a \in Actor, HandleFailed(a)
      PROVE  QueuesQuiet
  <2>1. Handling(a, "Failed") /\ Known(a) /\ staged[a] # <<>>
    BY <1>11, ActingKnown DEF HandleFailed, Handling
  <2>2. CASE instance[a] = "none" /\ Fails(a, staged[a])
    BY <1>5, <2>1, <2>2
  <2>3. ASSUME NEW msgs, sys_queue' = Told(sys_queue, msgs), Handled(a),
               \A x \in Actor : x \in DOMAIN msgs => Known(x) /\ Polite(msgs[x])
        PROVE  QueuesQuiet
    BY <1>0, <2>1, <2>3, ToldQuiet, HandledQuiet DEF QueuesQuiet
  <2> DEFINE failed == Head(staged[a]).actor
  <2>4. Known(failed)
    <3>1. /\ staged[a] \in Seq(SystemMsg) /\ 1 \in 1..Len(staged[a])
          /\ Head(staged[a]) = staged[a][1]
      BY <1>0, <2>1, EmptySeq, HeadTailProperties DEF QueuesOK
    <3>2. staged[a][1].kind = "Failed"
      BY <2>1, <3>1 DEF Handling
    <3>3. QED
      BY <3>1, <3>2 DEF KnownInv, AllCredible, Credible
  <2>5. ASSUME NEW strategy \in {"Stop", "Restart"}, Handled(a),
               sys_queue' = Told(sys_queue, [c \in {failed} |-> [kind |-> strategy]])
        PROVE  QueuesQuiet
    <3> DEFINE msgs == [c \in {failed} |-> [kind |-> strategy]]
    <3>1. \A x \in Actor : x \in DOMAIN msgs => Known(x) /\ Polite(msgs[x])
      BY <2>4, MessageType DEF Polite, Credible
    <3>2. sys_queue' = Told(sys_queue, msgs)
      BY <2>5
    <3> HIDE DEF msgs
    <3>3. QED
      BY <2>3, <2>5, <3>1, <3>2
  <2>6. ASSUME a # Guardian, Handled(a),
               sys_queue' = Told(sys_queue, [p \in {Parent[a]} |-> [kind |-> "Failed", actor |-> a]])
        PROVE  QueuesQuiet
    <3> DEFINE msgs == [p \in {Parent[a]} |-> [kind |-> "Failed", actor |-> a]]
    <3>1. \A x \in Actor : x \in DOMAIN msgs => Known(x) /\ Polite(msgs[x])
      BY <2>1, <2>6, MessageType DEF Polite, Credible, KnownInv, Known
    <3>2. sys_queue' = Told(sys_queue, msgs)
      BY <2>6
    <3> HIDE DEF msgs
    <3>3. QED
      BY <2>3, <2>6, <3>1, <3>2
  <2>7. QED
    BY <1>11, <2>2, <2>5, <2>6, BehaviourAssumption DEF HandleFailed, Strategy
<1>12. ASSUME NEW a \in Actor, RecvPanic(a)
      PROVE  QueuesQuiet
  <2>1. Known(a)
    BY <1>12, ActingKnown DEF RecvPanic, CanRecv
  <2>2. QED
    BY <1>5, <1>12, <2>1 DEF RecvPanic, Panic
<1>13. ASSUME NEW a \in Actor, CallbackActorOf(a)
      PROVE  QueuesQuiet
  <2>1. PICK c \in Actor \ {Guardian} : ActorOf(a, c)
    BY <1>13 DEF CallbackActorOf
  <2> DEFINE m == [kind |-> "ActorInit"]
  <2>2. m \in SystemMsg /\ Polite(m)
    BY MessageType DEF Polite, Credible
  <2>3. CASE UNCHANGED sys_queue
    BY <1>1, <1>13, <2>3 DEF CallbackActorOf
  <2>4. CASE /\ life' = [life EXCEPT ![c] = "open"] /\ UNCHANGED creation
             /\ sys_queue' = [sys_queue EXCEPT ![c] = Append(@, m)]
    <3>1. Known(c)'
      BY <2>1, <2>4 DEF Known, ActorOf, TypeOK, RegistryOK
    <3> HIDE DEF m
    <3>2. \A b \in Actor : MailQuiet(b)
      BY <1>0, <2>2, <2>4, <3>1 DEF MailQuiet, QueuesOK
    <3>3. QED
      BY <1>13, <3>2 DEF CallbackActorOf, QueuesQuiet, StagedQuiet
  <2>5. QED
    BY <2>1, <2>3, <2>4 DEF ActorOf
<1>14. ASSUME NEW a \in Actor, Drain(a)
      PROVE  QueuesQuiet
  BY <1>0, <1>14 DEF Drain, QueuesQuiet, MailQuiet, StagedQuiet, QueuesOK
<1>15. ASSUME NEW a \in Actor, Close(a)
      PROVE  QueuesQuiet
  <2> DEFINE event == [kind |-> "ActorTerminated", actor |-> a]
             msgs == [p \in {Parent[a]} |-> event]
             queues == IF a = Guardian THEN sys_queue ELSE Told(sys_queue, msgs)
  <2>1. /\ staged' = staged /\ life[a] = "published"
        /\ sys_queue' = [queues EXCEPT ![a] = <<>>]
    BY <1>15 DEF Close
  <2>2. event \in SystemMsg /\ Polite(event)
    BY <2>1, MessageType DEF Polite, Credible, Ended
  <2>3. a # Guardian => Known(Parent[a])
    BY <2>1 DEF KnownInv
  <2>4. queues \in [Actor -> Seq(SystemMsg)]
    BY <1>0, ToldType, MessageType DEF QueuesOK
  <2>5. \A b \in Actor : MailQuiet(b)
    <3> SUFFICES ASSUME NEW b \in Actor, b # a PROVE MailQuiet(b)
      BY <2>1, <2>4 DEF MailQuiet
    <3>1. msgs[Parent[a]] = event /\ DOMAIN msgs = {Parent[a]}
      OBVIOUS
    <3>2. sys_queue'[b] = queues[b]
      BY <2>1, <2>4
    <3> HIDE DEF msgs, event
    <3>3. Told(sys_queue, msgs)[b] = IF b \in DOMAIN msgs /\ IsOpen(b)
                                        THEN Append(sys_queue[b], msgs[b]) ELSE sys_queue[b]
      BY <1>0, ToldAt DEF QueuesOK
    <3>4. CASE sys_queue'[b] = sys_queue[b]
      BY <3>4 DEF MailQuiet
    <3>5. CASE a # Guardian /\ b = Parent[a] /\ sys_queue'[b] = Append(sys_queue[b], event)
      BY <1>0, <2>2, <2>3, <3>5 DEF MailQuiet
    <3>6. QED
      BY <3>1, <3>2, <3>3, <3>4, <3>5
  <2>6. QED
    BY <2>1, <2>5 DEF QueuesQuiet, StagedQuiet
<1>16. CASE TellWatchers
  <2> DEFINE event == [kind |-> "ActorTerminated", actor |-> Head(events)]
             subs == {w \in Watchers : creation[w] # "started"}
             msgs == [w \in subs |-> event]
  <2>1. Head(events) \in Actor /\ Ended(Head(events))
    <3>1. events # <<>> /\ events \in Seq(Actor)
      BY <1>0, <1>16 DEF TellWatchers, QueuesOK
    <3>2. 1 \in 1..Len(events) /\ Head(events) = events[1] /\ Head(events) \in Actor
      BY <3>1, HeadTailProperties, EmptySeq
    <3>3. QED
      BY <3>2 DEF KnownInv
  <2>2. Polite(event)
    BY <2>1, MessageType DEF Polite, Credible
  <2>3. sys_queue' = Told(sys_queue, msgs) /\ staged' = staged /\ life' = life
        /\ creation' = creation
    BY <1>16 DEF TellWatchers, registry
  <2>4. \A x \in Actor : x \in DOMAIN msgs => (IsOpen(x) => Known(x)') /\ Polite(msgs[x])
    BY <2>2, <2>3 DEF IsOpen, Known
  <2> HIDE DEF msgs
  <2>5. QED
    BY <1>0, <2>3, <2>4, ToldQuiet DEF QueuesQuiet, StagedQuiet
<1>17. QED
  BY <1>1, <1>2, <1>3, <1>4, <1>7, <1>8, <1>9, <1>10, <1>11, <1>12, <1>13, <1>14, <1>15, <1>16
     DEF Next, Handle, Register, StartActor, AddChild, TerminateActor, PublishEnd

(* A queue, before or after the step, and what is true after it.           *)
KnownNext(a) == life'[a] # "unborn" /\ creation'[a] # "started"
CredibleNext(m) == /\ m.kind = "Failed" => KnownNext(m.actor)
                   /\ m.kind = "ActorTerminated" => life'[m.actor] \in {"published", "closed"}
AllCredibleNext(q) == \A i \in 1..Len(q) : CredibleNext(q[i])

(* Messages stay true when the queue is appended to, shortened or moved.   *)
LEMMA CredibleMoves ==
    ASSUME \A m \in SystemMsg : Credible(m) => CredibleNext(m),
           NEW q \in Seq(SystemMsg), AllCredible(q)
    PROVE  /\ AllCredibleNext(q) /\ AllCredibleNext(<<>>)
           /\ q # <<>> => AllCredibleNext(Tail(q))
           /\ \A m \in SystemMsg : Credible(m) => AllCredibleNext(Append(q, m))
<1>1. \A i \in 1..Len(q) : q[i] \in SystemMsg
  BY ElementOfSeq
<1>2. AllCredibleNext(q) /\ AllCredibleNext(<<>>)
  BY <1>1 DEF AllCredible, AllCredibleNext
<1>3. ASSUME q # <<>> PROVE AllCredibleNext(Tail(q))
  <2>1. /\ Len(Tail(q)) = Len(q) - 1 /\ Len(q) \in Nat
        /\ \A i \in 1..Len(Tail(q)) : Tail(q)[i] = q[i + 1]
    BY <1>3, HeadTailProperties
  <2>2. \A i \in 1..Len(Tail(q)) : i + 1 \in 1..Len(q)
    BY <2>1
  <2>3. QED
    BY <1>2, <2>1, <2>2 DEF AllCredibleNext
<1>4. ASSUME NEW m \in SystemMsg, Credible(m)
      PROVE  AllCredibleNext(Append(q, m))
  <2>1. /\ Len(Append(q, m)) = Len(q) + 1 /\ Len(q) \in Nat
        /\ \A i \in 1..Len(q) : Append(q, m)[i] = q[i]
        /\ Append(q, m)[Len(q) + 1] = m
    BY AppendProperties
  <2>2. CredibleNext(m)
    BY <1>4
  <2>3. \A i \in 1..Len(Append(q, m)) : i \in 1..Len(q) \/ i = Len(q) + 1
    BY <2>1
  <2>4. QED
    BY <1>2, <2>1, <2>2, <2>3 DEF AllCredibleNext
<1>5. QED
  BY <1>2, <1>3, <1>4

(* Kernel messages and instances change at known actors only.              *)
LEMMA CellsQuiet ==
    ASSUME TypeOK, KnownInv, Next, NEW a \in Actor, ~Known(a)
    PROVE  /\ \/ rx'[a] = rx[a]
              \/ rx'[a]["TerminateActor"] = 0 /\ rx'[a]["RestartActor"] = 0
           /\ instance'[a] = instance[a]
<1>0. CellsOK
  BY DEF TypeOK
<1>1. CASE UNCHANGED <<rx, instance>>
  BY <1>1
<1>2. ASSUME NEW b \in Actor, HandleInit(b) \/ HandleStop(b) \/ HandleRestart(b)
                              \/ HandleFailed(b) \/ HandleTerminated(b)
      PROVE  rx'[a] = rx[a] /\ instance'[a] = instance[a]
  <2>1. a # b
    BY <1>2, ActingKnown DEF HandleInit, HandleStop, HandleRestart, HandleFailed,
                             HandleTerminated, Handling
  <2>2. rx'[a] = rx[a]
    BY <1>0, <1>2, <2>1 DEF HandleInit, HandleStop, HandleRestart, HandleFailed,
                            HandleTerminated, Send, CellsOK
  <2>3. instance'[a] = instance[a]
    BY <1>0, <1>2, <2>1 DEF HandleInit, HandleStop, HandleRestart, HandleFailed,
                            HandleTerminated, Panic, Fails, CellsOK
  <2>4. QED
    BY <2>2, <2>3
<1>3. ASSUME NEW b \in Actor, RecvPanic(b)
      PROVE  rx'[a] = rx[a] /\ instance'[a] = instance[a]
  <2>1. a # b
    BY <1>3, ActingKnown DEF RecvPanic, CanRecv
  <2>2. QED
    BY <1>0, <1>3, <2>1 DEF RecvPanic, Panic, Fails, CellsOK
<1>4. ASSUME NEW b \in Actor, RestartActor(b) \/ TerminateActor(b)
      PROVE  rx'[a] = rx[a] /\ instance'[a] = instance[a]
  <2>1. a # b
    BY <1>4, ActingKnown DEF RestartActor, TerminateActor, Receive
  <2>2. QED
    BY <1>0, <1>4, <2>1 DEF RestartActor, TerminateActor, Receive, CellsOK
<1>5. ASSUME NEW b \in Actor, Close(b)
      PROVE  /\ \/ rx'[a] = rx[a]
                \/ rx'[a]["TerminateActor"] = 0 /\ rx'[a]["RestartActor"] = 0
             /\ instance'[a] = instance[a]
  BY <1>0, <1>5 DEF Close, CellsOK, KernelMsg
<1>6. QED
  BY <1>1, <1>2, <1>3, <1>4, <1>5
     DEF Next, Handle, Register, StartActor, AddChild, TellInit, Stop, Drain, CallbackActorOf,
         PublishEnd, TellWatchers

(* Who is added to the children is known from then on.                     *)
LEMMA ChildrenKnown ==
    ASSUME TypeOK, PathInv, KnownInv, [Next]_vars
    PROVE  \A a \in Actor : \A c \in children'[a] : Known(c)'
<1>0. /\ CellsOK /\ RegistryOK
      /\ \A x \in Actor : Known(x) => Known(x)'
      /\ \A x \in Actor : \A c \in children[x] : c \in Actor /\ Known(c)
  BY KnownGrows DEF TypeOK, CellsOK, KnownInv
<1>1. CASE UNCHANGED children
  BY <1>0, <1>1
<1>2. ASSUME NEW a \in Actor, AddChild(a)
      PROVE  \A b \in Actor : \A c \in children'[b] : Known(c)'
  <2>1. Known(a)'
    BY <1>0, <1>2 DEF AddChild, Known, KnownInv, CreationOK, RegistryOK
  <2>2. \A b \in Actor : \A c \in children'[b] : c = a \/ c \in children[b]
    BY <1>0, <1>2, TreeFacts DEF AddChild, WithChild, CellsOK
  <2>3. QED
    BY <1>0, <2>1, <2>2
<1>3. ASSUME NEW a \in Actor, CallbackActorOf(a)
      PROVE  \A b \in Actor : \A c \in children'[b] : Known(c)'
  <2>1. PICK d \in Actor \ {Guardian} : ActorOf(a, d)
    BY <1>3 DEF CallbackActorOf
  <2>2. CASE UNCHANGED children
    BY <1>1, <2>2
  <2>3. CASE /\ life' = [life EXCEPT ![d] = "open"] /\ UNCHANGED creation
             /\ children' = [children EXCEPT ![a] = WithChild(a, d)]
    <3>1. Known(d)'
      BY <1>0, <2>1, <2>3 DEF Known, ActorOf, RegistryOK
    <3>2. \A b \in Actor : \A c \in children'[b] : c = d \/ c \in children[b]
      BY <1>0, <2>3 DEF WithChild, CellsOK
    <3>3. QED
      BY <1>0, <3>1, <3>2
  <2>4. QED
    BY <2>1, <2>2, <2>3 DEF ActorOf
<1>4. ASSUME NEW a \in Actor, HandleTerminated(a)
      PROVE  \A b \in Actor : \A c \in children'[b] : Known(c)'
  <2>1. \A b \in Actor : \A c \in children'[b] : c \in children[b]
    BY <1>0, <1>4 DEF HandleTerminated, Removed, CellsOK
  <2>2. QED
    BY <1>0, <2>1
<1>5. QED
  BY <1>1, <1>2, <1>3, <1>4
     DEF Next, Handle, Register, StartActor, TellInit, Stop, Drain, HandleInit, HandleStop,
         HandleRestart, HandleFailed, RecvPanic, RestartActor, TerminateActor, PublishEnd,
         Close, TellWatchers, vars, cells

(* Who is born has a parent that is known.                                 *)
LEMMA ParentsKnown ==
    ASSUME TypeOK, PathInv, KnownInv, [Next]_vars
    PROVE  \A a \in Actor \ {Guardian} : life'[a] # "unborn" => Known(Parent[a])'
<1>0. /\ RegistryOK
      /\ \A x \in Actor : Known(x) => Known(x)'
      /\ \A x \in Actor \ {Guardian} : Parent[x] \in Actor
      /\ \A x \in Actor \ {Guardian} : life[x] # "unborn" => Known(Parent[x])
  BY KnownGrows, TreeFacts DEF TypeOK, KnownInv
<1>1. CASE \A x \in Actor : life[x] = "unborn" => life'[x] = "unborn"
  BY <1>0, <1>1
<1>2. ASSUME NEW a \in Actor, StartActor(a)
      PROVE  \A x \in Actor \ {Guardian} : life'[x] # "unborn" => Known(Parent[x])'
  <2>1. Parent[a] = Guardian /\ Known(Guardian)
    BY <1>2 DEF StartActor, KnownInv, CreationOK, ChildrenOf
  <2>2. \A x \in Actor : x # a => life'[x] = life[x]
    BY <1>0, <1>2 DEF StartActor, RegistryOK
  <2>3. QED
    BY <1>0, <2>1, <2>2, TreeFacts
<1>3. ASSUME NEW a \in Actor, CallbackActorOf(a)
      PROVE  \A x \in Actor \ {Guardian} : life'[x] # "unborn" => Known(Parent[x])'
  <2>1. PICK c \in Actor \ {Guardian} : ActorOf(a, c)
    BY <1>3 DEF CallbackActorOf
  <2>2. Parent[c] = a /\ Known(a)
    BY <1>3, <2>1, ActingKnown DEF ActorOf, ChildrenOf, CallbackActorOf, CanRecv, Handling
  <2>3. \A x \in Actor : x # c => life'[x] = life[x]
    BY <1>0, <2>1 DEF ActorOf, RegistryOK
  <2>4. QED
    BY <1>0, <2>2, <2>3
<1>4. ASSUME NEW a \in Actor, TerminateActor(a) \/ PublishEnd(a) \/ Close(a)
      PROVE  \A x \in Actor : life[x] = "unborn" => life'[x] = "unborn"
  BY <1>0, <1>4 DEF TerminateActor, PublishEnd, Close, Receive, KernelFree, RegistryOK
<1>5. ASSUME NEW a \in Actor, Register(a) \/ AddChild(a) \/ TellInit(a)
      PROVE  UNCHANGED life
  BY <1>5 DEF Register, AddChild, TellInit
<1>6. QED
  BY <1>1, <1>2, <1>3, <1>4, <1>5, LivesChange

(* The guardian of /user never loses its instance: it has no callbacks     *)
(* that panic, and it fails only for want of one.                          *)
LEMMA GuardianStays ==
    ASSUME TypeOK, KnownInv, Next
    PROVE  instance'[Guardian] # "none"
<1>0. CellsOK /\ Guardian \in Actor /\ instance[Guardian] # "none" /\ Guardian \notin Fallible
  BY TreeFacts, BehaviourAssumption DEF TypeOK, KnownInv
<1> USE DEF CellsOK
<1>1. CASE UNCHANGED instance
  BY <1>0, <1>1
<1>2. ASSUME NEW a \in Actor, HandleInit(a) \/ HandleFailed(a) \/ RecvPanic(a)
      PROVE  instance'[Guardian] # "none"
  BY <1>0, <1>2 DEF HandleInit, HandleFailed, RecvPanic, Panic, Fails
<1>3. ASSUME NEW a \in Actor, HandleStop(a)
      PROVE  instance'[Guardian] # "none"
  BY <1>0, <1>3 DEF HandleStop, Panic, Fails, PostStopped
<1>4. ASSUME NEW a \in Actor, HandleTerminated(a)
      PROVE  instance'[Guardian] # "none"
  BY <1>0, <1>4 DEF HandleTerminated, Panic, Fails, PostStopped
<1>5. ASSUME NEW a \in Actor, RestartActor(a)
      PROVE  instance'[Guardian] # "none"
  BY <1>0, <1>5 DEF RestartActor
<1>6. QED
  BY <1>1, <1>2, <1>3, <1>4, <1>5
     DEF Next, Handle, Register, StartActor, AddChild, TellInit, Stop, Drain, HandleRestart,
         CallbackActorOf, TerminateActor, PublishEnd, Close, TellWatchers

(* Queues after the step: who is not known yet still has empty ones.       *)
QueuesKnownNext(a) ==
    /\ AllCredibleNext(sys_queue'[a]) /\ AllCredibleNext(staged'[a])
    /\ ~KnownNext(a) => sys_queue'[a] = <<>> /\ staged'[a] = <<>>

(* After every step the queues hold true messages, and only known actors   *)
(* have any.                                                               *)
LEMMA QueuesKnown ==
    ASSUME TypeOK, PathInv, KnownInv, Next, NEW a \in Actor
    PROVE  QueuesKnownNext(a)
<1>0. /\ sys_queue[a] \in Seq(SystemMsg) /\ staged[a] \in Seq(SystemMsg)
      /\ AllCredible(sys_queue[a]) /\ AllCredible(staged[a])
  BY DEF TypeOK, QueuesOK, KnownInv
<1>1. \A x \in Actor : (Known(x) => KnownNext(x)) /\ (Ended(x) => Ended(x)')
  BY KnownGrows DEF Known, KnownNext
<1>2. \A m \in SystemMsg : Credible(m) => CredibleNext(m)
  BY <1>1, NamedActor DEF Credible, CredibleNext, Ended
<1>3. ~KnownNext(a) => sys_queue[a] = <<>> /\ staged[a] = <<>>
  BY <1>1 DEF KnownInv, Untouched
<1>4. MailQuiet(a) /\ StagedQuiet(a)
  BY StepsQuiet DEF QueuesQuiet
<1>5. AllCredibleNext(sys_queue'[a]) /\ (~KnownNext(a) => sys_queue'[a] = <<>>)
  BY <1>0, <1>2, <1>3, <1>4, CredibleMoves DEF MailQuiet, Polite, Known, KnownNext
<1>6. AllCredibleNext(staged'[a]) /\ (~KnownNext(a) => staged'[a] = <<>>)
  BY <1>0, <1>2, <1>3, <1>4, CredibleMoves DEF StagedQuiet
<1>7. QED
  BY <1>5, <1>6 DEF QueuesKnownNext

(* Whose end is in the mailbox of the events channel has ended.            *)
LEMMA EventsKnown ==
    ASSUME TypeOK, PathInv, KnownInv, [Next]_vars
    PROVE  \A i \in 1..Len(events') : life'[events'[i]] \in {"published", "closed"}
<1>0. /\ events \in Seq(Actor)
      /\ \A i \in 1..Len(events) : events[i] \in Actor /\ Ended(events[i])
      /\ \A x \in Actor : Ended(x) => life'[x] \in {"published", "closed"}
  BY KnownGrows, ElementOfSeq DEF TypeOK, QueuesOK, KnownInv, Ended
<1>1. CASE UNCHANGED events
  BY <1>0, <1>1
<1>2. ASSUME NEW a \in Actor, PublishEnd(a)
      PROVE  \A i \in 1..Len(events') : life'[events'[i]] \in {"published", "closed"}
  <2>1. life'[a] = "published" /\ (events' = events \/ events' = Append(events, a))
    BY <1>2 DEF PublishEnd, TypeOK, RegistryOK
  <2>2. /\ Len(Append(events, a)) = Len(events) + 1 /\ Len(events) \in Nat
        /\ \A i \in 1..Len(events) : Append(events, a)[i] = events[i]
        /\ Append(events, a)[Len(events) + 1] = a
    BY <1>0, AppendProperties
  <2>3. QED
    BY <1>0, <2>1, <2>2
<1>3. CASE TellWatchers
  <2>1. events # <<>> /\ events' = Tail(events)
    BY <1>3 DEF TellWatchers
  <2>2. /\ Len(Tail(events)) = Len(events) - 1 /\ Len(events) \in Nat
        /\ \A i \in 1..Len(Tail(events)) : Tail(events)[i] = events[i + 1]
    BY <1>0, <2>1, HeadTailProperties
  <2>3. QED
    BY <1>0, <2>1, <2>2
<1>4. QED
  BY <1>1, <1>2, <1>3
     DEF Next, Handle, Register, StartActor, AddChild, TellInit, Stop, Drain, HandleInit,
         HandleStop, HandleRestart, HandleFailed, HandleTerminated, RecvPanic,
         CallbackActorOf, RestartActor, TerminateActor, Close, registry, vars

(* Every step keeps that nothing happens to an actor before its reference  *)
(* is known.                                                               *)
LEMMA KnownStep == TypeOK /\ PathInv /\ KnownInv /\ [Next]_vars => KnownInv'
<1> SUFFICES ASSUME TypeOK, PathInv, KnownInv, [Next]_vars
             PROVE  KnownInv'
  OBVIOUS
<1>1. CASE Next
  <2>1. /\ CreationOK' /\ Known(Guardian)' /\ instance'[Guardian] # "none"
        /\ \A a \in Actor : Known(a) => Known(a)'
    BY <1>1, KnownGrows, GuardianStays, TreeFacts DEF KnownInv
  <2>2. ASSUME NEW a \in Actor
        PROVE  /\ ~Known(a)' => Untouched(a)'
               /\ AllCredible(sys_queue[a])' /\ AllCredible(staged[a])'
    <3>1. QueuesKnownNext(a)
      BY <1>1, QueuesKnown
    <3>2. ASSUME ~Known(a)' PROVE Untouched(a)'
      <4>1. ~Known(a) /\ Untouched(a)
        BY <2>1, <3>2 DEF KnownInv
      <4>2. QED
        BY <1>1, <3>1, <3>2, <4>1, CellsQuiet DEF Untouched, QueuesKnownNext, Known, KnownNext
    <3>3. AllCredible(sys_queue[a])'
      BY <3>1 DEF QueuesKnownNext, AllCredible, AllCredibleNext, Credible, CredibleNext,
                  Known, KnownNext, Ended
    <3>4. AllCredible(staged[a])'
      BY <3>1 DEF QueuesKnownNext, AllCredible, AllCredibleNext, Credible, CredibleNext,
                  Known, KnownNext, Ended
    <3>5. QED
      BY <3>2, <3>3, <3>4
  <2>3. \A a \in Actor : \A c \in children'[a] : Known(c)'
    BY ChildrenKnown
  <2>4. \A a \in Actor \ {Guardian} : life'[a] # "unborn" => Known(Parent[a])'
    BY ParentsKnown
  <2>5. \A i \in 1..Len(events') : Ended(events[i])'
    BY EventsKnown DEF Ended
  <2>6. QED
    BY <2>1, <2>2, <2>3, <2>4, <2>5 DEF KnownInv
<1>2. CASE UNCHANGED vars
  BY <1>2 DEF vars, cells, mailboxes, registry, KnownInv, CreationOK, Known, Untouched,
              AllCredible, Credible, Ended
<1>3. QED
  BY <1>1, <1>2

(* At first only the actors that are up are known.                         *)
LEMMA KnownInit == Init => KnownInv
<1> SUFFICES ASSUME Init
             PROVE  KnownInv
  OBVIOUS
<1>1. /\ life = [a \in Actor |-> IF a \in Alive THEN "open" ELSE "unborn"]
      /\ creation = [a \in Actor |-> "none"]
      /\ children = [a \in Actor |-> ChildrenOf(a) \cap Alive]
      /\ sys_queue = [a \in Actor |-> <<>>]
      /\ staged = [a \in Actor |-> <<>>]
      /\ instance = [a \in Actor |-> IF a \in Alive \ {Guardian} THEN "started" ELSE "fresh"]
      /\ rx = [a \in Actor |-> [k \in KernelMsg |-> 0]]
      /\ events = <<>>
  BY DEF Init
<1>2. \A a \in Actor : creation[a] = "none" /\ (Known(a) <=> a \in Alive)
  BY <1>1 DEF Known
<1>3. \A a \in Actor : ~Known(a) => Untouched(a)
  BY <1>1, <1>2 DEF Untouched, KernelMsg
<1>4. Known(Guardian) /\ instance[Guardian] # "none"
  BY <1>1, <1>2, TreeAssumption
<1>5. \A a \in Actor \ {Guardian} : life[a] # "unborn" => Known(Parent[a])
  BY <1>1, <1>2, TreeAssumption
<1>6. \A a \in Actor : \A c \in children[a] : Known(c)
  BY <1>1, <1>2, TreeAssumption
<1>7. \A a \in Actor : AllCredible(sys_queue[a]) /\ AllCredible(staged[a])
  <2>1. AllCredible(<<>>)
    BY DEF AllCredible
  <2>2. \A a \in Actor : sys_queue[a] = <<>> /\ staged[a] = <<>>
    BY <1>1
  <2>3. QED
    BY <2>1, <2>2
<1>8. \A i \in 1..Len(events) : Ended(events[i])
  BY <1>1
<1>9. QED
  BY <1>8, <1>2, <1>3, <1>4, <1>5, <1>6, <1>7 DEF KnownInv, CreationOK

-----------------------------------------------------------------------------
(* create_actor is past add_child, and terminate_actor has not begun.      *)
Due(c) == life[c] = "open" /\ creation[c] # "started"

(* A parent lists its children, but for those it has forgotten.            *)
ListInv ==
    \A a \in Actor : \A c \in ChildrenOf(a) : Due(c) => c \in children[a] \/ c \in forgotten

(* add_child of d: the former bearer of the name is not due any more.      *)
LEMMA ListedAdded ==
    ASSUME TypeOK, PathInv, ListInv, NEW a \in Actor, NEW d \in ChildrenOf(a),
           children' = [children EXCEPT ![a] = WithChild(a, d)],
           forgotten \subseteq forgotten', life'[d] = "open", PathInv',
           \A c \in Actor : c # d => (Due(c)' => Due(c))
    PROVE  ListInv'
<1> SUFFICES ASSUME NEW b \in Actor, NEW c \in ChildrenOf(b), Due(c)'
             PROVE  c \in children'[b] \/ c \in forgotten'
  BY DEF ListInv, ChildrenOf
<1>1. c \in Actor \ {Guardian} /\ d \in Actor \ {Guardian} /\ Parent[c] = b /\ Parent[d] = a
  BY DEF ChildrenOf
<1>2. CASE c = d
  BY <1>1, <1>2 DEF WithChild, TypeOK, CellsOK
<1>3. CASE c # d /\ b # a
  BY <1>1, <1>3 DEF ListInv, TypeOK, CellsOK
<1>4. CASE c # d /\ b = a
  <2>1. life'[c] = "open" /\ Bears(c)' /\ Bears(d)'
    BY DEF Due, Bears
  <2>2. Path(c) # Path(d)
    BY <1>1, <1>4, <2>1 DEF PathInv
  <2>3. Name[c] # Name[d]
    BY <1>1, <1>4, <2>2 DEF Path
  <2>4. children'[a] = WithChild(a, d)
    BY DEF TypeOK, CellsOK
  <2>5. QED
    BY <1>1, <1>4, <2>3, <2>4 DEF WithChild, ListInv
<1>5. QED
  BY <1>2, <1>3, <1>4

(* death_watch: who goes from the list has ended, or is forgotten.         *)
LEMMA ListedGone ==
    ASSUME TypeOK, KnownInv, ListInv, NEW a \in Actor, HandleTerminated(a)
    PROVE  ListInv'
<1>1. CASE UNCHANGED <<children, forgotten, life, creation>>
  BY <1>1 DEF ListInv, Due, ChildrenOf
<1> DEFINE e == Head(staged[a]).actor
<1>2. CASE Removed(a, e)
  <2>1. ~Due(e)
    <3>1. /\ staged[a] \in Seq(SystemMsg) /\ staged[a] # <<>>
          /\ Head(staged[a]).kind = "ActorTerminated"
      BY DEF HandleTerminated, Handling, TypeOK, QueuesOK
    <3>2. 1 \in 1..Len(staged[a]) /\ Head(staged[a]) = staged[a][1]
      BY <3>1, EmptySeq, HeadTailProperties
    <3>3. QED
      BY <3>1, <3>2 DEF KnownInv, AllCredible, Credible, Ended, Due
  <2>2. UNCHANGED <<life, creation>>
    BY DEF HandleTerminated, registry
  <2> HIDE DEF e
  <2>3. ASSUME NEW b \in Actor, NEW c \in ChildrenOf(b), Due(c)
        PROVE  c \in children'[b] \/ c \in forgotten'
    <3>1. c # e /\ (c \in children[b] \/ c \in forgotten)
      BY <2>1, <2>3 DEF ListInv
    <3>2. QED
      BY <1>2, <3>1 DEF Removed, TypeOK, CellsOK
  <2>4. QED
    BY <2>2, <2>3 DEF ListInv, Due, ChildrenOf
<1>3. QED
  BY <1>1, <1>2 DEF HandleTerminated, registry

(* Every step keeps that a parent lists its children.                      *)
LEMMA ListStep ==
    ASSUME TypeOK, PathInv, PathInv', KnownInv, ListInv, [Next]_vars
    PROVE  ListInv'
<1>0. RegistryOK /\ CellsOK
  BY DEF TypeOK
<1>1. CASE /\ UNCHANGED <<children, forgotten>>
           /\ \A c \in Actor : Due(c)' => Due(c)
  BY <1>1 DEF ListInv, ChildrenOf
<1>2. CASE UNCHANGED <<children, forgotten, life, creation>>
  BY <1>1, <1>2 DEF Due
<1>3. ASSUME NEW b \in Actor, \/ Register(b) \/ StartActor(b) \/ TellInit(b)
                               \/ TerminateActor(b) \/ PublishEnd(b) \/ Close(b)
      PROVE  ListInv'
  <2>1. UNCHANGED <<children, forgotten>>
    BY <1>3 DEF Register, StartActor, TellInit, TerminateActor, PublishEnd, Close, cells
  <2>2. \A c \in Actor : Due(c)' => Due(c)
    BY <1>0, <1>3 DEF Register, StartActor, TellInit, TerminateActor, PublishEnd, Close, Due,
                      RegistryOK
  <2>3. QED
    BY <1>1, <2>1, <2>2
<1>4. ASSUME NEW b \in Actor, AddChild(b)
      PROVE  ListInv'
  <2>1. /\ b \in ChildrenOf(Guardian) /\ Guardian \in Actor
        /\ life[b] = "open" /\ life' = life
        /\ creation' = [creation EXCEPT ![b] = "added"]
        /\ children' = [children EXCEPT ![Guardian] = WithChild(Guardian, b)]
    BY <1>4, TreeFacts DEF AddChild, KnownInv, CreationOK
  <2>2. forgotten' = forgotten
    BY <1>4 DEF AddChild
  <2>3. \A c \in Actor : c # b => (Due(c)' => Due(c))
    BY <1>0, <2>1 DEF Due, RegistryOK
  <2>4. QED
    BY <2>1, <2>2, <2>3, ListedAdded
<1>5. ASSUME NEW b \in Actor, CallbackActorOf(b)
      PROVE  ListInv'
  <2>1. PICK d \in Actor \ {Guardian} : ActorOf(b, d)
    BY <1>5 DEF CallbackActorOf
  <2>2. d \in ChildrenOf(b) /\ forgotten' = forgotten
    BY <1>5, <2>1 DEF ActorOf, CallbackActorOf
  <2>3. CASE UNCHANGED <<life, children>> /\ creation' = [creation EXCEPT ![d] = "failed"]
    <3>1. \A c \in Actor : Due(c)' => Due(c)
      BY <1>0, <2>1, <2>3 DEF ActorOf, Due, RegistryOK
    <3>2. QED
      BY <1>1, <2>2, <2>3, <3>1
  <2>4. CASE /\ life' = [life EXCEPT ![d] = "open"] /\ UNCHANGED creation
             /\ children' = [children EXCEPT ![b] = WithChild(b, d)]
    <3>1. life'[d] = "open" /\ \A c \in Actor : c # d => (Due(c)' => Due(c))
      BY <1>0, <2>4 DEF Due, RegistryOK
    <3>2. QED
      BY <2>2, <2>4, <3>1, ListedAdded
  <2>5. QED
    BY <2>1, <2>3, <2>4 DEF ActorOf
<1>6. QED
  BY <1>2, <1>3, <1>4, <1>5, ListedGone
     DEF Next, Handle, Stop, Drain, HandleInit, HandleStop, HandleRestart, HandleFailed,
         RecvPanic, RestartActor, TellWatchers, vars, cells, registry

(* It lists all of them at first.                                          *)
LEMMA ListInit == Init => ListInv
<1> SUFFICES ASSUME Init, NEW a \in Actor, NEW c \in ChildrenOf(a), Due(c)
             PROVE  c \in children[a]
  BY DEF ListInv
<1>1. /\ life = [b \in Actor |-> IF b \in Alive THEN "open" ELSE "unborn"]
      /\ children = [b \in Actor |-> ChildrenOf(b) \cap Alive]
  BY DEF Init
<1>2. c \in Alive
  BY <1>1 DEF Due, ChildrenOf
<1>3. QED
  BY <1>1, <1>2

-----------------------------------------------------------------------------
(* The kernel has been told to terminate, or has begun to.                 *)
Ending(a) == \/ rx[a]["TerminateActor"] > 0
             \/ life[a] \in {"unregistered", "published", "closed"}

(* terminate and death_watch send TerminateActor, and RestartActor, only   *)
(* when the list is empty, and from then on no child comes that is not     *)
(* late: a terminating actor stays so, and a restart is still on its way.  *)
GoneOK(a) ==
    /\ Ending(a) => is_terminating[a] /\ NoChildAwaited(a)
    /\ rx[a]["RestartActor"] > 0 => NoChildAwaited(a)

GoneInv == \A a \in Actor : GoneOK(a)

(* Only terminate, restart and death_watch send to the kernel, with no     *)
(* child on the list; terminate alone sets is_terminating, which nothing   *)
(* clears.                                                                 *)
LEMMA KernelTold ==
    ASSUME TypeOK, [Next]_vars, NEW a \in Actor
    PROVE  /\ \A k \in KernelMsg : rx'[a][k] > 0 => rx[a][k] > 0 \/ children'[a] = {}
           /\ rx'[a]["TerminateActor"] > 0 => rx[a]["TerminateActor"] > 0 \/ is_terminating'[a]
           /\ is_terminating[a] => is_terminating'[a]
<1>0. /\ CellsOK /\ is_terminating \in [Actor -> BOOLEAN]
      /\ KernelMsg = {"RestartActor", "TerminateActor"}
      /\ rx[a] \in [KernelMsg -> Nat]
  BY DEF TypeOK, FlagsOK, CellsOK, KernelMsg
<1>1. CASE UNCHANGED <<rx, is_terminating>>
  BY <1>1
<1>2. ASSUME NEW b \in Actor, HandleStop(b)
      PROVE  /\ \A k \in KernelMsg : rx'[a][k] > 0 => rx[a][k] > 0 \/ children'[a] = {}
             /\ rx'[a]["TerminateActor"] > 0 => rx[a]["TerminateActor"] > 0 \/ is_terminating'[a]
             /\ is_terminating[a] => is_terminating'[a]
  <2>1. is_terminating' = [is_terminating EXCEPT ![b] = TRUE] /\ children' = children
    BY <1>2 DEF HandleStop
  <2>2. rx' = rx \/ (children[b] = {} /\ rx' = [rx EXCEPT ![b]["TerminateActor"] = @ + 1])
    BY <1>2 DEF HandleStop, Send
  <2>3. a # b => rx'[a] = rx[a]
    BY <1>0, <2>2 DEF CellsOK
  <2>4. a = b => is_terminating'[a] /\ (rx' = rx \/ children'[a] = {})
    BY <1>0, <2>1, <2>2
  <2>5. a # b => is_terminating'[a] = is_terminating[a]
    BY <1>0, <2>1
  <2>6. QED
    BY <2>3, <2>4, <2>5
<1>3. ASSUME NEW b \in Actor, HandleRestart(b)
      PROVE  /\ is_terminating' = is_terminating
             /\ \A k \in KernelMsg : rx'[a][k] > 0 => rx[a][k] > 0 \/ children'[a] = {}
             /\ rx'[a]["TerminateActor"] > 0 => rx[a]["TerminateActor"] > 0
  <2>1. is_terminating' = is_terminating /\ children' = children
    BY <1>3 DEF HandleRestart
  <2>2. rx' = rx \/ (children[b] = {} /\ rx' = [rx EXCEPT ![b]["RestartActor"] = @ + 1])
    BY <1>3 DEF HandleRestart, Send
  <2>3. QED
    BY <1>0, <2>1, <2>2 DEF CellsOK
<1>4. ASSUME NEW b \in Actor, HandleTerminated(b)
      PROVE  /\ is_terminating' = is_terminating
             /\ \A k \in KernelMsg : rx'[a][k] > 0 => rx[a][k] > 0 \/ children'[a] = {}
             /\ rx'[a]["TerminateActor"] > 0 => rx[a]["TerminateActor"] > 0 \/ is_terminating'[a]
  <2> DEFINE gone == SamePath(b, Head(staged[b]).actor)
             left == children[b] \ gone
             last == gone # {} /\ children[b] \subseteq gone
  <2>1. is_terminating' = is_terminating
    BY <1>4 DEF HandleTerminated
  <2>2. \/ rx' = rx
        \/ /\ children' = [children EXCEPT ![b] = left] /\ last /\ is_terminating[b]
           /\ rx' = [rx EXCEPT ![b]["TerminateActor"] = @ + 1]
        \/ /\ children' = [children EXCEPT ![b] = left]
           /\ rx' = [rx EXCEPT ![b]["TerminateActor"] =
                                   @ + (IF last /\ is_terminating[b] THEN 1 ELSE 0),
                               ![b]["RestartActor"] =
                                   @ + (IF last /\ is_restarting[b] THEN 1 ELSE 0)]
    BY <1>4 DEF HandleTerminated, Removed, Send
  <2>3. last => left = {}
    OBVIOUS
  <2> HIDE DEF left, last
  <2>4. a # b => rx'[a] = rx[a]
    BY <1>0, <2>2 DEF CellsOK
  <2>5. a = b => rx'[a] = rx[a] \/ children'[a] = left
    BY <1>0, <2>2 DEF CellsOK
  <2>6. a = b => /\ rx'[a]["TerminateActor"] = rx[a]["TerminateActor"] \/ (last /\ is_terminating[b])
                 /\ rx'[a]["RestartActor"] = rx[a]["RestartActor"] \/ last
    BY <1>0, <2>2 DEF CellsOK
  <2>7. QED
    BY <1>0, <2>1, <2>3, <2>4, <2>5, <2>6
<1>5. ASSUME NEW b \in Actor, RestartActor(b) \/ TerminateActor(b) \/ Close(b)
      PROVE  /\ is_terminating' = is_terminating
             /\ \A k \in KernelMsg : rx'[a][k] > 0 => rx[a][k] > 0
  <2>1. is_terminating' = is_terminating
    BY <1>5 DEF RestartActor, TerminateActor, Close, cells
  <2>2. \/ rx' = [rx EXCEPT ![b]["RestartActor"] = @ - 1]
        \/ rx' = [rx EXCEPT ![b]["TerminateActor"] = @ - 1]
        \/ rx' = [rx EXCEPT ![b] = [k \in KernelMsg |-> 0]]
    BY <1>5 DEF RestartActor, TerminateActor, Close, Receive
  <2>3. QED
    BY <1>0, <2>1, <2>2 DEF CellsOK
<1>6. QED
  BY <1>0, <1>1, <1>2, <1>3, <1>4, <1>5
     DEF Next, Handle, Register, StartActor, AddChild, TellInit, Stop, Drain, HandleInit,
         HandleFailed, RecvPanic, CallbackActorOf, PublishEnd, TellWatchers, vars, cells

(* Who is ended has begun to end before.                                   *)
LEMMA EndingBefore ==
    ASSUME TypeOK, [Next]_vars, NEW a \in Actor,
           life'[a] \in {"unregistered", "published", "closed"}
    PROVE  Ending(a)
<1>0. RegistryOK
  BY DEF TypeOK
<1>1. CASE life'[a] = life[a]
  BY <1>1 DEF Ending
<1>2. ASSUME NEW b \in Actor, StartActor(b) \/ CallbackActorOf(b)
      PROVE  life'[a] \in {life[a], "open"}
  BY <1>0, <1>2 DEF StartActor, CallbackActorOf, ActorOf, RegistryOK
<1>3. ASSUME NEW b \in Actor, TerminateActor(b)
      PROVE  life'[a] = life[a] \/ rx[a]["TerminateActor"] > 0
  BY <1>0, <1>3 DEF TerminateActor, Receive, RegistryOK
<1>4. ASSUME NEW b \in Actor, PublishEnd(b) \/ Close(b)
      PROVE  life'[a] = life[a] \/ life[a] \in {"unregistered", "published"}
  BY <1>0, <1>4 DEF PublishEnd, Close, RegistryOK
<1>5. ASSUME NEW b \in Actor, Register(b) \/ AddChild(b) \/ TellInit(b)
      PROVE  life'[a] = life[a]
  BY <1>5 DEF Register, AddChild, TellInit
<1>6. QED
  BY <1>1, <1>2, <1>3, <1>4, <1>5, LivesChange DEF Ending

(* Who came late or was forgotten stays so.                                *)
LEMMA HistoryGrows ==
    ASSUME [Next]_vars
    PROVE  late \subseteq late' /\ forgotten \subseteq forgotten'
<1>1. CASE UNCHANGED <<late, forgotten>>
  BY <1>1
<1>2. ASSUME NEW a \in Actor, AddChild(a) \/ CallbackActorOf(a)
      PROVE  late \subseteq late' /\ UNCHANGED forgotten
  BY <1>2 DEF AddChild, CallbackActorOf, ActorOf, LateWith
<1>3. ASSUME NEW a \in Actor, HandleTerminated(a)
      PROVE  UNCHANGED late /\ forgotten \subseteq forgotten'
  BY <1>3 DEF HandleTerminated, Removed, registry
<1>4. QED
  BY <1>1, <1>2, <1>3
     DEF Next, Handle, Register, StartActor, TellInit, Stop, Drain, HandleInit, HandleStop,
         HandleRestart, HandleFailed, RecvPanic, RestartActor, TerminateActor, PublishEnd,
         Close, TellWatchers, cells, registry, vars

(* A child that comes to an actor that terminates, or whose restart is on  *)
(* its way, is late.                                                       *)
LEMMA AwaitedStays ==
    ASSUME TypeOK, KnownInv, [Next]_vars, NEW a \in Actor,
           NoChildAwaited(a), is_terminating[a] \/ rx[a]["RestartActor"] > 0
    PROVE  NoChildAwaited(a)'
<1>0. /\ RegistryOK
      /\ \A c \in ChildrenOf(a) : c \in Actor /\ c # Guardian /\ Parent[c] = a
  BY DEF TypeOK, ChildrenOf
<1>1. late \subseteq late' /\ forgotten \subseteq forgotten'
  BY HistoryGrows
<1>2. CASE \A c \in ChildrenOf(a) : Due(c)' => Due(c) \/ c \in late'
  BY <1>1, <1>2 DEF NoChildAwaited, ChildrenOf, Due
<1>3. CASE UNCHANGED <<life, creation>>
  BY <1>2, <1>3 DEF Due
<1>4. ASSUME NEW b \in Actor, \/ Register(b) \/ StartActor(b) \/ TellInit(b)
                               \/ TerminateActor(b) \/ PublishEnd(b) \/ Close(b)
      PROVE  \A c \in ChildrenOf(a) : Due(c)' => Due(c)
  BY <1>0, <1>4 DEF Register, StartActor, TellInit, TerminateActor, PublishEnd, Close, Due,
                    RegistryOK
<1>5. ASSUME NEW b \in Actor, AddChild(b)
      PROVE  \A c \in ChildrenOf(a) : Due(c)' => Due(c) \/ c \in late'
  <2>1. /\ Parent[b] = Guardian /\ late' = LateWith(Guardian, b)
        /\ life' = life /\ creation' = [creation EXCEPT ![b] = "added"]
    BY <1>5 DEF AddChild, KnownInv, CreationOK, ChildrenOf
  <2>2. a = Guardian => b \in late'
    BY <2>1 DEF LateWith
  <2>3. QED
    BY <1>0, <2>1, <2>2 DEF Due, RegistryOK
<1>6. ASSUME NEW b \in Actor, CallbackActorOf(b)
      PROVE  \A c \in ChildrenOf(a) : Due(c)' => Due(c) \/ c \in late'
  <2>1. PICK d \in Actor \ {Guardian} : ActorOf(b, d)
    BY <1>6 DEF CallbackActorOf
  <2>2. Parent[d] = b
    BY <2>1 DEF ActorOf, ChildrenOf
  <2>3. CASE life' = life /\ creation' = [creation EXCEPT ![d] = "failed"]
    BY <1>0, <2>1, <2>3 DEF ActorOf, Due, RegistryOK
  <2>4. CASE /\ life' = [life EXCEPT ![d] = "open"] /\ UNCHANGED creation
             /\ late' = LateWith(b, d)
    <3>1. a = b => d \in late'
      BY <2>4 DEF LateWith
    <3>2. QED
      BY <1>0, <2>2, <2>4, <3>1 DEF Due, RegistryOK
  <2>5. QED
    BY <2>1, <2>3, <2>4 DEF ActorOf
<1>7. QED
  BY <1>2, <1>3, <1>4, <1>5, <1>6, LivesChange

(* Every step keeps that an actor about to go has an empty list.           *)
LEMMA GoneStep ==
    /\ TypeOK /\ KnownInv /\ ListInv' /\ GoneInv /\ [Next]_vars
    => GoneInv'
<1> SUFFICES ASSUME TypeOK, KnownInv, ListInv', GoneInv, [Next]_vars,
                    NEW a \in Actor
             PROVE  GoneOK(a)'
  BY DEF GoneInv
<1>1. GoneOK(a)
  BY DEF GoneInv
<1>2. children'[a] = {} => NoChildAwaited(a)'
  BY DEF ListInv, Due, NoChildAwaited, ChildrenOf
<1>3. /\ rx'[a]["RestartActor"] > 0 => rx[a]["RestartActor"] > 0 \/ children'[a] = {}
      /\ rx'[a]["TerminateActor"] > 0 => rx[a]["TerminateActor"] > 0
                                         \/ (children'[a] = {} /\ is_terminating'[a])
      /\ is_terminating[a] => is_terminating'[a]
  BY KernelTold DEF KernelMsg
<1>4. ASSUME rx'[a]["RestartActor"] > 0
      PROVE  NoChildAwaited(a)'
  BY <1>1, <1>2, <1>3, <1>4, AwaitedStays DEF GoneOK
<1>5. ASSUME Ending(a)'
      PROVE  is_terminating'[a] /\ NoChildAwaited(a)'
  <2>1. Ending(a) \/ (children'[a] = {} /\ is_terminating'[a])
    BY <1>3, <1>5, EndingBefore DEF Ending
  <2>2. QED
    BY <1>1, <1>2, <1>3, <2>1, AwaitedStays DEF GoneOK
<1>6. QED
  BY <1>4, <1>5 DEF GoneOK

(* At first nobody is about to go.                                         *)
LEMMA GoneInit == Init => GoneInv
<1> SUFFICES ASSUME Init, NEW a \in Actor
             PROVE  GoneOK(a)
  BY DEF GoneInv
<1>1. /\ life = [b \in Actor |-> IF b \in Alive THEN "open" ELSE "unborn"]
      /\ rx = [b \in Actor |-> [k \in KernelMsg |-> 0]]
  BY DEF Init
<1>2. rx[a]["RestartActor"] = 0 /\ rx[a]["TerminateActor"] = 0
      /\ life[a] \notin {"unregistered", "published", "closed"}
  BY <1>1 DEF KernelMsg
<1>3. QED
  BY <1>2 DEF GoneOK, Ending

(* The whole inductive invariant.                                          *)
TreeInv == TypeOK /\ PathInv /\ KnownInv /\ ListInv /\ GoneInv

(* The parts together are an invariant.                                    *)
LEMMA TreeInvariant == Spec => []TreeInv
<1>1. Init => PathInv /\ KnownInv /\ ListInv /\ GoneInv
  BY PathInit, KnownInit, ListInit, GoneInit
<1>2. /\ TypeOK /\ PathInv /\ KnownInv /\ ListInv /\ GoneInv /\ [Next]_vars
      => PathInv' /\ KnownInv' /\ ListInv' /\ GoneInv'
  BY PathStep, KnownStep, ListStep, GoneStep
<1>3. QED
  BY <1>1, <1>2, SupervisionTypeOK, PTL DEF Spec, TreeInv

(* An actor is gone only after its children, whatever fails, is restarted  *)
(* or stopped meanwhile, for every tree of actors and any subscribers of   *)
(* the events, but for a child that came late or that was removed by its   *)
(* path when another one's end was heard (actor_cell.rs terminate and      *)
(* death_watch, kernel.rs terminate_actor).                                *)
THEOREM SupervisionChildrenGoFirst == Spec => []ChildrenGoFirst
<1>1. TreeInv => ChildrenGoFirst
  BY DEF TreeInv, GoneInv, GoneOK, Ending, ChildrenGoFirst
<1>2. QED
  BY <1>1, TreeInvariant, PTL

(* A restart waits for the children of the old instance, with the same     *)
(* exceptions (actor_cell.rs restart and death_watch, kernel.rs            *)
(* restart_actor).                                                         *)
THEOREM SupervisionRestartAfterChildren == Spec => RestartAfterChildren
<1>1. TreeInv => \A a \in Actor : RestartActor(a) => NoChildAwaited(a)
  BY DEF TreeInv, GoneInv, GoneOK, RestartActor, Receive
<1>2. QED
  BY <1>1, TreeInvariant, PTL DEF RestartAfterChildren

=============================================================================
