----------------------------- MODULE QueueProofs ----------------------------
(***************************************************************************)
(* The queue of src/kernel/queue.rs is a FIFO, for every set of envelopes. *)
(***************************************************************************)
EXTENDS Queue, SequenceTheorems, TLAPS

(* The first message of a non-empty channel and the rest of the channel.   *)
LEMMA HeadThenTail ==
    ASSUME NEW S, NEW q \in Seq(S), q # <<>>
    PROVE  /\ Head(q) \in S
           /\ Tail(q) \in Seq(S)
           /\ <<Head(q)>> \o Tail(q) = q
<1>1. Head(q) \in S /\ Tail(q) \in Seq(S)
  BY HeadTailProperties
<1>2. <<Head(q)>> \o Tail(q) = q
  BY <1>1, ConcatProperties, HeadTailProperties, SMT
<1>3. QED
  BY <1>1, <1>2

(* An Option is nothing or one envelope, and in both cases a sequence.     *)
LEMMA OptionIsSeq ==
    /\ <<>> \in Option
    /\ \A e \in Envelope : <<e>> \in Option
    /\ \A o \in Option : /\ o \in Seq(Envelope)
                         /\ o # <<>> => \E e \in Envelope : o = <<e>>
<1>1. <<>> \in Option
  BY DEF Option
<1>2. ASSUME NEW e \in Envelope
      PROVE  <<e>> \in Option
  BY Zenon DEF Option
<1>3. ASSUME NEW o \in Option
      PROVE  /\ o \in Seq(Envelope)
             /\ o # <<>> => \E e \in Envelope : o = <<e>>
  <2>1. o = <<>> \/ \E e \in Envelope : o = <<e>>
    BY <1>3, Zenon DEF Option
  <2>2. <<>> \in Seq(Envelope) /\ \A e \in Envelope : <<e>> \in Seq(Envelope)
    OBVIOUS
  <2>3. QED
    BY <2>1, <2>2
<1>4. QED
  BY <1>1, <1>2, <1>3

(* Every operation of the queue keeps at most one message set aside, and   *)
(* that message is one that was sent (queue.rs, QueueReaderInner).         *)
THEOREM QueueTypeOK == Spec => []TypeOK
<1>1. Init => TypeOK
  BY OptionIsSeq DEF Init, TypeOK
<1>2. TypeOK /\ [Next]_vars => TypeOK'
  <2> SUFFICES ASSUME TypeOK, [Next]_vars
               PROVE  TypeOK'
    OBVIOUS
  <2> USE DEF TypeOK
  <2>1. ASSUME NEW e \in Envelope, try_enqueue(e)
        PROVE  TypeOK'
    BY <2>1, AppendProperties DEF try_enqueue
  <2>2. CASE dequeue
    <3>1. CASE take_next_item
      BY <3>1, OptionIsSeq DEF take_next_item
    <3>2. CASE recv_rx
      BY <3>2, HeadThenTail DEF recv_rx
    <3>3. QED
      BY <2>2, <3>1, <3>2 DEF dequeue
  <2>3. CASE try_dequeue /\ ~dequeue
    BY <2>3 DEF try_dequeue
  <2>4. CASE has_msgs
    <3>1. CASE UNCHANGED <<rx, next_item>>
      BY <2>4, <3>1 DEF has_msgs
    <3>2. CASE rx # <<>> /\ next_item' = <<Head(rx)>> /\ rx' = Tail(rx)
      BY <2>4, <3>2, HeadThenTail, OptionIsSeq DEF has_msgs
    <3>3. QED
      BY <2>4, <3>1, <3>2 DEF has_msgs
  <2>5. CASE drop_reader
    BY <2>5, OptionIsSeq DEF drop_reader
  <2>6. CASE UNCHANGED vars
    BY <2>6 DEF vars
  <2>7. QED
    BY <2>1, <2>2, <2>3, <2>4, <2>5, <2>6 DEF Next
<1>3. QED
  BY <1>1, <1>2, PTL DEF Spec

-----------------------------------------------------------------------------
(* What stands in the queue when a message e is set aside before rx.       *)
LEMMA ItemsOfSome ==
    ASSUME NEW S, NEW e \in S, NEW q \in Seq(S)
    PROVE  /\ <<e>> \o q # <<>>
           /\ Head(<<e>> \o q) = e
           /\ Tail(<<e>> \o q) = q
<1>1. /\ <<e>> \o q \in Seq(S)
      /\ Len(<<e>> \o q) = 1 + Len(q)
      /\ \A i \in 1 .. 1 + Len(q) :
            (<<e>> \o q)[i] = IF i = 1 THEN e ELSE q[i - 1]
  BY ConcatProperties
<1>2. <<e>> \o q # <<>> /\ Head(<<e>> \o q) = e
  BY <1>1
<1>3. Tail(<<e>> \o q) = q
  <2> DEFINE t == Tail(<<e>> \o q)
  <2>1. t \in Seq(S) /\ Len(t) = Len(q)
    BY <1>1, <1>2, HeadTailProperties
  <2>2. \A i \in 1 .. Len(q) : t[i] = q[i]
    BY <1>1, <1>2, HeadTailProperties
  <2>3. QED
    BY <2>1, <2>2, SeqEqual
<1>4. QED
  BY <1>2, <1>3

(* Nothing set aside: the queue is the channel.                            *)
LEMMA ItemsOfNone ==
    ASSUME NEW S, NEW q \in Seq(S)
    PROVE  <<>> \o q = q
  OBVIOUS

(* A send adds to the end of the queue whatever is set aside before it.    *)
LEMMA AppendAfterConcat ==
    ASSUME NEW S, NEW p \in Seq(S), NEW q \in Seq(S), NEW e \in S
    PROVE  p \o Append(q, e) = Append(p \o q, e)
<1> DEFINE a == p \o Append(q, e)
           b == Append(p \o q, e)
<1>1. a \in Seq(S) /\ b \in Seq(S) /\ Len(a) = Len(b)
  BY ConcatProperties, AppendProperties
<1>2. ASSUME NEW i \in 1 .. Len(a)
      PROVE  a[i] = b[i]
  <2>1. Append(q, e) \in Seq(S) /\ Len(Append(q, e)) = Len(q) + 1
    BY AppendProperties
  <2>2. p \o q \in Seq(S) /\ Len(p \o q) = Len(p) + Len(q)
    BY ConcatProperties
  <2>3. Len(p) \in Nat /\ Len(q) \in Nat /\ Len(a) = Len(p) + Len(q) + 1
    BY <2>1, ConcatProperties
  <2>4. CASE i <= Len(p)
    BY <2>1, <2>2, <2>3, <2>4, ConcatProperties, AppendProperties
  <2>5. CASE i > Len(p) /\ i <= Len(p) + Len(q)
    <3>1. a[i] = Append(q, e)[i - Len(p)]
      BY <2>1, <2>3, <2>5, ConcatProperties
    <3>2. i - Len(p) \in 1 .. Len(q)
      BY <2>3, <2>5
    <3>3. Append(q, e)[i - Len(p)] = q[i - Len(p)]
      BY <3>2, AppendProperties
    <3>4. b[i] = (p \o q)[i]
      BY <2>2, <2>3, <2>5, AppendProperties
    <3>5. QED
      BY <2>3, <2>5, <3>1, <3>3, <3>4, ConcatProperties
  <2>6. CASE i = Len(p) + Len(q) + 1
    <3>1. a[i] = Append(q, e)[Len(q) + 1]
      BY <2>1, <2>3, <2>6, ConcatProperties
    <3>2. QED
      BY <2>2, <2>3, <2>6, <3>1, AppendProperties
  <2>7. QED
    BY <2>3, <2>4, <2>5, <2>6
<1>3. QED
  BY <1>1, <1>2, SeqEqual

(* The queue with its set-aside message implements the plain FIFO: each    *)
(* try_enqueue, try_dequeue, has_msgs and drop of the reader is the FIFO's *)
(* operation of that name on next_item followed by rx, for every set of    *)
(* envelopes and every interleaving (queue.rs, try_dequeue and has_msgs).  *)
THEOREM QueueImplementsFifo == Spec => ImplementsFifo
<1> DEFINE items == next_item \o rx
<1>1. Init => AbstractQueue!Init
  BY DEF Init, AbstractQueue!Init
<1>2. TypeOK /\ [Next]_vars => [AbstractQueue!Next]_AbstractQueue!vars
  <2> SUFFICES ASSUME TypeOK, [Next]_vars
               PROVE  AbstractQueue!Next \/ UNCHANGED AbstractQueue!vars
    OBVIOUS
  <2>0. /\ rx \in Seq(Envelope)
        /\ next_item \in Option
        /\ next_item \in Seq(Envelope)
    BY OptionIsSeq DEF TypeOK
  <2>1. ASSUME NEW e \in Envelope, try_enqueue(e)
        PROVE  AbstractQueue!Accept(e) \/ AbstractQueue!Refuse(e)
    <3>1. items \o <<>> = items /\ next_item \o Append(rx, e) = Append(items, e)
      BY <2>0, AppendAfterConcat
    <3>2. QED
      BY <2>1, <3>1 DEF try_enqueue, AbstractQueue!Accept, AbstractQueue!Refuse
  <2>2. CASE open /\ take_next_item
    <3>1. PICK e \in Envelope : next_item = <<e>>
      BY <2>0, <2>2, OptionIsSeq DEF take_next_item
    <3>2. Head(next_item) = e
      BY <3>1
    <3>3. items # <<>> /\ Head(items) = e /\ Tail(items) = rx /\ items' = rx
      BY <2>0, <2>2, <3>1, ItemsOfSome, ItemsOfNone DEF take_next_item
    <3>4. QED
      BY <2>2, <3>2, <3>3 DEF take_next_item, AbstractQueue!Take, AbstractQueue!Next
  <2>3. CASE open /\ recv_rx
    <3>1. items = rx /\ items' = Tail(rx)
      BY <2>0, <2>3, ItemsOfNone, HeadThenTail DEF recv_rx
    <3>2. QED
      BY <2>3, <3>1 DEF recv_rx, AbstractQueue!Take, AbstractQueue!Next
  <2>4. CASE try_dequeue /\ ~dequeue
    BY <2>4 DEF try_dequeue, AbstractQueue!TakeNothing, AbstractQueue!Next
  <2>5. CASE has_msgs
    <3>1. CASE next_item # <<>>
      <4>1. items # <<>>
        BY <2>0, <3>1, OptionIsSeq, ItemsOfSome
      <4>2. QED
        BY <2>5, <3>1, <4>1 DEF has_msgs, AbstractQueue!Poll, AbstractQueue!Next
    <3>2. CASE next_item = <<>> /\ rx # <<>>
      <4>1. items = rx /\ items' = rx
        BY <2>0, <2>5, <3>2, ItemsOfNone, HeadThenTail DEF has_msgs
      <4>2. QED
        BY <2>5, <3>2, <4>1 DEF has_msgs, AbstractQueue!Poll, AbstractQueue!Next
    <3>3. CASE next_item = <<>> /\ rx = <<>>
      <4>1. items = <<>> /\ items' = <<>>
        BY <2>5, <3>3 DEF has_msgs
      <4>2. ret' = <<"has_msgs", items # <<>> >>
        BY <2>5, <3>3, <4>1, Zenon DEF has_msgs
      <4>3. QED
        BY <2>5, <3>3, <4>1, <4>2 DEF has_msgs, AbstractQueue!Poll, AbstractQueue!Next
    <3>4. QED
      BY <3>1, <3>2, <3>3
  <2>6. CASE drop_reader
    BY <2>6 DEF drop_reader, AbstractQueue!Close, AbstractQueue!Next
  <2>7. CASE UNCHANGED vars
    BY <2>7 DEF vars, AbstractQueue!vars
  <2>8. QED
    BY <2>1, <2>2, <2>3, <2>4, <2>5, <2>6, <2>7
       DEF Next, dequeue, AbstractQueue!Next
<1>3. QED
  BY <1>1, <1>2, QueueTypeOK, PTL DEF Spec, ImplementsFifo, AbstractQueue!Spec

=============================================================================
