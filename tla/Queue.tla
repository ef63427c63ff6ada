-------------------------------- MODULE Queue -------------------------------
(***************************************************************************)
(* src/kernel/queue.rs: a std mpsc channel whose reader side can also be   *)
(* asked whether a message is waiting.  mpsc has no such question, so      *)
(* has_msgs takes the message out of the channel and keeps it in next_item *)
(* for the dequeue that follows.  Every reader operation holds the mutex   *)
(* around QueueReaderInner to its end and is therefore one step.           *)
(***************************************************************************)
EXTENDS Naturals, Sequences

CONSTANTS Envelope,      \* a message and its sender
          QueueBound     \* bound on the length of rx, for model checking

ASSUME QueueBoundAssumption == QueueBound \in Nat

VARIABLES rx,            \* the channel: sent and not yet received
          next_item,     \* Option<Envelope>: <<>> or <<e>>
          open,          \* the Receiver has not been dropped
          ret            \* what the latest operation returned

vars == <<rx, next_item, open, ret>>

Option == {<<>>} \cup {<<e>> : e \in Envelope}

Init == /\ rx = <<>>
        /\ next_item = <<>>
        /\ open = TRUE
        /\ ret = <<"none">>

-----------------------------------------------------------------------------
(* QueueWriter::try_enqueue: send fails, and hands the message back, only  *)
(* when the receiver is gone.                                              *)
try_enqueue(e) ==
    \/ /\ open
       /\ Len(rx) < QueueBound
       /\ rx' = Append(rx, e)
       /\ ret' = <<"Ok">>
       /\ UNCHANGED <<next_item, open>>
    \/ /\ ~open
       /\ ret' = <<"EnqueueError", e>>
       /\ UNCHANGED <<rx, next_item, open>>

(* The waiting message, which both dequeue operations return first.        *)
take_next_item ==
    /\ next_item # <<>>
    /\ ret' = <<"Ok", Head(next_item)>>
    /\ next_item' = <<>>
    /\ UNCHANGED <<rx, open>>

recv_rx ==
    /\ next_item = <<>>
    /\ rx # <<>>
    /\ ret' = <<"Ok", Head(rx)>>
    /\ rx' = Tail(rx)
    /\ UNCHANGED <<next_item, open>>

(* QueueReader::dequeue blocks until there is something to return.         *)
dequeue == open /\ (take_next_item \/ recv_rx)

(* A try_dequeue that asks the channel before the message set aside.       *)
try_dequeue_channel_first ==
    /\ open
    /\ \/ /\ rx # <<>>
          /\ ret' = <<"Ok", Head(rx)>>
          /\ rx' = Tail(rx)
          /\ UNCHANGED next_item
       \/ rx = <<>> /\ take_next_item
       \/ /\ rx = <<>> /\ next_item = <<>>
          /\ ret' = <<"QueueEmpty">>
          /\ UNCHANGED <<rx, next_item>>
    /\ UNCHANGED open

try_dequeue ==
    \/ dequeue
    \/ /\ open
       /\ next_item = <<>>
       /\ rx = <<>>
       /\ ret' = <<"QueueEmpty">>
       /\ UNCHANGED <<rx, next_item, open>>

(* A has_msgs that polls the channel without looking at next_item first.   *)
has_msgs_without_check ==
    /\ open
    /\ \/ /\ rx # <<>>
          /\ next_item' = Append(next_item, Head(rx))
          /\ rx' = Tail(rx)
          /\ ret' = <<"has_msgs", TRUE>>
       \/ /\ rx = <<>>
          /\ ret' = <<"has_msgs", next_item # <<>> >>
          /\ UNCHANGED <<rx, next_item>>
    /\ UNCHANGED open

(* QueueReader::has_msgs                                                   *)
has_msgs ==
    /\ open
    /\ \/ /\ next_item # <<>>
          /\ ret' = <<"has_msgs", TRUE>>
          /\ UNCHANGED <<rx, next_item>>
       \/ /\ next_item = <<>>
          /\ rx # <<>>
          /\ next_item' = <<Head(rx)>>
          /\ rx' = Tail(rx)
          /\ ret' = <<"has_msgs", TRUE>>
       \/ /\ next_item = <<>>
          /\ rx = <<>>
          /\ ret' = <<"has_msgs", FALSE>>
          /\ UNCHANGED <<rx, next_item>>
    /\ UNCHANGED open

(* The reader is dropped with the kernel future that owns the mailbox, and *)
(* with it everything it has not returned.                                 *)
drop_reader == /\ open
               /\ open' = FALSE
               /\ rx' = <<>>
               /\ next_item' = <<>>
               /\ ret' = <<"closed">>

Next == \/ \E e \in Envelope : try_enqueue(e)
        \/ try_dequeue
        \/ has_msgs
        \/ drop_reader

Spec == Init /\ [][Next]_vars

-----------------------------------------------------------------------------
TypeOK == /\ rx \in Seq(Envelope)
          /\ next_item \in Option
          /\ open \in BOOLEAN

(* The message set aside by has_msgs stands at the front of the queue.     *)
AbstractQueue == INSTANCE Fifo WITH items <- next_item \o rx

(* The two-part queue is a FIFO: whatever mixture of has_msgs, try_dequeue *)
(* and concurrent sends, messages are returned in the order they were      *)
(* accepted, none is returned twice, none is lost to a poll, and a poll    *)
(* tells the truth (queue.rs, try_dequeue and has_msgs).                   *)
ImplementsFifo == AbstractQueue!Spec

=============================================================================
