-------------------------------- MODULE Fifo --------------------------------
(***************************************************************************)
(* What a mailbox promises of each of its two queues: an unbounded FIFO    *)
(* with many writers and one reader, that refuses writers once the reader  *)
(* is gone.  Polling it never disturbs its content.                        *)
(***************************************************************************)
EXTENDS Sequences

CONSTANT Envelope        \* what a queue holds: a message and its sender

VARIABLES items,         \* accepted and not yet taken, oldest first
          open,          \* the reader still exists
          ret            \* what the latest operation returned

vars == <<items, open, ret>>

Init == /\ items = <<>>
        /\ open = TRUE
        /\ ret = <<"none">>

Accept(e) == /\ open
             /\ items' = Append(items, e)
             /\ ret' = <<"Ok">>
             /\ UNCHANGED open

Refuse(e) == /\ ~open
             /\ ret' = <<"EnqueueError", e>>
             /\ UNCHANGED <<items, open>>

Take == /\ open
        /\ items # <<>>
        /\ items' = Tail(items)
        /\ ret' = <<"Ok", Head(items)>>
        /\ UNCHANGED open

TakeNothing == /\ open
               /\ items = <<>>
               /\ ret' = <<"QueueEmpty">>
               /\ UNCHANGED <<items, open>>

Poll == /\ open
        /\ ret' = <<"has_msgs", items # <<>> >>
        /\ UNCHANGED <<items, open>>

Close == /\ open
         /\ open' = FALSE
         /\ items' = <<>>
         /\ ret' = <<"closed">>

Next == \/ \E e \in Envelope : Accept(e) \/ Refuse(e)
        \/ Take
        \/ TakeNothing
        \/ Poll
        \/ Close

Spec == Init /\ [][Next]_vars

=============================================================================
