------------------------------ MODULE MCMailbox -----------------------------
(* Mailbox with its user messages taken as interchangeable.                *)
EXTENDS Mailbox, TLC

MsgSymmetry == Permutations(Msg)

=============================================================================
