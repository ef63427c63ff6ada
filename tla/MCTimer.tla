------------------------------- MODULE MCTimer ------------------------------
EXTENDS Timer

(* A time in the past and one in the future.                               *)
Times == {0 - 1, 3}

=============================================================================
