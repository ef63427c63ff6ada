------------------------------ MODULE MCSystem ------------------------------
(* System with kids that bear the same name one after the other.           *)
EXTENDS System

OneName == [k \in Kid |-> "kid"]
=============================================================================
