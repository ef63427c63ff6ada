------------------------------ MODULE MCChannel -----------------------------
(* Channel with two actors of one path, one after the other, and an actor  *)
(* of another path.                                                        *)
EXTENDS Channel

CONSTANTS s1, s2, s3, p, q

ReusedPath == s1 :> p @@ s2 :> p @@ s3 :> q

=============================================================================
