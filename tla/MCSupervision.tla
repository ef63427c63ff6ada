---------------------------- MODULE MCSupervision ---------------------------
(***************************************************************************)
(* Small trees: p under the guardian of /user, c and d under p, q and r    *)
(* under the guardian.                                                     *)
(***************************************************************************)
EXTENDS Supervision

CONSTANTS user, p, q, r, c, d

MCParent == [a \in Actor \ {Guardian} |-> IF a \in {c, d} THEN p ELSE user]

(* Every actor has a name of its own.                                      *)
DistinctNames == [a \in Actor \ {Guardian} |-> a]

(* d bears the name of c, and q and r that of p.                           *)
SharedNames == [a \in Actor \ {Guardian} |-> CASE a = d -> c
                                               [] a \in {q, r} -> p
                                               [] OTHER -> a]

(* c and d are made from the same props.                                   *)
MCProps == [a \in Actor |-> IF a = d THEN c ELSE a]

=============================================================================
