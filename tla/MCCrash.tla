------------------------------- MODULE MCCrash ------------------------------
(* One small library for TLC: values for the constants of LibraryCrash.    *)
EXTENDS LibraryCrash

MCTruncated == [n \in LongNames |-> Global]
(* 108 is the shortest path that does not fit in a new bucket. *)
MCPathLen == [p \in Paths |-> CASE p = 1 -> 108 [] p = 2 -> 20 [] OTHER -> 300]
=============================================================================
