------------------------------ MODULE MCLibrary -----------------------------
(* Small libraries for TLC: values for the constants of Library.           *)
EXTENDS LibraryStore, TLC

CONSTANTS g, a, b, long  \* model values: .global, two short names, a long one

MCSymmetry == Permutations({a, b})
MCTruncated == [n \in LongNames |-> a]

(* 108 is the shortest string that does not fit in a new bucket; 300 takes *)
(* two turns of the restart loop.                                          *)
MCPathLen == [p \in Paths |-> CASE p = 1 -> 108 [] p = 2 -> 20 [] OTHER -> 300]
(* Long paths: the file passes the end of its first page.                  *)
MCLongPathLen == [p \in Paths |-> CASE p = 1 -> 900 [] p = 2 -> 20 [] OTHER -> 1500]
(* The first path takes the file past its first page from any length. *)
MCPagePathLen == [p \in Paths |-> IF p = 1 THEN 2400 ELSE 108]
=============================================================================
