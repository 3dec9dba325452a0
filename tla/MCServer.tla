------------------------------ MODULE MCServer ------------------------------
(* Small instances of Server: two threads stand for the pool of four, three*)
(* clients for any number, and two descriptors so that they can run out.   *)
EXTENDS Server, TLC

CONSTANTS t1, t2, c1, c2, c3

MCSymmetry == Permutations({t1, t2}) \cup Permutations({c1, c2, c3})
=============================================================================
