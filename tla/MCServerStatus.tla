--------------------------- MODULE MCServerStatus ---------------------------
(* A small instance of ServerStatus: two threads, two codes, two URLs.     *)
EXTENDS ServerStatus, TLC

CONSTANTS t1, t2, ok, notFound, hello, world

ThreadSymmetry == Permutations({t1, t2}) \cup Permutations({ok, notFound})
                    \cup Permutations({hello, world})
=============================================================================
