-------------------------- MODULE MCRequestParser --------------------------
(* Two threads and the requests the parser takes different paths for.      *)
EXTENDS RequestParser, TLC

CONSTANTS t1, t2

Message(n, hs) == [line |-> TRUE, fields |-> n, head |-> TRUE, headers |-> hs]

MCRequests == { Message(3, <<>>), Message(0, <<>>), Message(2, <<>>), Message(4, <<"pair">>),
                Message(3, <<"pair", "none">>), Message(3, <<"pair", "bare">>),
                [Message(3, <<>>) EXCEPT !.head = FALSE],
                [Message(3, <<>>) EXCEPT !.line = FALSE] }

MCSymmetry == Permutations(Threads)
=============================================================================
