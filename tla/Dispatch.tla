------------------------------ MODULE Dispatch ------------------------------
(***************************************************************************)
(* How a request finds its handler (handlers/request_handler.cc,           *)
(* FindLongestHandlerKey, and its use in Session::do_read).  The loop      *)
(* compares every registered path with the URI, character by character as  *)
(* std::mismatch does, and keeps the longest path that matched entirely.   *)
(*                                                                         *)
(* The map is walked in an arbitrary order here; the code's is the order   *)
(* of the keys.                                                            *)
(***************************************************************************)
EXTENDS Naturals, Sequences

CONSTANTS Char,     \* the characters of paths and URIs
          Nul,      \* the character a std::string has behind its last one: none of Char
          Strings   \* the paths and URIs considered, sequences over Char

VARIABLES table,    \* the registered paths, the keys of RequestHandlers
          uri,      \* the request's URI
          todo,     \* the keys the loop has yet to visit
          key,      \* the key that is compared
          matched,  \* how many of its characters have matched
          best,     \* best_key
          pc,       \* "next", "compare" or "done"
          handler   \* the path whose handler gets the request, or Default

vars == <<table, uri, todo, key, matched, best, pc, handler>>

Default == <<>>  \* no path: the default handler

\* Slip: the end of the URI passes for a match.
UriAtEndMatches(i) == IF i <= Len(uri) THEN uri[i] ELSE key[i]

\* The character at position i of the URI, counted from 1.  std::mismatch is
\* given no end for it and relies on the terminating NUL.
UriAt(i) == IF i <= Len(uri) THEN uri[i] ELSE Nul

Init == /\ table \in SUBSET Strings
        /\ uri \in Strings
        /\ todo = table
        /\ key = <<>>
        /\ matched = 0
        /\ best = <<>>
        /\ pc = "next"
        /\ handler = Default

Visit(k) == /\ pc = "next" /\ k \in todo
            /\ todo' = todo \ {k}
            /\ key' = k
            /\ matched' = 0
            /\ pc' = "compare"
            /\ UNCHANGED <<table, uri, best, handler>>

Match == /\ pc = "compare" /\ matched < Len(key)
         /\ key[matched + 1] = UriAt(matched + 1)
         /\ matched' = matched + 1
         /\ UNCHANGED <<table, uri, todo, key, best, pc, handler>>

Mismatch == /\ pc = "compare" /\ matched < Len(key)
            /\ key[matched + 1] # UriAt(matched + 1)
            /\ pc' = "next"
            /\ UNCHANGED <<table, uri, todo, key, matched, best, handler>>

\* Slip: the last key that matches wins.
LongerOrNot(k, b) == TRUE

Longer(k, b) == Len(k) > Len(b)

WholeKey == /\ pc = "compare" /\ matched = Len(key)
            /\ best' = IF Longer(key, best) THEN key ELSE best
            /\ pc' = "next"
            /\ UNCHANGED <<table, uri, todo, key, matched, handler>>

\* do_read: the default handler if best_key is empty, otherwise the handler
\* that find(best_key) yields; find's result is used without a test.
Dispatched == /\ pc = "next" /\ todo = {}
              /\ pc' = "done"
              /\ handler' = IF best = <<>> THEN Default ELSE best
              /\ UNCHANGED <<table, uri, todo, key, matched, best>>

Next == (\E k \in Strings : Visit(k)) \/ Match \/ Mismatch \/ WholeKey \/ Dispatched

Spec == Init /\ [][Next]_vars
-----------------------------------------------------------------------------
(* The locals of the loop.                                                 *)
TypeOK == /\ table \subseteq Strings
          /\ uri \in Strings
          /\ todo \subseteq table
          /\ key \in Seq(Char)
          /\ matched \in 0..Len(key)
          /\ best \in Seq(Char)
          /\ pc \in {"next", "compare", "done"}
          /\ handler \in Seq(Char)

IsPrefixOf(k, u) == Len(k) <= Len(u) /\ \A i \in 1..Len(k) : k[i] = u[i]

(* The request goes to the handler of the longest registered path that is  *)
(* a prefix of its URI, and to the default handler only when no non-empty  *)
(* one is: "longest prefixed matched", README.md, as                       *)
(* request_handler.cc:18-30 computes it.                                   *)
LongestPrefixServes ==
  pc = "done" =>
    /\ handler # Default => handler \in table /\ IsPrefixOf(handler, uri)
    /\ \A k \in table : IsPrefixOf(k, uri) => Len(k) <= Len(handler)

(* The unbounded std::mismatch never looks beyond the terminating NUL of   *)
(* the URI, even when the path is longer (request_handler.cc:21).          *)
StopsAtNul == pc = "compare" => matched <= Len(uri)

(* do_read dereferences find(best_key) without comparing it with end()     *)
(* (server.cc:69-71): the best key is always one of the map's.             *)
BestIsRegistered == best # <<>> => best \in table
=============================================================================
