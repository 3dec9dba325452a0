----------------------------- MODULE MCEmphasis -----------------------------
(* Lines of up to five markers.  Of the longer ones those are left out     *)
(* that begin with a close, end with an open, or differ from another only  *)
(* in that the two characters are exchanged: a marker that nothing can     *)
(* match changes nothing.  The longest have markers of size 1 and 3 only.  *)
EXTENDS Emphasis

Markers(sizes) == {New(open, c, s) : open \in BOOLEAN, c \in Chars, s \in sizes}

Bracketed(n, sizes) ==
  {l \in [1..n -> Markers(sizes)] : l[1].open /\ l[1].char = "*" /\ ~l[n].open}

MCLines == UNION {[1..n -> Markers({1, 2, 3})] : n \in 0..2}
             \cup Bracketed(3, {1, 2, 3}) \cup Bracketed(4, {1, 2, 3}) \cup Bracketed(5, {1, 3})
=============================================================================
