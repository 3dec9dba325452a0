------------------------------ MODULE Emphasis ------------------------------
(***************************************************************************)
(* How the Markdown library pairs the markers of emphasis in a line        *)
(* (RawText::_processBoldAndItalicSpans).  A regular expression has cut    *)
(* the line into text and into open and close markers of one to three      *)
(* asterisks or underscores.  Two nested loops match opens with closes,    *)
(* and split a marker of three for a partner of one or two; a second loop  *)
(* takes back the matches that overlap others.                             *)
(*                                                                         *)
(* The text between the markers plays no part and is left out.  Markers    *)
(* are matched to each other if and only if they share an id: mMatch and   *)
(* mId are always set together.                                            *)
(***************************************************************************)
EXTENDS Integers, Sequences, SequencesExt

CONSTANTS Chars,      \* the characters of markers
          Lines,      \* the markers of the lines considered
          MaxMarkers  \* bound on the list when a marker of size 0 makes it grow

Unmatched == -1

\* size: 1 for italics, 2 for bold, 3 for both.
New(open, c, n) ==
  [open |-> open, char |-> c, size |-> n, disabled |-> FALSE, id |-> Unmatched]

MarkerType == [open : BOOLEAN, char : Chars, size : Int, disabled : BOOLEAN, id : Int]

ASSUME EmphasisAssumption ==
  /\ MaxMarkers \in Nat
  /\ \A l \in Lines : /\ l \in Seq(MarkerType)
                      /\ \A k \in 1..Len(l) : l[k].size \in 1..3
                                              /\ l[k] = New(l[k].open, l[k].char, l[k].size)

VARIABLES line,        \* ghost: the markers as the line had them
          tgt,         \* the list of markers
          ii,          \* the iterator of the outer loop
          iii,         \* the iterator of the search for a close
          id,          \* the id of the next match
          openMatches, \* the stack of the second loop, as positions in tgt
          pc           \* "open", "close", "unmatch" or "done"

vars == <<line, tgt, ii, iii, id, openMatches, pc>>

Init == /\ line \in Lines
        /\ tgt = line
        /\ ii = 1
        /\ iii = 1
        /\ id = 0
        /\ openMatches = <<>>
        /\ pc = "open"
-----------------------------------------------------------------------------
IsUnmatchedOpen(m) == m.open /\ m.id = Unmatched /\ ~m.disabled

IsUnmatchedClose(m) == ~m.open /\ m.id = Unmatched /\ ~m.disabled

IsMatchedOpen(m) == m.open /\ m.id # Unmatched

IsMatchedClose(m) == ~m.open /\ m.id # Unmatched

\* Slip: the marker that was split stays in use.
SplitKept(k, a, b) ==
  LET m == tgt[k]
  IN  SubSeq(tgt, 1, k) \o <<New(m.open, m.char, a), New(m.open, m.char, b)>>
        \o SubSeq(tgt, k + 1, Len(tgt))

\* The marker at k is disabled and markers of a and of b characters follow it.
Split(k, a, b) ==
  LET m == tgt[k]
  IN  SubSeq(tgt, 1, k - 1)
        \o <<[m EXCEPT !.disabled = TRUE], New(m.open, m.char, a), New(m.open, m.char, b)>>
        \o SubSeq(tgt, k + 1, Len(tgt))

\* The outer loop: the next open that is to be matched.
FindOpen == /\ pc = "open" /\ ii <= Len(tgt)
            /\ IF IsUnmatchedOpen(tgt[ii]) THEN pc' = "close" /\ iii' = ii + 1 /\ UNCHANGED ii
                                           ELSE ii' = ii + 1 /\ UNCHANGED <<pc, iii>>
            /\ UNCHANGED <<line, tgt, id, openMatches>>

NextOpen == pc' = "open" /\ ii' = ii + 1

AtClose == pc = "close" /\ iii <= Len(tgt) /\ IsUnmatchedClose(tgt[iii])

ToBeSplit == tgt[iii].size = 3 /\ tgt[ii].size # 3

Fits == tgt[iii].char = tgt[ii].char /\ tgt[iii].size = tgt[ii].size

\* Slip: the search ends when it has split a close.
SplitCloseAndStop ==
  /\ AtClose /\ ToBeSplit /\ Len(tgt) < MaxMarkers
  /\ tgt' = Split(iii, tgt[iii].size - tgt[ii].size, tgt[ii].size)
  /\ NextOpen
  /\ UNCHANGED <<line, iii, id, openMatches>>

\* Slip: the leftovers keep the size of the whole.
SplitCloseWhole ==
  /\ AtClose /\ ToBeSplit /\ Len(tgt) < MaxMarkers
  /\ tgt' = Split(iii, tgt[iii].size, tgt[ii].size)
  /\ iii' = iii + 1
  /\ UNCHANGED <<line, ii, id, openMatches, pc>>

\* The search goes on with the leftovers, and comes to the part for the open.
SplitClose ==
  /\ AtClose /\ ToBeSplit /\ Len(tgt) < MaxMarkers
  /\ tgt' = Split(iii, tgt[iii].size - tgt[ii].size, tgt[ii].size)
  /\ iii' = iii + 1
  /\ UNCHANGED <<line, ii, id, openMatches, pc>>

Match == /\ AtClose /\ ~ToBeSplit /\ Fits
         /\ tgt' = [tgt EXCEPT ![ii].id = id, ![iii].id = id]
         /\ id' = id + 1
         /\ NextOpen
         /\ UNCHANGED <<line, iii, openMatches>>

\* Slip: the parts of the open have their sizes the wrong way round.
SplitOpenBackwards ==
  /\ AtClose /\ ~ToBeSplit /\ ~Fits /\ tgt[ii].size = 3
  /\ tgt' = Split(ii, tgt[iii].size - tgt[ii].size, tgt[iii].size)
  /\ NextOpen
  /\ UNCHANGED <<line, iii, id, openMatches>>

\* The two parts are the next opens of the outer loop.  The close may be one
\* for the other character, and may have the size 3 itself.
SplitOpen ==
  /\ AtClose /\ ~ToBeSplit /\ ~Fits /\ tgt[ii].size = 3
  /\ tgt' = Split(ii, tgt[ii].size - tgt[iii].size, tgt[iii].size)
  /\ NextOpen
  /\ UNCHANGED <<line, iii, id, openMatches>>

PassOver == /\ pc = "close" /\ iii <= Len(tgt)
            /\ ~AtClose \/ (~ToBeSplit /\ ~Fits /\ tgt[ii].size # 3)
            /\ iii' = iii + 1
            /\ UNCHANGED <<line, tgt, ii, id, openMatches, pc>>

GiveUp == /\ pc = "close" /\ iii > Len(tgt)
          /\ NextOpen
          /\ UNCHANGED <<line, tgt, iii, id, openMatches>>
-----------------------------------------------------------------------------
EndOfOpens == /\ pc = "open" /\ ii > Len(tgt)
              /\ pc' = "unmatch" /\ ii' = 1
              /\ UNCHANGED <<line, tgt, iii, id, openMatches>>

InUnmatch == pc = "unmatch" /\ ii <= Len(tgt)

PushOpen == /\ InUnmatch /\ IsMatchedOpen(tgt[ii])
            /\ openMatches' = Append(openMatches, ii)
            /\ ii' = ii + 1
            /\ UNCHANGED <<line, tgt, iii, id, pc>>

\* Slip: any match of the same kind will do.
IsTopKind == tgt[ii].size = tgt[Last(openMatches)].size

\* top() is called without a test; see MateIsOnStack.
IsTop == tgt[ii].id = tgt[Last(openMatches)].id

\* Slip: only the close forgets its match.
UnmatchClose == /\ InUnmatch /\ IsMatchedClose(tgt[ii]) /\ ~IsTop
                /\ tgt' = [tgt EXCEPT ![ii].id = Unmatched]
                /\ ii' = ii + 1
                /\ UNCHANGED <<line, iii, id, openMatches, pc>>

Unmatch == /\ InUnmatch /\ IsMatchedClose(tgt[ii]) /\ ~IsTop
           /\ tgt' = [k \in 1..Len(tgt) |-> IF tgt[k].id = tgt[ii].id
                                              THEN [tgt[k] EXCEPT !.id = Unmatched]
                                              ELSE tgt[k]]
           /\ ii' = ii + 1
           /\ UNCHANGED <<line, iii, id, openMatches, pc>>

\* Behind the match that is closed, the opens go that have lost theirs.
PopOpens == /\ InUnmatch /\ IsMatchedClose(tgt[ii]) /\ IsTop
            /\ \E n \in 0..(Len(openMatches) - 1) :
                 /\ n > 0 => tgt[openMatches[n]].id # Unmatched
                 /\ \A k \in (n + 1)..(Len(openMatches) - 1) : tgt[openMatches[k]].id = Unmatched
                 /\ openMatches' = SubSeq(openMatches, 1, n)
            /\ ii' = ii + 1
            /\ UNCHANGED <<line, tgt, iii, id, pc>>

Skip == /\ InUnmatch /\ tgt[ii].id = Unmatched
        /\ ii' = ii + 1
        /\ UNCHANGED <<line, tgt, iii, id, openMatches, pc>>

Return == /\ pc = "unmatch" /\ ii > Len(tgt)
          /\ pc' = "done"
          /\ UNCHANGED <<line, tgt, ii, iii, id, openMatches>>

Next == \/ FindOpen \/ SplitClose \/ Match \/ SplitOpen \/ PassOver \/ GiveUp
        \/ EndOfOpens \/ PushOpen \/ Unmatch \/ PopOpens \/ Skip \/ Return

Spec == Init /\ [][Next]_vars

\* One thread runs the loops from beginning to end.
FairSpec == Spec /\ WF_vars(Next)
-----------------------------------------------------------------------------
\* An open of size 3 that meets a close of size 3 for the other character
\* leaves an open of size 0, and that splits the close for ever.
Runaway == \E k \in 1..Len(tgt) : tgt[k].size = 0

(* The locals of the function.                                             *)
TypeOK == /\ line \in Lines
          /\ tgt \in Seq([open : BOOLEAN, char : Chars, size : 0..3, disabled : BOOLEAN,
                          id : Unmatched..(id - 1)])
          /\ ii \in 1..(Len(tgt) + 1)
          /\ iii \in 1..(Len(tgt) + 1)
          /\ id \in Nat
          /\ openMatches \in Seq(1..Len(tgt))
          /\ pc \in {"open", "close", "unmatch", "done"}

Paired(k, l) == /\ k < l
                /\ IsMatchedOpen(tgt[k]) /\ IsMatchedClose(tgt[l])
                /\ tgt[k].id = tgt[l].id

(* openMatches.top() is called for every matched close without a test for  *)
(* an empty stack, and close->matchedTo() is written through: the open of  *)
(* the pair is always still on the stack (markdown-tokens.cpp:564-580).    *)
MateIsOnStack ==
  InUnmatch /\ IsMatchedClose(tgt[ii]) =>
    \E n \in 1..Len(openMatches) : Paired(openMatches[n], ii)

(* The tags of the finished line are well formed: every matched marker has *)
(* a partner of its own character and size, and no two pairs overlap.      *)
(* "Unmatch invalidly-nested matches", markdown-tokens.cpp:562, although   *)
(* the matches are made without regard to each other.                      *)
WellNested ==
  pc = "done" =>
    /\ \A k \in 1..Len(tgt) : tgt[k].id # Unmatched =>
         \E l \in 1..Len(tgt) :
           /\ Paired(k, l) \/ Paired(l, k)
           /\ tgt[k].size = tgt[l].size /\ tgt[k].char = tgt[l].char
    /\ \A k, l, m, n \in 1..Len(tgt) : Paired(k, m) /\ Paired(l, n) => ~(k < l /\ l < m /\ m < n)

\* How many characters c the markers stand for that will be written.
Weight(m, c) == IF m.char = c /\ ~m.disabled THEN m.size ELSE 0

Written(markers, c) ==
  LET upTo[n \in 0..Len(markers)] == IF n = 0 THEN 0 ELSE upTo[n - 1] + Weight(markers[n], c)
  IN  upTo[Len(markers)]

(* However often markers are split, their characters are written once, as  *)
(* tags or as themselves: none gets lost and none appears twice            *)
(* (markdown-tokens.cpp:518-533, 542-556 and 737-748).                     *)
MarkersKept == \A c \in Chars : Written(tgt, c) = Written(line, c)

(* When the search is over, no open is left without a match while a close  *)
(* of its character and size behind it is left too, although splitting     *)
(* makes new markers before and behind both iterators.                     *)
NoneOverlooked ==
  pc = "unmatch" /\ ii = 1 =>
    \A k, l \in 1..Len(tgt) :
      k < l /\ IsUnmatchedOpen(tgt[k]) /\ IsUnmatchedClose(tgt[l]) =>
        tgt[k].char # tgt[l].char \/ tgt[k].size # tgt[l].size

(* The list grows while it is walked, and still the loops end, unless a    *)
(* marker of size 0 comes up (markdown-tokens.cpp:510-560).                *)
Terminates == <>(pc = "done" \/ Runaway)
=============================================================================
