--------------------------- MODULE MarkdownProofs ---------------------------
(***************************************************************************)
(* Theorems about the Markdown library: about Markdown, for documents of   *)
(* any length whose lines have any number of markers, and about Emphasis,  *)
(* for lines of any length.                                                *)
(***************************************************************************)
EXTENDS Markdown, Emphasis, SequenceTheorems, WellFoundedInduction, TLAPS
(* The inductive invariant of Markdown.                                    *)
\* The lines of s come before the tokens of t from the i-th on.
Precedes(s, t, i) ==
  \A q \in 1..Len(s), p \in i..Len(t) : s[q].n # 0 /\ t[p].n # 0 => s[q].n < t[p].n

\* Up to the blocks the tokens are the lines as they were read.
ReadInv ==
  pass \in {"read", "html"} =>
    /\ Len(tokens) = Len(doc)
    /\ \A k \in 1..Len(doc) :
         tokens[k] = Token(IF IsBlank(doc[k]) THEN "blank" ELSE "text", k, doc[k], 0, "page")
    /\ parsing = "none" /\ found = <<>> /\ lists = <<>> /\ failure = "none"
    /\ pass = "read" => next = 1 /\ processed = <<>> /\ aside = {}

\* When a pass has tokens in found.
StateInv == /\ parsing = "none" /\ pass # "paragraphs" => found = <<>>
            /\ parsing # "none" => pass = "blocks"

\* The token from which on none is in found yet.
From == IF pass = "paragraphs" THEN next ELSE at

(* The lines are in order within and between what has been put out, what   *)
(* has been found and what is ahead.                                       *)
OrderInv == /\ Ordered(tokens) /\ Ordered(processed) /\ Ordered(found)
            /\ Precedes(processed, tokens, next)
            /\ Below(processed, found)
            /\ found # <<>> => Precedes(found, tokens, From)

\* The types, the order of the lines, and what they rest on.
CoreInv == DocTypeOK /\ ReadInv /\ StateInv /\ OrderInv

-----------------------------------------------------------------------------
(* Lines and iterators.                                                    *)
LEMMA LeastNumber ==
  ASSUME NEW S, S \subseteq Nat, S # {}
  PROVE  \E n \in S : \A m \in S : n <= m
<1> DEFINE less == {p \in Nat \X Nat : p[1] < p[2]}
<1>1. IsWellFoundedOn(less, Nat)
  BY NatLessThanWellFounded DEF OpToRel
<1>2. \A x, y \in Nat : <<x, y>> \in less <=> x < y
  OBVIOUS
<1> HIDE DEF less
<1>3. \E x \in S : \A y \in S : <<y, x>> \notin less
  BY <1>1, WFMin
<1>4. \A x, y \in Nat : x <= y \/ y < x
  OBVIOUS
<1> QED
  BY <1>2, <1>3, <1>4

-----------------------------------------------------------------------------
(* The operators of the model.                                             *)
LEMMA LineTypes ==
  ASSUME NEW l \in Seq(LineMarker)
  PROVE  /\ Empty \in Seq(LineMarker)
         /\ Stripped(l) \in Seq(LineMarker) /\ Len(Stripped(l)) = Len(l)
         /\ Indent(l) \in Nat
         /\ l # Empty => Len(l) > 0 /\ l[1] \in LineMarker
<1>1. l # Empty => Len(l) > 0 /\ l[1] \in LineMarker
  BY DEF Empty
<1>2. l # Empty => l[1].indent \in Nat
  BY <1>1 DEF LineMarker
<1>3. l # Empty => Stripped(l) \in Seq(LineMarker) /\ Len(Stripped(l)) = Len(l)
  <2> SUFFICES ASSUME l # Empty PROVE Stripped(l) \in Seq(LineMarker) /\ Len(Stripped(l)) = Len(l)
    OBVIOUS
  <2>1. [l[1] EXCEPT !.indent = 0] \in LineMarker
    BY <1>1 DEF LineMarker
  <2>2. Stripped(l) = [l EXCEPT ![1] = [l[1] EXCEPT !.indent = 0]]
    BY DEF Stripped
  <2> QED
    BY <1>1, <2>1, <2>2, ExceptSeq
<1>4. Empty \in Seq(LineMarker)
  BY DEF Empty
<1> QED
  BY <1>1, <1>3, <1>4, <1>2 DEF Stripped, Indent

\* The line without its first markers.
LEMMA BehindType ==
  ASSUME NEW l \in Seq(LineMarker), NEW n \in Nat
  PROVE  /\ Behind(n, l) \in Seq(LineMarker)
         /\ n <= Len(l) => /\ Len(Behind(n, l)) = Len(l) - n
                           /\ \A i \in 1..(Len(l) - n) : Behind(n, l)[i] = l[i + n]
BY SubSeqProperties DEF Behind

\* CHOOSE finds the markers of quotes at the beginning of a line.
LEMMA QuoteLevelType ==
  ASSUME NEW l \in Seq(LineMarker)
  PROVE  /\ QuoteLevel(l) \in 0..Len(l)
         /\ \A m \in 1..QuoteLevel(l) : IsQuote(l, m)
<1> DEFINE Stop(k) == k < Len(l) => ~IsQuote(l, k + 1)
           S == {k \in 0..Len(l) : Stop(k)}
<1>1. Len(l) \in S /\ S \subseteq Nat
  OBVIOUS
<1>2. PICK k \in S : \A m \in S : k <= m
  BY <1>1, LeastNumber
<1>3. ASSUME NEW m \in 1..k PROVE IsQuote(l, m)
  <2>1. m - 1 \notin S /\ m - 1 \in 0..Len(l)
    BY <1>2, <1>3
  <2> QED
    BY <1>2, <1>3, <2>1
<1>4. k \in 0..Len(l) /\ (\A m \in 1..k : IsQuote(l, m)) /\ Stop(k)
  BY <1>2, <1>3
<1> QED
  BY <1>4 DEF QuoteLevel

\* One step of an iterator over a token, and the tokens in it.
LEMMA ResumeType ==
  ASSUME DocTypeOK, NEW i \in 1..(Len(tokens) + 1), next \in 1..Len(tokens)
  PROVE  /\ Resume(i) \in i..(Len(tokens) + 1)
         /\ AtEnd(i) => Resume(i) = i
         /\ ~AtEnd(i) => /\ Resume(i) \in (i + 1)..(Len(tokens) + 1)
                         /\ Resume(i) <= Len(tokens) => tokens[Resume(i)].depth <= tokens[i].depth
                         /\ \A k \in (i + 1)..(Resume(i) - 1) : tokens[k].depth > tokens[i].depth
         /\ ~AtEnd(i) /\ (i < Len(tokens) => tokens[i + 1].depth <= tokens[i].depth) =>
              Resume(i) = i + 1
<1> DEFINE Out(j) == j <= Len(tokens) => tokens[j].depth <= tokens[i].depth
           In(j) == \A k \in (i + 1)..(j - 1) : tokens[k].depth > tokens[i].depth
           S == {j \in (i + 1)..(Len(tokens) + 1) : Out(j)}
<1>1. Len(tokens) \in Nat /\ \A j \in 1..Len(tokens) : tokens[j].depth \in Nat
  <2>1. Len(tokens) \in Nat /\ \A j \in 1..Len(tokens) : tokens[j] \in TokenType
    BY DEF DocTypeOK
  <2> QED
    BY <2>1 DEF TokenType
<1>2. SUFFICES ASSUME ~AtEnd(i)
               PROVE  /\ Resume(i) \in (i + 1)..(Len(tokens) + 1)
                      /\ Out(Resume(i)) /\ In(Resume(i))
                      /\ Out(i + 1) => Resume(i) = i + 1
  BY <1>1 DEF Resume
<1>3. i <= Len(tokens)
  BY <1>2 DEF AtEnd
<1>4. Len(tokens) + 1 \in S /\ S \subseteq Nat
  BY <1>1, <1>3
<1>5. PICK j \in S : \A m \in S : j <= m
  BY <1>4, LeastNumber
<1>6. In(j)
  <2>1. SUFFICES ASSUME NEW k \in (i + 1)..(j - 1) PROVE tokens[k].depth > tokens[i].depth
    OBVIOUS
  <2>2. k \in (i + 1)..Len(tokens) /\ k \notin S
    BY <1>1, <1>5
  <2> QED
    BY <1>1, <1>3, <2>2
<1>7. Resume(i) = CHOOSE m \in (i + 1)..(Len(tokens) + 1) : Out(m) /\ In(m)
  BY <1>2 DEF Resume
<1>8. /\ Resume(i) \in (i + 1)..(Len(tokens) + 1)
      /\ Out(Resume(i)) /\ In(Resume(i))
  <2>1. \E m \in (i + 1)..(Len(tokens) + 1) : Out(m) /\ In(m)
    BY <1>5, <1>6
  <2> HIDE DEF Out, In
  <2> QED
    BY <1>7, <2>1
<1>9. ASSUME Out(i + 1) PROVE Resume(i) = i + 1
  <2>1. CASE Resume(i) > i + 1
    <3>1. i + 1 \in (i + 1)..(Resume(i) - 1) /\ i + 1 <= Len(tokens)
      BY <1>1, <1>8, <2>1
    <3>2. tokens[i + 1].depth > tokens[i].depth /\ tokens[i + 1].depth <= tokens[i].depth
      BY <1>8, <1>9, <3>1
    <3> QED
      BY <1>1, <1>3, <3>1, <3>2
  <2> QED
    BY <1>1, <1>8, <2>1
<1> QED
  BY <1>8, <1>9

\* CHOOSE finds the end of inline HTML.
LEMMA HtmlEndType ==
  ASSUME DocTypeOK, next \in 1..Len(tokens)
  PROVE  HtmlEnd \in next..Len(tokens)
<1> DEFINE S == {j \in next..Len(tokens) : EndsHtml(j)}
<1>1. Len(tokens) \in Nat
  BY DEF DocTypeOK
<1>2. Len(tokens) \in S /\ S \subseteq Nat
  BY <1>1 DEF EndsHtml
<1>3. PICK j \in S : \A m \in S : j <= m
  BY <1>2, LeastNumber
<1>4. \A k \in next..(j - 1) : ~EndsHtml(k)
  BY <1>1, <1>3
<1> QED
  BY <1>3, <1>4 DEF HtmlEnd

-----------------------------------------------------------------------------
(* The tokens that are made, and their types.                              *)
LEMMA TokenMade ==
  ASSUME NEW type \in Classes, NEW n \in Nat, NEW l \in Seq(LineMarker), NEW depth \in Nat,
         NEW within \in Places
  PROVE  Token(type, n, l, depth, within) \in TokenType
BY DEF Token, TokenType

LEMMA ContainerMade ==
  ASSUME NEW type \in Classes, NEW depth \in Nat, NEW within \in Places
  PROVE  Container(type, depth, within) \in TokenType
BY DEF Token, TokenType, Container, Empty

LEMMA InnerMade ==
  ASSUME NEW type \in Classes, NEW l \in Seq(LineMarker), NEW depth \in Nat,
         NEW within \in Places, NEW t \in TokenType
  PROVE  Inner(type, t, l, depth, within) \in TokenType
BY DEF Inner, Token, TokenType

LEMMA AsMade ==
  ASSUME NEW type \in Classes, NEW t \in TokenType
  PROVE  As(type, t) \in TokenType
<1>1. Empty \in Seq(LineMarker)
  BY DEF Empty
<1> QED
  BY <1>1 DEF As, TokenType

LEMMA TokenFields ==
  ASSUME NEW type, NEW n, NEW l, NEW depth, NEW within
  PROVE  /\ Token(type, n, l, depth, within).type = type
         /\ Token(type, n, l, depth, within).n = n
         /\ Token(type, n, l, depth, within).line = l
         /\ Token(type, n, l, depth, within).depth = depth
         /\ Token(type, n, l, depth, within).within = within
BY DEF Token

LEMMA ContainerFields ==
  ASSUME NEW type, NEW depth, NEW within
  PROVE  /\ Container(type, depth, within).type = type
         /\ Container(type, depth, within).n = 0
         /\ Container(type, depth, within).line = Empty
         /\ Container(type, depth, within).depth = depth
         /\ Container(type, depth, within).within = within
BY DEF Token, Container

LEMMA InnerFields ==
  ASSUME NEW type, NEW l, NEW depth, NEW within, NEW t
  PROVE  /\ Inner(type, t, l, depth, within).type = type
         /\ Inner(type, t, l, depth, within).n = t.n
         /\ Inner(type, t, l, depth, within).line = l
         /\ Inner(type, t, l, depth, within).depth = depth
         /\ Inner(type, t, l, depth, within).within = within
BY DEF Token, Inner

LEMMA AsFields ==
  ASSUME NEW type, NEW t \in TokenType
  PROVE  /\ As(type, t).type = type /\ As(type, t).n = t.n
         /\ As(type, t).line = Empty /\ As(type, t).depth = t.depth /\ As(type, t).within = t.within
BY DEF As, TokenType

LEMMA Appending ==
  ASSUME NEW s \in Seq(TokenType), NEW x \in TokenType
  PROVE  Append(s, x) = s \o <<x>> /\ <<x>> \in Seq(TokenType)
<1>1. <<x>> \in Seq(TokenType)
  OBVIOUS
<1> QED
  BY <1>1, AppendIsConcat

LEMMA TypeFacts ==
  ASSUME DocTypeOK
  PROVE  /\ Len(tokens) \in Nat /\ \A i \in 1..Len(tokens) : tokens[i] \in TokenType
         /\ \A i \in 1..Len(tokens) : /\ tokens[i].type \in Classes /\ tokens[i].n \in Nat
                                      /\ tokens[i].line \in Seq(LineMarker)
                                      /\ tokens[i].depth \in Nat /\ tokens[i].within \in Places
         /\ Len(processed) \in Nat /\ \A i \in 1..Len(processed) : processed[i] \in TokenType
         /\ Len(found) \in Nat /\ \A i \in 1..Len(found) : found[i] \in TokenType
         /\ Len(lists) \in Nat /\ \A i \in 1..Len(lists) : lists[i] \in ListType
         /\ Len(doc) \in Nat /\ \A i \in 1..Len(doc) : doc[i] \in SourceLines
         /\ next \in Nat \ {0}
<1>1. /\ Len(tokens) \in Nat /\ \A i \in 1..Len(tokens) : tokens[i] \in TokenType
      /\ Len(processed) \in Nat /\ \A i \in 1..Len(processed) : processed[i] \in TokenType
      /\ Len(found) \in Nat /\ \A i \in 1..Len(found) : found[i] \in TokenType
      /\ Len(lists) \in Nat /\ \A i \in 1..Len(lists) : lists[i] \in ListType
      /\ Len(doc) \in Nat /\ \A i \in 1..Len(doc) : doc[i] \in SourceLines
      /\ next \in Nat \ {0}
  BY DEF DocTypeOK
<1>2. \A i \in 1..Len(tokens) : /\ tokens[i].type \in Classes /\ tokens[i].n \in Nat
                                /\ tokens[i].line \in Seq(LineMarker)
                                /\ tokens[i].depth \in Nat /\ tokens[i].within \in Places
  BY <1>1 DEF TokenType
<1> QED
  BY <1>1, <1>2

\* The tokens that the iterators of the passes and parse functions point to.
LEMMA CurrentType ==
  ASSUME DocTypeOK, next <= Len(tokens)
  PROVE  /\ Current \in TokenType
         /\ Current.depth \in Nat /\ Current.within \in Places /\ Current.n \in Nat
         /\ Current.line \in Seq(LineMarker) /\ Current.type \in Classes
         /\ Level \in Nat /\ Level <= Len(Current.line)
<1>1. next \in 1..Len(tokens)
  BY TypeFacts
<1>2. tokens[next].line \in Seq(LineMarker)
  BY <1>1, TypeFacts
<1> QED
  BY <1>1, <1>2, TypeFacts, QuoteLevelType DEF Current, Level

LEMMA AheadType ==
  ASSUME DocTypeOK, parsing # "none"
  PROVE  /\ next \in 1..Len(tokens)
         /\ at \in (next + 1)..(Len(tokens) + 1)
         /\ at \in Nat
         /\ Ahead = at \/ Ahead = at + 1
         /\ Ahead \in at..(Len(tokens) + 1)
         /\ ~AtEnd(at) => at \in (next + 1)..Len(tokens)
         /\ ~AtEnd(Ahead) => Ahead \in (next + 1)..Len(tokens)
         /\ AtBlank <=> Ahead = at + 1
         /\ AtBlank => ~AtEnd(at)
<1>1. at \in (next + 1)..(Len(tokens) + 1) /\ Len(tokens) \in Nat /\ next \in Nat \ {0}
  BY TypeFacts DEF DocTypeOK
<1>2. \A i \in Nat : i <= Len(tokens) \/ AtEnd(i)
  BY <1>1 DEF AtEnd
<1>3. ~AtEnd(at) => at \in (next + 1)..Len(tokens)
  BY <1>1, <1>2
<1>4. AtBlank => ~AtEnd(at)
  BY DEF AtBlank
<1>5. Ahead = IF AtBlank THEN at + 1 ELSE at
  BY DEF Ahead
<1> QED
  BY <1>1, <1>2, <1>3, <1>4, <1>5

LEMMA QuotedType ==
  ASSUME DocTypeOK, next <= Len(tokens), NEW t \in TokenType, NEW type \in Classes
  PROVE  Quoted(type, t) \in TokenType
<1>1. t.line \in Seq(LineMarker)
  BY DEF TokenType
<1>2. Behind(Level, t.line) \in Seq(LineMarker)
  BY <1>1, CurrentType, BehindType
<1>3. Current.depth + 1 \in Nat /\ "quote" \in Places
  BY CurrentType DEF Places
<1> QED
  BY <1>2, <1>3, InnerMade DEF Quoted

LEMMA GapType ==
  ASSUME DocTypeOK, parsing # "none", ~AtEnd(at), NEW depth \in Nat, NEW within \in Places
  PROVE  Inner("blank", tokens[at], Empty, depth, within) \in TokenType
<1>1. tokens[at] \in TokenType /\ Empty \in Seq(LineMarker) /\ "blank" \in Classes
  BY AheadType, TypeFacts DEF Empty, Classes
<1> QED
  BY <1>1, InnerMade

\* The text of an item has at most the blank that was taken back.
LEMMA ItemTextType ==
  ASSUME NEW l \in Seq(LineMarker)
  PROVE  /\ ItemText(l) \in Seq(LineMarker)
         /\ Indent(ItemText(l)) \in {0, 1}
<1> DEFINE text == Behind(1, l)
<1>1. text \in Seq(LineMarker) /\ Empty \in Seq(LineMarker)
  BY BehindType DEF Empty
<1>2. Stripped(text) \in Seq(LineMarker) /\ Indent(Stripped(text)) = 0
  <2>1. Stripped(text) \in Seq(LineMarker) /\ (text # Empty => Len(text) > 0 /\ text[1] \in LineMarker)
    BY <1>1, LineTypes
  <2>2. text # Empty => [text EXCEPT ![1].indent = 0][1].indent = 0
    BY <1>1, <2>1 DEF LineMarker
  <2> HIDE DEF text
  <2> QED
    BY <2>1, <2>2 DEF Stripped, Indent
<1>3. ASSUME text # Empty PROVE /\ [text EXCEPT ![1].indent = 1] \in Seq(LineMarker)
                                /\ Indent([text EXCEPT ![1].indent = 1]) = 1
  <2>1. Len(text) > 0 /\ text[1] \in LineMarker
    BY <1>1, <1>3, LineTypes
  <2>2. [text[1] EXCEPT !.indent = 1] \in LineMarker /\ [text[1] EXCEPT !.indent = 1].indent = 1
    BY <2>1 DEF LineMarker
  <2> DEFINE w == [text EXCEPT ![1] = [text[1] EXCEPT !.indent = 1]]
  <2>3. w \in Seq(LineMarker) /\ w[1] = [text[1] EXCEPT !.indent = 1] /\ Len(w) = Len(text)
    BY <1>1, <2>1, <2>2, ExceptSeq
  <2>4. w # Empty
    BY <2>1, <2>3 DEF Empty
  <2> HIDE DEF w
  <2>5. Indent(w) = 1
    BY <2>2, <2>3, <2>4 DEF Indent
  <2> QED
    BY <2>3, <2>5 DEF w
<1>4. Kind(text) \in TakesBlank => text # Empty
  BY DEF Kind, TakesBlank
<1>5. Indent(Empty) = 0
  BY DEF Indent
<1> HIDE DEF text
<1>6. ItemText(l) \in {Stripped(text), Empty} \/ (text # Empty /\ ItemText(l) = [text EXCEPT ![1].indent = 1])
  BY <1>4 DEF ItemText, text
<1> QED
  BY <1>1, <1>2, <1>3, <1>5, <1>6

LEMMA ItemType ==
  ASSUME NEW t \in TokenType, NEW depth \in Nat \ {0}
  PROVE  /\ Item(t, depth) \in Seq(TokenType)
         /\ Len(Item(t, depth)) = 2
         /\ Item(t, depth)[1] = Container("item", depth - 1, "list")
         /\ Item(t, depth)[2] = Inner("text", t, ItemText(t.line), depth, "item")
<1>1. t.line \in Seq(LineMarker) /\ "item" \in Classes /\ "list" \in Places
      /\ "text" \in Classes /\ "item" \in Places /\ depth - 1 \in Nat
  BY DEF TokenType, Classes, Places
<1>2. ItemText(t.line) \in Seq(LineMarker)
  BY <1>1, ItemTextType
<1>3. Container("item", depth - 1, "list") \in TokenType
  BY <1>1, ContainerMade
<1>4. Inner("text", t, ItemText(t.line), depth, "item") \in TokenType
  BY <1>1, <1>2, InnerMade
<1> QED
  BY <1>3, <1>4 DEF Item

LEMMA ListsType ==
  ASSUME DocTypeOK, Len(lists) > 0
  PROVE  /\ Of \in LineMarker /\ Of.indent \in Nat /\ Of.kind \in Kinds
         /\ OneMore \in Seq(ListType) /\ Len(OneMore) = Len(lists)
         /\ \A l \in Seq(LineMarker) : l # Empty => ListOf(l) \in ListType
<1>1. /\ lists \in Seq(ListType)
      /\ Len(lists) \in 1..Len(lists)
      /\ lists[Len(lists)] \in ListType
  BY TypeFacts DEF DocTypeOK
<1>2. Of \in LineMarker
  BY <1>1 DEF Of, Last, ListType
<1>3. [lists[Len(lists)] EXCEPT !.count = @ + 1] \in ListType
  BY <1>1 DEF ListType
<1>4. OneMore = [lists EXCEPT ![Len(lists)] = [lists[Len(lists)] EXCEPT !.count = @ + 1]]
  BY DEF OneMore
<1>5. OneMore \in Seq(ListType) /\ Len(OneMore) = Len(lists)
  BY <1>1, <1>3, <1>4, ExceptSeq
<1>6. ASSUME NEW l \in Seq(LineMarker), l # Empty PROVE ListOf(l) \in ListType
  <2>1. l[1] \in LineMarker
    BY <1>6, LineTypes
  <2> QED
    BY <2>1 DEF ListOf, ListType
<1> QED
  BY <1>2, <1>5, <1>6 DEF LineMarker

-----------------------------------------------------------------------------
(* The types of the passes before that over blocks.                        *)
LEMMA SourceLineType ==
  ASSUME NEW l \in SourceLines
  PROVE  l \in Seq(LineMarker)
<1>1. SourceLines \subseteq Seq(LineMarker)
  BY LineAssumption
<1> QED
  BY <1>1

\* Reading keeps the types, and the tokens are the lines.
LEMMA ReadStepType ==
  ASSUME DocTypeOK, ReadInv, NEW l \in SourceLines, ReadLine(l)
  PROVE  DocTypeOK' /\ ReadInv'
<1>1. l \in Seq(LineMarker)
  BY SourceLineType
<1> USE DEF ReadLine, parser
<1>2. /\ Len(doc') = Len(doc) + 1 /\ doc' \in Seq(SourceLines)
      /\ \A k \in 1..Len(doc) : doc'[k] = doc[k]
      /\ doc'[Len(doc) + 1] = l
  BY AppendProperties DEF DocTypeOK
<1> DEFINE t == Token(IF IsBlank(l) THEN "blank" ELSE "text", Len(doc) + 1, l, 0, "page")
<1>3. t \in TokenType
  <2>1. "blank" \in Classes /\ "text" \in Classes /\ "page" \in Places /\ Len(doc) + 1 \in Nat
    BY TypeFacts DEF Classes, Places
  <2> QED
    BY <1>1, <2>1, TokenMade
<1>4. tokens' = Append(tokens, t)
  OBVIOUS
<1> HIDE DEF t
<1>5. /\ tokens' \in Seq(TokenType) /\ Len(tokens') = Len(tokens) + 1
      /\ \A k \in 1..Len(tokens) : tokens'[k] = tokens[k]
      /\ tokens'[Len(tokens) + 1] = t
  BY <1>3, <1>4, AppendProperties DEF DocTypeOK
<1>6. Len(tokens) = Len(doc) /\ Len(doc) \in Nat /\ aside = {} /\ parsing = "none" /\ next = 1
  BY TypeFacts DEF ReadInv
<1>7. DocTypeOK'
  BY <1>2, <1>5, <1>6 DEF DocTypeOK
<1>8. \A k \in 1..Len(doc') :
        tokens'[k] = Token(IF IsBlank(doc'[k]) THEN "blank" ELSE "text", k, doc'[k], 0, "page")
  BY <1>2, <1>5, <1>6 DEF t, ReadInv
<1>9. ReadInv'
  BY <1>2, <1>5, <1>6, <1>8 DEF ReadInv
<1> QED
  BY <1>7, <1>9

\* In the pass over inline HTML and references.
LEMMA HtmlStepType ==
  ASSUME DocTypeOK, ReadInv, InlineHtml \/ Reference \/ KeepLine
  PROVE  DocTypeOK' /\ ReadInv'
<1>1. /\ next \in 1..Len(tokens) /\ Len(tokens) \in Nat /\ pass = "html"
      /\ Len(tokens) = Len(doc) /\ DOMAIN doc = 1..Len(doc)
  BY TypeFacts DEF InlineHtml, Reference, KeepLine, InHtmlPass, ReadInv, DocTypeOK
<1>2. /\ processed' \in Seq(TokenType)
      /\ next' \in 1..(Len(tokens) + 1)
      /\ aside' \subseteq DOMAIN doc
      /\ UNCHANGED <<doc, pass, tokens, failure, parser>>
  <2>1. CASE InlineHtml
    <3>1. HtmlEnd \in next..Len(tokens)
      BY <1>1, HtmlEndType
    <3>2. As("html", tokens[next]) \in TokenType
      <4>1. tokens[next] \in TokenType /\ "html" \in Classes
        BY <1>1, TypeFacts DEF Classes
      <4> QED
        BY <4>1, AsMade
    <3>3. processed' \in Seq(TokenType)
      BY <2>1, <3>2, AppendProperties DEF InlineHtml, DocTypeOK
    <3>4. aside \cup ((next + 1)..HtmlEnd) \subseteq DOMAIN doc
      BY <1>1, <3>1 DEF DocTypeOK
    <3> QED
      BY <1>1, <2>1, <3>1, <3>3, <3>4 DEF InlineHtml
  <2>2. CASE Reference
    <3>1. \E last \in {next, next + 1} :
            /\ last <= Len(tokens)
            /\ aside' = aside \cup (next..last)
            /\ next' = last + 1
      BY <1>1, <2>2 DEF Reference
    <3>2. processed' \in Seq(TokenType) /\ UNCHANGED <<doc, pass, tokens, failure, parser>>
      BY <2>2 DEF Reference, DocTypeOK
    <3>3. aside \subseteq 1..Len(doc)
      BY <1>1 DEF DocTypeOK
    <3> QED
      BY <1>1, <3>1, <3>2, <3>3
  <2>3. CASE KeepLine
    <3>1. processed' \in Seq(TokenType)
      BY <1>1, <2>3, TypeFacts, AppendProperties DEF KeepLine, DocTypeOK
    <3> QED
      BY <1>1, <2>3, <3>1 DEF KeepLine, DocTypeOK
  <2> QED
    BY <2>1, <2>2, <2>3
<1>3. /\ doc' = doc /\ pass' = pass /\ tokens' = tokens /\ failure' = failure
      /\ parsing' = parsing /\ at' = at /\ found' = found /\ lists' = lists
  BY <1>2 DEF parser
<1>4. DocTypeOK'
  <2>1. parsing = "none"
    BY <1>1 DEF ReadInv
  <2>2. aside' \subseteq DOMAIN doc' /\ next' \in 1..(Len(tokens') + 1)
    BY <1>2, <1>3
  <2> QED
    BY <1>2, <1>3, <2>2, <2>1 DEF DocTypeOK
<1>5. ReadInv'
  BY <1>1, <1>2, <1>3 DEF ReadInv
<1> QED
  BY <1>4, <1>5

\* The end of a pass keeps the types.
LEMMA EndPassType ==
  ASSUME DocTypeOK, ReadInv, parsing = "none",
         NEW name \in {"html", "blocks", "paragraphs", "done"},
         EndPass(name), name = "html" => pass = "read",
         tokens' = tokens \/ tokens' = processed, name = "html" => tokens' = tokens
  PROVE  DocTypeOK' /\ ReadInv'
<1>1. tokens' \in Seq(TokenType) /\ Len(tokens') \in Nat
  BY TypeFacts DEF DocTypeOK
<1>2. <<>> \in Seq(TokenType)
  OBVIOUS
<1>3. DocTypeOK'
  BY <1>1, <1>2 DEF DocTypeOK, EndPass, parser
<1>4. ReadInv'
  BY DEF ReadInv, EndPass, parser
<1> QED
  BY <1>3, <1>4

-----------------------------------------------------------------------------
(* Sequences of tokens, and the order of their lines.                      *)
\* The lines of s are, in their order, lines of the tokens i to j - 1 of t.
Moves(s, t, i, j) ==
  /\ s \in Seq(TokenType) /\ Ordered(s)
  /\ i \in Nat \ {0} /\ j \in i..(Len(t) + 1)
  /\ \A q \in 1..Len(s) : s[q].n # 0 => \E p \in i..(j - 1) : s[q].n = t[p].n

LEMMA Concatenation ==
  ASSUME NEW s \in Seq(TokenType), NEW t \in Seq(TokenType)
  PROVE  /\ s \o t \in Seq(TokenType) /\ Len(s \o t) = Len(s) + Len(t)
         /\ Len(s) \in Nat /\ Len(t) \in Nat
         /\ \A q \in 1..(Len(s) + Len(t)) :
              (s \o t)[q] = IF q <= Len(s) THEN s[q] ELSE t[q - Len(s)]
         /\ \A q \in 1..Len(s) : s[q] \in TokenType /\ s[q].n \in Nat
         /\ \A q \in 1..Len(t) : t[q] \in TokenType /\ t[q].n \in Nat
<1>1. /\ s \o t \in Seq(TokenType) /\ Len(s \o t) = Len(s) + Len(t)
      /\ Len(s) \in Nat /\ Len(t) \in Nat
      /\ \A q \in 1..(Len(s) + Len(t)) :
           (s \o t)[q] = IF q <= Len(s) THEN s[q] ELSE t[q - Len(s)]
  OBVIOUS
<1>2. /\ \A q \in 1..Len(s) : s[q] \in TokenType
      /\ \A q \in 1..Len(t) : t[q] \in TokenType
  OBVIOUS
<1>3. \A x \in TokenType : x.n \in Nat
  BY DEF TokenType
<1> QED
  BY <1>1, <1>2, <1>3

LEMMA ConcatOrdered ==
  ASSUME NEW s \in Seq(TokenType), NEW t \in Seq(TokenType), Ordered(s), Ordered(t), Below(s, t)
  PROVE  Ordered(s \o t)
<1> SUFFICES ASSUME NEW i \in 1..Len(s \o t), NEW j \in 1..Len(s \o t), i < j,
                    (s \o t)[i].n # 0, (s \o t)[j].n # 0
             PROVE  (s \o t)[i].n < (s \o t)[j].n
  BY DEF Ordered
<1> HIDE DEF Ordered, Below
<1>1. i \in 1..(Len(s) + Len(t)) /\ j \in 1..(Len(s) + Len(t)) /\ Len(s) \in Nat /\ Len(t) \in Nat
  BY Concatenation
<1>2. CASE j <= Len(s)
  <2>1. (s \o t)[i] = s[i] /\ (s \o t)[j] = s[j] /\ i \in 1..Len(s) /\ j \in 1..Len(s)
    BY <1>1, <1>2, Concatenation
  <2> QED
    BY <2>1 DEF Ordered
<1>3. CASE i > Len(s)
  <2>1. /\ (s \o t)[i] = t[i - Len(s)] /\ (s \o t)[j] = t[j - Len(s)]
        /\ i - Len(s) \in 1..Len(t) /\ j - Len(s) \in 1..Len(t) /\ i - Len(s) < j - Len(s)
    BY <1>1, <1>3, Concatenation
  <2> QED
    BY <2>1 DEF Ordered
<1>4. CASE i <= Len(s) /\ j > Len(s)
  <2>1. /\ (s \o t)[i] = s[i] /\ (s \o t)[j] = t[j - Len(s)]
        /\ i \in 1..Len(s) /\ j - Len(s) \in 1..Len(t)
    BY <1>1, <1>4, Concatenation
  <2> QED
    BY <2>1 DEF Below
<1> QED
  BY <1>1, <1>2, <1>3, <1>4

LEMMA ConcatBelow ==
  ASSUME NEW s \in Seq(TokenType), NEW t \in Seq(TokenType), NEW u \in Seq(TokenType)
  PROVE  /\ Below(s, u) /\ Below(t, u) => Below(s \o t, u)
         /\ Below(u, s) /\ Below(u, t) => Below(u, s \o t)
<1>1. \A i \in 1..Len(s \o t) : \/ i \in 1..Len(s) /\ (s \o t)[i] = s[i]
                                \/ i - Len(s) \in 1..Len(t) /\ (s \o t)[i] = t[i - Len(s)]
  BY Concatenation
<1> QED
  BY <1>1 DEF Below

LEMMA ConcatPrecedes ==
  ASSUME NEW s \in Seq(TokenType), NEW t \in Seq(TokenType), NEW u, NEW i,
         Precedes(s, u, i), Precedes(t, u, i)
  PROVE  Precedes(s \o t, u, i)
<1>1. \A q \in 1..Len(s \o t) : \/ q \in 1..Len(s) /\ (s \o t)[q] = s[q]
                                \/ q - Len(s) \in 1..Len(t) /\ (s \o t)[q] = t[q - Len(s)]
  BY Concatenation
<1> QED
  BY <1>1 DEF Precedes

LEMMA PrecedesLater ==
  ASSUME NEW s, NEW t, NEW i \in Nat, NEW j \in Nat, i <= j, Len(t) \in Nat, Precedes(s, t, i)
  PROVE  Precedes(s, t, j)
<1>1. \A p \in j..Len(t) : p \in i..Len(t)
  OBVIOUS
<1> QED
  BY <1>1 DEF Precedes

LEMMA PrecedesNothing ==
  /\ \A t, i : Precedes(<<>>, t, i)
  /\ \A t : Below(<<>>, t) /\ Below(t, <<>>)
  /\ Ordered(<<>>)
<1>1. Len(<<>>) = 0 /\ 1..0 = {}
  OBVIOUS
<1> QED
  BY <1>1 DEF Precedes, Below, Ordered

\* What a step has moved stays in order with all that is left where it was.
LEMMA MovesOrder ==
  ASSUME NEW t \in Seq(TokenType), NEW s, NEW i, NEW j, Ordered(t), Moves(s, t, i, j)
  PROVE  /\ Precedes(s, t, j)
         /\ \A u : Precedes(u, t, i) => Below(u, s)
<1>1. /\ s \in Seq(TokenType) /\ i \in Nat \ {0} /\ j \in i..(Len(t) + 1) /\ Len(t) \in Nat
      /\ \A q \in 1..Len(s) : s[q].n # 0 => \E p \in i..(j - 1) : s[q].n = t[p].n
  BY DEF Moves
<1>2. Precedes(s, t, j)
  <2> SUFFICES ASSUME NEW q \in 1..Len(s), NEW r \in j..Len(t), s[q].n # 0, t[r].n # 0
               PROVE  s[q].n < t[r].n
    BY DEF Precedes
  <2>1. PICK p \in i..(j - 1) : s[q].n = t[p].n
    BY <1>1
  <2>2. p \in 1..Len(t) /\ r \in 1..Len(t) /\ p < r
    BY <1>1
  <2> QED
    BY <2>1, <2>2 DEF Ordered
<1>3. ASSUME NEW u, Precedes(u, t, i) PROVE Below(u, s)
  <2> SUFFICES ASSUME NEW x \in 1..Len(u), NEW q \in 1..Len(s), u[x].n # 0, s[q].n # 0
               PROVE  u[x].n < s[q].n
    BY DEF Below
  <2>1. PICK p \in i..(j - 1) : s[q].n = t[p].n
    BY <1>1
  <2>2. p \in i..Len(t)
    BY <1>1
  <2> QED
    BY <1>3, <2>1, <2>2 DEF Precedes
<1> QED
  BY <1>2, <1>3

LEMMA RestOrder ==
  ASSUME NEW t \in Seq(TokenType), NEW i \in 1..(Len(t) + 1), Ordered(t)
  PROVE  /\ SubSeq(t, i, Len(t)) \in Seq(TokenType) /\ Ordered(SubSeq(t, i, Len(t)))
         /\ Len(SubSeq(t, i, Len(t))) = Len(t) - i + 1
         /\ \A q \in 1..(Len(t) - i + 1) : SubSeq(t, i, Len(t))[q] = t[i + q - 1]
         /\ \A u : Precedes(u, t, i) => Below(u, SubSeq(t, i, Len(t)))
<1> DEFINE s == SubSeq(t, i, Len(t))
<1>1. Len(t) \in Nat
  OBVIOUS
<1>2. /\ s \in Seq(TokenType) /\ Len(s) = Len(t) - i + 1
      /\ \A q \in 1..(Len(t) - i + 1) : s[q] = t[i + q - 1]
  BY <1>1, SubSeqProperties
<1> HIDE DEF s
<1>3. \A q \in 1..(Len(t) - i + 1) : i + q - 1 \in i..Len(t) /\ i + q - 1 \in 1..Len(t)
  BY <1>1
<1>4. Ordered(s)
  <2> SUFFICES ASSUME NEW q \in 1..Len(s), NEW r \in 1..Len(s), q < r, s[q].n # 0, s[r].n # 0
               PROVE  s[q].n < s[r].n
    BY DEF Ordered
  <2>1. i + q - 1 \in 1..Len(t) /\ i + r - 1 \in 1..Len(t) /\ i + q - 1 < i + r - 1
    BY <1>1, <1>2, <1>3
  <2> QED
    BY <1>2, <2>1 DEF Ordered
<1>5. ASSUME NEW u, Precedes(u, t, i) PROVE Below(u, s)
  BY <1>2, <1>3, <1>5 DEF Precedes, Below
<1> QED
  BY <1>2, <1>4, <1>5 DEF s
-----------------------------------------------------------------------------
\* The moves that the steps make.
LEMMA OneMoves ==
  ASSUME NEW t \in Seq(TokenType), NEW p \in 1..Len(t), NEW x \in TokenType, x.n = t[p].n
  PROVE  Moves(<<x>>, t, p, p + 1)
<1>1. <<x>> \in Seq(TokenType) /\ Len(<<x>>) = 1 /\ <<x>>[1] = x
  OBVIOUS
<1>2. Ordered(<<x>>)
  BY <1>1 DEF Ordered
<1> QED
  BY <1>1, <1>2 DEF Moves

LEMMA TwoMove ==
  ASSUME NEW t \in Seq(TokenType), NEW p \in 1..(Len(t) - 1), Ordered(t),
         NEW x \in TokenType, x.n = t[p].n, NEW y \in TokenType, y.n = t[p + 1].n
  PROVE  Moves(<<x, y>>, t, p, p + 2)
<1> DEFINE s == <<x, y>>
<1>1. s \in Seq(TokenType) /\ Len(s) = 2 /\ s[1] = x /\ s[2] = y /\ Len(t) \in Nat
  OBVIOUS
<1> HIDE DEF s
<1>2. p \in 1..Len(t) /\ p + 1 \in 1..Len(t) /\ p < p + 1
  BY <1>1
<1>3. x.n # 0 /\ y.n # 0 => x.n < y.n
  BY <1>2 DEF Ordered
<1>4. Ordered(s)
  BY <1>1, <1>3 DEF Ordered
<1>5. p \in p..((p + 2) - 1) /\ p + 1 \in p..((p + 2) - 1) /\ p + 2 \in p..(Len(t) + 1)
  BY <1>1
<1>6. \A q \in 1..Len(s) : \E r \in p..((p + 2) - 1) : s[q].n = t[r].n
  <2> SUFFICES ASSUME NEW q \in 1..Len(s) PROVE \E r \in p..((p + 2) - 1) : s[q].n = t[r].n
    OBVIOUS
  <2>1. CASE q = 1
    BY <1>1, <1>5, <2>1
  <2>2. CASE q = 2
    BY <1>1, <1>5, <2>2
  <2> QED
    BY <1>1, <2>1, <2>2
<1> QED
  BY <1>1, <1>4, <1>5, <1>6 DEF Moves, s

\* Containers have no line.
LEMMA ContainerMoves ==
  ASSUME NEW t \in Seq(TokenType), NEW i, NEW j, NEW s, Moves(s, t, i, j),
         NEW c \in TokenType, c.n = 0
  PROVE  Moves(<<c>> \o s, t, i, j)
<1>1. /\ <<c>> \in Seq(TokenType) /\ Len(<<c>>) = 1 /\ <<c>>[1] = c
      /\ s \in Seq(TokenType) /\ Ordered(s)
  BY DEF Moves
<1> DEFINE b == <<c>>
<1> HIDE DEF b
<1>2. Ordered(b) /\ Below(b, s) /\ b \in Seq(TokenType)
  BY <1>1 DEF Ordered, Below, b
<1>3. Ordered(b \o s) /\ b \o s \in Seq(TokenType)
  BY <1>1, <1>2, ConcatOrdered
<1>4. \A q \in 1..Len(b \o s) : \/ (b \o s)[q] = c
                                \/ q - 1 \in 1..Len(s) /\ (b \o s)[q] = s[q - 1]
  BY <1>1, <1>2, Concatenation DEF b
<1>5. \A q \in 1..Len(b \o s) : (b \o s)[q].n # 0 => \E p \in i..(j - 1) : (b \o s)[q].n = t[p].n
  <2>1. \A q \in 1..Len(s) : s[q].n # 0 => \E p \in i..(j - 1) : s[q].n = t[p].n
    BY DEF Moves
  <2>2. SUFFICES ASSUME NEW q \in 1..Len(b \o s), (b \o s)[q].n # 0
                 PROVE  \E p \in i..(j - 1) : (b \o s)[q].n = t[p].n
    OBVIOUS
  <2>3. q - 1 \in 1..Len(s) /\ (b \o s)[q] = s[q - 1]
    BY <1>4, <2>2
  <2>4. s[q - 1].n # 0
    BY <2>2, <2>3
  <2> QED
    BY <2>1, <2>3, <2>4
<1>6. Moves(b \o s, t, i, j)
  BY <1>3, <1>5 DEF Moves
<1> QED
  BY <1>6 DEF b

LEMMA MovesFrom ==
  ASSUME NEW t \in Seq(TokenType), NEW i, NEW j, NEW s, Moves(s, t, i, j), NEW k \in Nat \ {0}, k <= i
  PROVE  Moves(s, t, k, j)
<1>1. i \in Nat \ {0} /\ j \in i..(Len(t) + 1) /\ Len(t) \in Nat
  BY DEF Moves
<1>2. j \in k..(Len(t) + 1) /\ i..(j - 1) \subseteq k..(j - 1)
  BY <1>1
<1> QED
  BY <1>1, <1>2 DEF Moves

LEMMA PairIsConcatenation ==
  ASSUME NEW x \in TokenType, NEW y \in TokenType
  PROVE  <<x>> \o <<y>> = <<x, y>>
<1>1. /\ <<x>> \in Seq(TokenType) /\ <<y>> \in Seq(TokenType) /\ <<x, y>> \in Seq(TokenType)
      /\ Len(<<x>>) = 1 /\ Len(<<y>>) = 1 /\ Len(<<x, y>>) = 2
      /\ <<x>>[1] = x /\ <<y>>[1] = y /\ <<x, y>>[1] = x /\ <<x, y>>[2] = y
  OBVIOUS
<1> DEFINE s == <<x>>
           t == <<y>>
           u == <<x, y>>
<1> HIDE DEF s, t, u
<1>2. /\ s \o t \in Seq(TokenType) /\ u \in Seq(TokenType) /\ Len(s \o t) = 2 /\ Len(u) = 2
      /\ \A q \in 1..2 : (s \o t)[q] = u[q]
  BY <1>1, Concatenation DEF s, t, u
<1>3. s \o t = u
  BY <1>2, SeqEqual
<1> QED
  BY <1>3 DEF s, t, u

LEMMA ItemMoves ==
  ASSUME NEW t \in Seq(TokenType), NEW p \in 1..Len(t), NEW depth \in Nat \ {0}
  PROVE  Moves(Item(t[p], depth), t, p, p + 1)
<1>1. t[p] \in TokenType
  OBVIOUS
<1> DEFINE c == Container("item", depth - 1, "list")
           x == Inner("text", t[p], ItemText(t[p].line), depth, "item")
<1>2. /\ Item(t[p], depth) \in Seq(TokenType) /\ Len(Item(t[p], depth)) = 2
      /\ Item(t[p], depth)[1] = c /\ Item(t[p], depth)[2] = x
  BY <1>1, ItemType
<1>3. c.n = 0 /\ x.n = t[p].n
  BY DEF Container, Inner, Token
<1> HIDE DEF c, x
<1>4. c \in TokenType /\ x \in TokenType
  BY <1>2
<1>5. Item(t[p], depth) = <<c, x>>
  BY DEF Item, c, x
<1>6. <<c, x>> = <<c>> \o <<x>>
  BY <1>4, PairIsConcatenation
<1> QED
  BY <1>3, <1>4, <1>5, <1>6, OneMoves, ContainerMoves

-----------------------------------------------------------------------------
(* The steps by which tokens move keep CoreInv.                            *)
LEMMA CoreFacts ==
  ASSUME CoreInv
  PROVE  /\ DocTypeOK /\ ReadInv /\ StateInv /\ OrderInv
         /\ tokens \in Seq(TokenType) /\ processed \in Seq(TokenType) /\ found \in Seq(TokenType)
         /\ lists \in Seq(ListType)
         /\ Len(tokens) \in Nat /\ next \in Nat \ {0} /\ next \in 1..(Len(tokens) + 1)
         /\ parsing # "none" => /\ pass = "blocks" /\ next \in 1..Len(tokens)
                                /\ at \in (next + 1)..(Len(tokens) + 1)
                                /\ Precedes(found, tokens, at)
                                /\ Precedes(processed, tokens, at)
<1>1. /\ DocTypeOK /\ ReadInv /\ StateInv /\ OrderInv
      /\ tokens \in Seq(TokenType) /\ processed \in Seq(TokenType) /\ found \in Seq(TokenType)
      /\ lists \in Seq(ListType)
      /\ Len(tokens) \in Nat /\ next \in Nat \ {0} /\ next \in 1..(Len(tokens) + 1)
  BY TypeFacts DEF CoreInv, DocTypeOK
<1>2. SUFFICES ASSUME parsing # "none"
               PROVE  /\ pass = "blocks" /\ next \in 1..Len(tokens)
                      /\ at \in (next + 1)..(Len(tokens) + 1)
                      /\ Precedes(found, tokens, at)
                      /\ Precedes(processed, tokens, at)
  BY <1>1
<1>3. /\ pass = "blocks" /\ next \in 1..Len(tokens)
      /\ at \in (next + 1)..(Len(tokens) + 1) /\ at \in Nat
  BY <1>1, <1>2, AheadType DEF StateInv
<1>4. Precedes(found, tokens, at)
  BY <1>1, <1>3, PrecedesNothing DEF OrderInv, From
<1>5. Precedes(processed, tokens, next)
  BY <1>1 DEF OrderInv
<1>6. Precedes(processed, tokens, at)
  <2>1. next \in Nat /\ next <= at
    BY <1>1, <1>3
  <2> QED
    BY <1>1, <1>3, <1>5, <2>1, PrecedesLater
<1> QED
  BY <1>3, <1>4, <1>6

-----------------------------------------------------------------------------
(* The kinds of steps.                                                     *)
LEMMA PutOutCore ==
  ASSUME CoreInv, pass = "blocks", NEW ts, NEW i, Moves(ts, tokens, next, i), PutOut(ts, i)
  PROVE  CoreInv'
<1>1. /\ ts \in Seq(TokenType) /\ Ordered(ts) /\ i \in next..(Len(tokens) + 1)
  BY DEF Moves
<1>2. /\ doc' = doc /\ pass' = pass /\ tokens' = tokens /\ aside' = aside /\ failure' = failure
      /\ processed' = processed \o ts /\ next' = i
      /\ parsing' = "none" /\ at' = 1 /\ found' = <<>> /\ lists' = <<>>
  BY DEF PutOut, Idle
<1>3. i \in 1..(Len(tokens) + 1)
  BY <1>1, CoreFacts
<1>4. processed \o ts \in Seq(TokenType)
  BY <1>1, CoreFacts, Concatenation
<1>5. DocTypeOK'
  BY <1>2, <1>3, <1>4, CoreFacts DEF DocTypeOK
<1>6. ReadInv' /\ StateInv'
  BY <1>2 DEF ReadInv, StateInv
<1>7. Precedes(ts, tokens, i) /\ Below(processed, ts)
  BY CoreFacts, MovesOrder DEF OrderInv
<1>8. Precedes(processed, tokens, i)
  <2>1. next \in Nat /\ i \in Nat /\ next <= i
    BY <1>1, CoreFacts
  <2> QED
    BY <2>1, CoreFacts, PrecedesLater DEF OrderInv
<1>9. Precedes(processed \o ts, tokens, i)
  BY <1>1, <1>7, <1>8, CoreFacts, ConcatPrecedes
<1>10. Ordered(processed \o ts)
  BY <1>1, <1>7, CoreFacts, ConcatOrdered DEF OrderInv
<1>11. Ordered(<<>>) /\ Below(processed \o ts, <<>>)
  BY PrecedesNothing
<1>12. OrderInv'
  BY <1>2, <1>9, <1>10, <1>11, CoreFacts DEF OrderInv
<1> QED
  BY <1>5, <1>6, <1>12 DEF CoreInv

\* A block that was found is put out.
LEMMA PutFoundCore ==
  ASSUME CoreInv, parsing # "none", NEW i \in at..(Len(tokens) + 1), PutOut(found, i)
  PROVE  CoreInv'
<1>1. /\ doc' = doc /\ pass' = pass /\ tokens' = tokens /\ aside' = aside /\ failure' = failure
      /\ processed' = processed \o found /\ next' = i
      /\ parsing' = "none" /\ at' = 1 /\ found' = <<>> /\ lists' = <<>>
  BY DEF PutOut, Idle
<1>2. /\ i \in 1..(Len(tokens) + 1) /\ at \in Nat /\ i \in Nat /\ at <= i
      /\ pass = "blocks" /\ Precedes(found, tokens, at) /\ Precedes(processed, tokens, at)
  BY CoreFacts
<1>3. processed \o found \in Seq(TokenType)
  BY CoreFacts, Concatenation
<1>4. DocTypeOK'
  BY <1>2, <1>1, <1>3, CoreFacts DEF DocTypeOK
<1>5. ReadInv' /\ StateInv'
  BY <1>2, <1>1 DEF ReadInv, StateInv
<1>6. Precedes(found, tokens, i) /\ Precedes(processed, tokens, i)
  BY <1>2, CoreFacts, PrecedesLater
<1>7. Precedes(processed \o found, tokens, i)
  BY <1>6, CoreFacts, ConcatPrecedes
<1>8. Ordered(processed \o found)
  BY CoreFacts, ConcatOrdered DEF OrderInv
<1>9. Ordered(<<>>) /\ Below(processed \o found, <<>>)
  BY PrecedesNothing
<1>10. OrderInv'
  BY <1>1, <1>7, <1>8, <1>9, CoreFacts DEF OrderInv
<1> QED
  BY <1>4, <1>5, <1>10 DEF CoreInv

\* A parse function begins.
LEMMA BeginCore ==
  ASSUME CoreInv, Looking, NEW what \in {"code", "quote", "list"}, NEW ts,
         Moves(ts, tokens, next, next + 1), Begin(what, ts),
         lists' \in Seq(ListType), lists' # <<>> <=> what = "list"
  PROVE  CoreInv'
<1>1. /\ ts \in Seq(TokenType) /\ Ordered(ts)
  BY DEF Moves
<1>2. /\ doc' = doc /\ pass' = pass /\ tokens' = tokens /\ aside' = aside /\ failure' = failure
      /\ processed' = processed /\ next' = next
      /\ parsing' = what /\ at' = next + 1 /\ found' = ts
  BY DEF Begin, output
<1>3. pass = "blocks" /\ next + 1 \in (next + 1)..(Len(tokens) + 1)
  BY CoreFacts DEF Looking
<1>4. DocTypeOK'
  BY <1>1, <1>2, <1>3, CoreFacts DEF DocTypeOK
<1>5. ReadInv' /\ StateInv'
  BY <1>2, <1>3 DEF ReadInv, StateInv
<1>6. Precedes(ts, tokens, next + 1) /\ Below(processed, ts)
  BY CoreFacts, MovesOrder DEF OrderInv
<1>7. OrderInv'
  BY <1>1, <1>2, <1>3, <1>6, CoreFacts DEF OrderInv, From
<1> QED
  BY <1>4, <1>5, <1>7 DEF CoreInv

\* A parse function takes lines up.
LEMMA CollectCore ==
  ASSUME CoreInv, parsing # "none", NEW ts, NEW i, Moves(ts, tokens, at, i), Collect(ts, i),
         parsing' \in {"code", "quote", "list", "itemCode"},
         lists' \in Seq(ListType), lists' # <<>> <=> parsing' \in {"list", "itemCode"}
  PROVE  CoreInv'
<1>1. /\ ts \in Seq(TokenType) /\ Ordered(ts) /\ i \in at..(Len(tokens) + 1)
  BY DEF Moves
<1>2. /\ doc' = doc /\ pass' = pass /\ tokens' = tokens /\ aside' = aside /\ failure' = failure
      /\ processed' = processed /\ next' = next
      /\ at' = i /\ found' = found \o ts
  BY DEF Collect, output
<1>3. /\ pass = "blocks" /\ i \in (next + 1)..(Len(tokens) + 1) /\ at \in Nat /\ i \in Nat
      /\ at <= i /\ Precedes(found, tokens, at) /\ Precedes(processed, tokens, at)
  BY <1>1, CoreFacts
<1>4. found \o ts \in Seq(TokenType)
  BY <1>1, CoreFacts, Concatenation
<1>5. DocTypeOK'
  BY <1>2, <1>3, <1>4, CoreFacts DEF DocTypeOK
<1>6. ReadInv' /\ StateInv'
  BY <1>2, <1>3 DEF ReadInv, StateInv
<1>7. Precedes(ts, tokens, i) /\ Below(processed, ts) /\ Below(found, ts)
  BY <1>3, CoreFacts, MovesOrder DEF OrderInv
<1>8. Precedes(found \o ts, tokens, i)
  <2>1. Precedes(found, tokens, i)
    BY <1>3, CoreFacts, PrecedesLater
  <2> QED
    BY <1>1, <1>7, <2>1, CoreFacts, ConcatPrecedes
<1>9. Ordered(found \o ts) /\ Below(processed, found \o ts)
  BY <1>1, <1>7, CoreFacts, ConcatOrdered, ConcatBelow DEF OrderInv
<1>10. OrderInv'
  BY <1>2, <1>3, <1>8, <1>9, CoreFacts DEF OrderInv, From
<1> QED
  BY <1>5, <1>6, <1>10 DEF CoreInv

\* A container that was found takes the place of its lines.
LEMMA PutBackCore ==
  ASSUME CoreInv, parsing # "none", NEW i \in at..(Len(tokens) + 1), PutBack(i)
  PROVE  CoreInv'
<1> DEFINE r == Resume(i)
           rest == SubSeq(tokens, r, Len(tokens))
<1>1. i \in 1..(Len(tokens) + 1) /\ next \in 1..Len(tokens) /\ DocTypeOK
  BY CoreFacts
<1>2. r \in i..(Len(tokens) + 1)
  BY <1>1, ResumeType
<1>3. /\ doc' = doc /\ pass' = pass /\ tokens' = found \o rest /\ aside' = aside /\ failure' = failure
      /\ processed' = processed /\ next' = 1
      /\ parsing' = "none" /\ at' = 1 /\ found' = <<>> /\ lists' = <<>>
  BY DEF PutBack, Idle
<1> HIDE DEF r
<1>4. /\ r \in 1..(Len(tokens) + 1) /\ at \in Nat /\ r \in Nat /\ at <= r
      /\ pass = "blocks" /\ Precedes(found, tokens, at) /\ Precedes(processed, tokens, at)
  BY <1>2, CoreFacts
<1>5. Precedes(found, tokens, r) /\ Precedes(processed, tokens, r)
  BY <1>4, CoreFacts, PrecedesLater
<1>6. rest \in Seq(TokenType) /\ Ordered(rest) /\ Below(found, rest) /\ Below(processed, rest)
  BY <1>4, <1>5, CoreFacts, RestOrder DEF OrderInv
<1> HIDE DEF rest
<1>7. found \o rest \in Seq(TokenType) /\ Len(found \o rest) \in Nat
  BY <1>6, CoreFacts, Concatenation
<1>8. DocTypeOK'
  BY <1>3, <1>7, CoreFacts DEF DocTypeOK
<1>9. ReadInv' /\ StateInv'
  BY <1>3, <1>4 DEF ReadInv, StateInv
<1>10. Ordered(found \o rest) /\ Below(processed, found \o rest)
  BY <1>6, CoreFacts, ConcatOrdered, ConcatBelow DEF OrderInv
<1>11. Precedes(processed, found \o rest, 1)
  BY <1>10 DEF Below, Precedes
<1>12. OrderInv'
  BY <1>3, <1>10, <1>11, CoreFacts, PrecedesNothing DEF OrderInv
<1> QED
  BY <1>8, <1>9, <1>12 DEF CoreInv

\* A step that only moves the iterator or ends the process.
LEMMA StayCore ==
  ASSUME CoreInv, parsing # "none", UNCHANGED <<doc, pass, output, aside, found>>,
         parsing' # "none", parsing' \in {"code", "quote", "list", "itemCode"},
         at' \in at..(Len(tokens) + 1),
         failure' \in {"none", "assert", "noText", "pastEnd"},
         lists' \in Seq(ListType), lists' # <<>> <=> parsing' \in {"list", "itemCode"}
  PROVE  CoreInv'
<1>1. /\ doc' = doc /\ pass' = pass /\ tokens' = tokens /\ aside' = aside
      /\ processed' = processed /\ next' = next /\ found' = found
  BY DEF output
<1>2. /\ pass = "blocks" /\ at' \in (next + 1)..(Len(tokens) + 1) /\ at \in Nat /\ at' \in Nat
      /\ at <= at' /\ Precedes(found, tokens, at)
  BY CoreFacts
<1>3. DocTypeOK'
  BY <1>1, <1>2, CoreFacts DEF DocTypeOK
<1>4. ReadInv' /\ StateInv'
  BY <1>1, <1>2 DEF ReadInv, StateInv
<1>5. Precedes(found, tokens, at')
  BY <1>2, CoreFacts, PrecedesLater
<1>6. OrderInv'
  BY <1>1, <1>2, <1>5, CoreFacts DEF OrderInv, From
<1> QED
  BY <1>3, <1>4, <1>6 DEF CoreInv

-----------------------------------------------------------------------------
(* CoreInv: reading, the pass over inline HTML and references, and that    *)
(* over paragraphs.                                                        *)
LEMMA ReadCore ==
  ASSUME CoreInv, NEW l \in SourceLines, ReadLine(l)
  PROVE  CoreInv'
<1>1. DocTypeOK' /\ ReadInv'
  BY CoreFacts, ReadStepType
<1>2. /\ pass = "read" /\ pass' = pass /\ parsing' = parsing /\ found' = found
      /\ processed' = processed /\ next' = next
  BY DEF ReadLine, parser
<1>3. found = <<>> /\ processed = <<>> /\ parsing = "none"
  BY <1>2, CoreFacts DEF ReadInv
<1>4. Len(tokens') = Len(doc') /\ \A k \in 1..Len(doc') : tokens'[k].n = k
  <2>1. /\ Len(tokens') = Len(doc')
        /\ \A k \in 1..Len(doc') :
             tokens'[k] = Token(IF IsBlank(doc'[k]) THEN "blank" ELSE "text", k, doc'[k], 0, "page")
    BY <1>1, <1>2 DEF ReadInv
  <2> QED
    BY <2>1, TokenFields
<1>5. Ordered(tokens')
  BY <1>4 DEF Ordered
<1>6. OrderInv'
  BY <1>2, <1>3, <1>5, PrecedesNothing DEF OrderInv
<1> QED
  BY <1>1, <1>2, <1>3, <1>6 DEF CoreInv, StateInv

\* Inline HTML is put out at its first line.
LEMMA HtmlMoves ==
  ASSUME CoreInv, InlineHtml
  PROVE  /\ Moves(<<As("html", tokens[next])>>, tokens, next, HtmlEnd + 1)
         /\ Append(processed, As("html", tokens[next])) = processed \o <<As("html", tokens[next])>>
<1>1. /\ next \in 1..Len(tokens) /\ Len(tokens) \in Nat /\ tokens \in Seq(TokenType)
      /\ tokens[next] \in TokenType /\ "html" \in Classes
  BY CoreFacts, TypeFacts DEF InlineHtml, InHtmlPass, Classes
<1>2. HtmlEnd \in next..Len(tokens)
  BY <1>1, CoreFacts, HtmlEndType
<1> DEFINE x == As("html", tokens[next])
<1>3. x \in TokenType /\ x.n = tokens[next].n
  BY <1>1, AsMade, AsFields
<1> HIDE DEF x
<1>4. Moves(<<x>>, tokens, next, next + 1)
  BY <1>1, <1>3, OneMoves
<1>5. Moves(<<x>>, tokens, next, HtmlEnd + 1)
  <2>1. HtmlEnd + 1 \in next..(Len(tokens) + 1) /\ next..((next + 1) - 1) \subseteq next..((HtmlEnd + 1) - 1)
    BY <1>1, <1>2
  <2> QED
    BY <1>4, <2>1 DEF Moves
<1>6. Append(processed, x) = processed \o <<x>>
  BY <1>3, CoreFacts, Appending
<1> QED
  BY <1>5, <1>6 DEF x

LEMMA HtmlCore ==
  ASSUME CoreInv, InlineHtml \/ Reference \/ KeepLine
  PROVE  CoreInv'
<1>1. DocTypeOK' /\ ReadInv'
  BY CoreFacts, HtmlStepType
<1>2. /\ pass = "html" /\ pass' = pass /\ tokens' = tokens /\ parsing' = parsing /\ found' = found
      /\ next \in 1..Len(tokens) /\ found = <<>> /\ parsing = "none"
  BY CoreFacts DEF InlineHtml, Reference, KeepLine, InHtmlPass, parser, ReadInv
<1>3. ASSUME NEW s, NEW i, Moves(s, tokens, next, i), processed' = processed \o s, next' = i
      PROVE  Ordered(processed') /\ Precedes(processed', tokens, next')
  <2>1. s \in Seq(TokenType) /\ Ordered(s) /\ i \in next..(Len(tokens) + 1)
    BY <1>3 DEF Moves
  <2>2. Precedes(s, tokens, i) /\ Below(processed, s)
    BY <1>3, CoreFacts, MovesOrder DEF OrderInv
  <2>3. Precedes(processed, tokens, i)
    <3>1. next \in Nat /\ i \in Nat /\ next <= i
      BY <2>1, CoreFacts
    <3> QED
      BY <3>1, CoreFacts, PrecedesLater DEF OrderInv
  <2> QED
    BY <1>3, <2>1, <2>2, <2>3, CoreFacts, ConcatOrdered, ConcatPrecedes DEF OrderInv
<1>4. Ordered(processed') /\ Precedes(processed', tokens, next')
  <2>1. CASE InlineHtml
    <3>1. /\ next' = HtmlEnd + 1
          /\ processed' = processed \o <<As("html", tokens[next])>>
      BY <2>1, HtmlMoves DEF InlineHtml
    <3> QED
      BY <1>3, <2>1, <3>1, HtmlMoves
  <2>2. CASE Reference
    <3>1. next' \in Nat /\ next <= next' /\ next \in Nat /\ processed' = processed
      BY <1>2, <2>2, CoreFacts DEF Reference
    <3> QED
      BY <3>1, CoreFacts, PrecedesLater DEF OrderInv
  <2>3. CASE KeepLine
    <3>1. tokens[next] \in TokenType
      BY <1>2, CoreFacts
    <3>2. Moves(<<tokens[next]>>, tokens, next, next + 1)
      BY <1>2, <3>1, CoreFacts, OneMoves
    <3>3. processed' = Append(processed, tokens[next]) /\ next' = next + 1
      BY <2>3 DEF KeepLine
    <3>4. Append(processed, tokens[next]) = processed \o <<tokens[next]>>
      BY <3>1, CoreFacts, Appending
    <3> QED
      BY <1>3, <3>2, <3>3, <3>4
  <2> QED
    BY <2>1, <2>2, <2>3
<1>5. OrderInv'
  BY <1>2, <1>4, CoreFacts, PrecedesNothing DEF OrderInv
<1> QED
  BY <1>1, <1>2, <1>5 DEF CoreInv, StateInv

LEMMA EndPassCore ==
  ASSUME CoreInv, parsing = "none", found = <<>>,
         NEW name \in {"html", "blocks", "paragraphs", "done"},
         EndPass(name), name = "html" => pass = "read",
         tokens' = tokens \/ tokens' = processed, name = "html" => tokens' = tokens
  PROVE  CoreInv'
<1>1. DocTypeOK' /\ ReadInv'
  BY CoreFacts, EndPassType
<1>2. /\ parsing' = "none" /\ found' = <<>> /\ processed' = <<>> /\ next' = 1
  BY DEF EndPass, parser
<1>3. Ordered(tokens')
  BY CoreFacts DEF OrderInv
<1>4. OrderInv'
  BY <1>2, <1>3, PrecedesNothing DEF OrderInv
<1> QED
  BY <1>1, <1>2, <1>4 DEF CoreInv, StateInv
-----------------------------------------------------------------------------
(* Paragraphs.                                                             *)
LEMMA ParagraphCore ==
  ASSUME CoreInv, ParagraphLine \/ FlushParagraph \/ OtherToken
  PROVE  CoreInv'
<1>1. /\ doc' = doc /\ pass' = pass /\ tokens' = tokens /\ aside' = aside /\ failure' = failure
      /\ parsing' = parsing /\ at' = at /\ lists' = lists
      /\ pass = "paragraphs" /\ parsing = "none"
  BY CoreFacts DEF ParagraphLine, FlushParagraph, OtherToken, parser, StateInv
<1>2. /\ next' \in 1..(Len(tokens) + 1)
      /\ found' \in Seq(TokenType) /\ processed' \in Seq(TokenType)
      /\ Ordered(processed') /\ Ordered(found')
      /\ Precedes(processed', tokens, next') /\ Below(processed', found')
      /\ found' # <<>> => Precedes(found', tokens, next')
  <2>1. /\ Precedes(processed, tokens, next) /\ Precedes(found, tokens, next)
    BY <1>1, CoreFacts, PrecedesNothing DEF OrderInv, From
  <2>2. CASE ParagraphLine
    <3> DEFINE t == As("paragraph", Current)
    <3>1. next \in 1..Len(tokens) /\ processed' = processed /\ next' = next + 1 /\ found' = Append(found, t)
      BY <2>2, CoreFacts DEF ParagraphLine, Joins
    <3>2. Current \in TokenType /\ "paragraph" \in Classes
      BY <3>1, CoreFacts, CurrentType DEF Classes
    <3>3. t \in TokenType /\ t.n = tokens[next].n
      BY <3>2, AsMade, AsFields DEF Current
    <3> HIDE DEF t
    <3>4. Append(found, t) = found \o <<t>> /\ <<t>> \in Seq(TokenType) /\ next + 1 \in Nat /\ next \in Nat
      BY <3>1, <3>3, CoreFacts, Appending
    <3>5. Moves(<<t>>, tokens, next, next + 1) /\ Ordered(<<t>>)
      BY <3>1, <3>3, CoreFacts, OneMoves DEF Moves
    <3>6. Precedes(<<t>>, tokens, next + 1) /\ Below(processed, <<t>>) /\ Below(found, <<t>>)
      BY <2>1, <3>5, CoreFacts, MovesOrder DEF OrderInv
    <3>7. Precedes(processed, tokens, next + 1) /\ Precedes(found, tokens, next + 1)
      BY <2>1, <3>4, CoreFacts, PrecedesLater
    <3>8. /\ found \o <<t>> \in Seq(TokenType) /\ Ordered(found \o <<t>>)
          /\ Precedes(found \o <<t>>, tokens, next + 1) /\ Below(processed, found \o <<t>>)
      BY <3>4, <3>5, <3>6, <3>7, CoreFacts, Concatenation, ConcatOrdered, ConcatPrecedes, ConcatBelow
         DEF OrderInv
    <3> QED
      BY <3>1, <3>4, <3>7, <3>8, CoreFacts DEF OrderInv
  <2>3. CASE FlushParagraph
    <3>1. processed' = processed \o found /\ next' = next /\ found' = <<>>
      BY <2>3 DEF FlushParagraph, Flush
    <3>2. /\ processed \o found \in Seq(TokenType) /\ Ordered(processed \o found)
          /\ Precedes(processed \o found, tokens, next)
      BY <2>1, CoreFacts, Concatenation, ConcatOrdered, ConcatPrecedes DEF OrderInv
    <3>3. <<>> \in Seq(TokenType)
      OBVIOUS
    <3> QED
      BY <3>1, <3>2, <3>3, CoreFacts, PrecedesNothing
  <2>4. CASE OtherToken
    <3>1. /\ next \in 1..Len(tokens) /\ next' = next + 1 /\ found' = <<>> /\ found = <<>>
          /\ processed' = Append(processed, Current) /\ Current = tokens[next]
      BY <2>4, CoreFacts DEF OtherToken, parser, Current
    <3>2. Current \in TokenType
      BY <3>1, CoreFacts, CurrentType
    <3>3. /\ Append(processed, Current) = processed \o <<Current>> /\ <<Current>> \in Seq(TokenType)
          /\ next + 1 \in Nat /\ next \in Nat
      BY <3>1, <3>2, CoreFacts, Appending
    <3>4. Moves(<<Current>>, tokens, next, next + 1) /\ Ordered(<<Current>>)
      BY <3>1, <3>2, CoreFacts, OneMoves DEF Moves
    <3>5. Precedes(<<Current>>, tokens, next + 1) /\ Below(processed, <<Current>>)
      BY <2>1, <3>4, CoreFacts, MovesOrder DEF OrderInv
    <3>6. Precedes(processed, tokens, next + 1)
      BY <2>1, <3>3, CoreFacts, PrecedesLater
    <3>7. /\ processed \o <<Current>> \in Seq(TokenType) /\ Ordered(processed \o <<Current>>)
          /\ Precedes(processed \o <<Current>>, tokens, next + 1)
      BY <3>3, <3>4, <3>5, <3>6, CoreFacts, Concatenation, ConcatOrdered, ConcatPrecedes DEF OrderInv
    <3>8. /\ <<>> \in Seq(TokenType) /\ Ordered(<<>>)
          /\ Below(processed \o <<Current>>, <<>>) /\ next + 1 \in 1..(Len(tokens) + 1)
      BY <3>1, CoreFacts, PrecedesNothing
    <3>9. processed' = processed \o <<Current>>
      BY <3>1, <3>3
    <3> HIDE DEF Current
    <3>10. /\ next' \in 1..(Len(tokens) + 1) /\ found' \in Seq(TokenType)
           /\ Ordered(found') /\ found' = <<>>
      BY <3>1, <3>8
    <3>11. /\ processed' \in Seq(TokenType) /\ Ordered(processed')
           /\ Precedes(processed', tokens, next') /\ Below(processed', found')
      BY <3>1, <3>7, <3>8, <3>9
    <3> QED
      BY <3>10, <3>11
  <2> QED
    BY <2>2, <2>3, <2>4
<1>3. DocTypeOK'
  BY <1>1, <1>2, CoreFacts DEF DocTypeOK
<1>4. ReadInv' /\ StateInv'
  BY <1>1 DEF ReadInv, StateInv
<1>5. OrderInv'
  BY <1>1, <1>2, CoreFacts DEF OrderInv, From
<1> QED
  BY <1>3, <1>4, <1>5 DEF CoreInv

-----------------------------------------------------------------------------
(* CoreInv: the pass over blocks.                                          *)
LEMMA BlockTurnCore ==
  ASSUME CoreInv, BlockTurn
  PROVE  CoreInv'
<1>1. CASE BlocksPassEnds
  <2>1. parsing = "none" /\ found = <<>> /\ EndPass("paragraphs") /\ tokens' = processed
    BY <1>1, CoreFacts DEF BlocksPassEnds, StateInv
  <2> QED
    BY <2>1, EndPassCore
<1>2. ASSUME Looking PROVE pass = "blocks" /\ next \in 1..Len(tokens) /\ Current \in TokenType
                           /\ Current = tokens[next] /\ lists = <<>> /\ DocTypeOK
  BY <1>2, CoreFacts, CurrentType DEF Looking, Current, DocTypeOK
<1>3. ASSUME Looking, NEW x \in TokenType, x.n = Current.n PROVE Moves(<<x>>, tokens, next, next + 1)
  BY <1>2, <1>3, CoreFacts, OneMoves
<1>4. \A type \in Classes, t \in TokenType : As(type, t) \in TokenType /\ As(type, t).n = t.n
  BY AsMade, AsFields
<1>5. {"header", "rule", "code", "quote", "list", "text"} \subseteq Classes
  BY DEF Classes
<1>6. CASE HashHeader
  <2>1. Moves(<<As("header", Current)>>, tokens, next, next + 1)
    BY <1>2, <1>3, <1>4, <1>5, <1>6 DEF HashHeader
  <2> QED
    BY <1>2, <1>6, <2>1, PutOutCore DEF HashHeader
<1>7. CASE HorizontalRule
  <2>1. Moves(<<As("rule", Current)>>, tokens, next, next + 1)
    BY <1>2, <1>3, <1>4, <1>5, <1>7 DEF HorizontalRule
  <2> QED
    BY <1>2, <1>7, <2>1, PutOutCore DEF HorizontalRule
<1>8. CASE KeepToken
  <2>1. Moves(<<Current>>, tokens, next, next + 1)
    BY <1>2, <1>3, <1>8 DEF KeepToken
  <2> QED
    BY <1>2, <1>8, <2>1, PutOutCore DEF KeepToken
<1>9. CASE UnderlinedHeader
  <2>1. /\ pass = "blocks" /\ next \in 1..Len(tokens) /\ Current \in TokenType
        /\ Current = tokens[next] /\ Len(tokens) \in Nat /\ IsUnderlined
    BY <1>2, <1>9, CoreFacts DEF UnderlinedHeader
  <2>2. next \in 1..(Len(tokens) - 1) /\ next + 1 \in 1..Len(tokens)
    BY <2>1 DEF IsUnderlined, AtEnd
  <2>3. tokens[next + 1] \in TokenType
    BY <2>2, CoreFacts
  <2>4. Moves(<<As("header", Current), As("header", tokens[next + 1])>>, tokens, next, next + 2)
    BY <1>4, <1>5, <2>1, <2>2, <2>3, CoreFacts, TwoMove DEF OrderInv
  <2> QED
    BY <1>9, <2>1, <2>4, PutOutCore DEF UnderlinedHeader
<1>10. CASE BeginCode
  <2>1. Looking /\ lists' = lists /\ Begin("code", <<As("code", Current)>>)
    BY <1>10 DEF BeginCode
  <2>2. Moves(<<As("code", Current)>>, tokens, next, next + 1)
    BY <1>2, <1>3, <1>4, <1>5, <2>1
  <2> QED
    BY <1>2, <2>1, <2>2, CoreFacts, BeginCore
<1>11. CASE BeginQuote
  <2> DEFINE c == Container("quote", Current.depth, Current.within)
             x == Quoted("text", Current)
  <2>1. Looking /\ lists' = lists /\ Begin("quote", <<c, x>>)
    BY <1>11 DEF BeginQuote
  <2>2. c \in TokenType /\ c.n = 0
    BY <1>2, <1>5, <2>1, CurrentType, ContainerMade, ContainerFields DEF Looking
  <2>3. x \in TokenType /\ x.n = Current.n
    <3>1. /\ DocTypeOK /\ next <= Len(tokens) /\ Current \in TokenType /\ "text" \in Classes
      BY <1>2, <1>5, <2>1 DEF Looking
    <3>2. x \in TokenType
      BY <3>1, QuotedType
    <3> QED
      BY <3>2, InnerFields DEF Quoted
  <2> HIDE DEF c, x
  <2>4. Moves(<<x>>, tokens, next, next + 1)
    BY <1>3, <2>1, <2>3
  <2>5. Moves(<<c, x>>, tokens, next, next + 1)
    <3>1. Moves(<<c>> \o <<x>>, tokens, next, next + 1)
      BY <2>2, <2>4, CoreFacts, ContainerMoves
    <3>2. <<c>> \o <<x>> = <<c, x>>
      BY <2>2, <2>3, PairIsConcatenation
    <3> QED
      BY <3>1, <3>2
  <2> QED
    BY <1>2, <2>1, <2>5, CoreFacts, BeginCore
<1>12. CASE BeginList
  <2> DEFINE c == Container("list", Current.depth, Current.within)
             s == Item(Current, Current.depth + 2)
  <2>1. Looking /\ Begin("list", <<c>> \o s) /\ lists' = <<ListOf(Current.line)>>
        /\ IsItem(Current.line)
    BY <1>12 DEF BeginList
  <2>2. /\ Current.depth + 2 \in Nat \ {0} /\ Current.line \in Seq(LineMarker)
        /\ Current.depth \in Nat /\ Current.within \in Places
    BY <1>2, <2>1, CurrentType DEF Looking
  <2>3. c \in TokenType /\ c.n = 0
    BY <1>5, <2>2, ContainerMade, ContainerFields
  <2>4. Moves(s, tokens, next, next + 1)
    BY <1>2, <2>1, <2>2, CoreFacts, ItemMoves
  <2>5. Current.line # Empty
    BY <2>1 DEF IsItem, IsBulleted, Kind, Bullets
  <2>6. Current.line[1] \in LineMarker
    BY <2>2, <2>5, LineTypes
  <2>7. ListOf(Current.line) \in ListType
    BY <2>6 DEF ListOf, ListType
  <2> HIDE DEF c, s
  <2>8. Moves(<<c>> \o s, tokens, next, next + 1)
    BY <2>3, <2>4, CoreFacts, ContainerMoves
  <2>9. <<ListOf(Current.line)>> \in Seq(ListType) /\ <<ListOf(Current.line)>> # <<>>
    BY <2>7
  <2> QED
    BY <2>1, <2>8, <2>9, BeginCore
<1> QED
  BY <1>1, <1>6, <1>7, <1>8, <1>9, <1>10, <1>11, <1>12 DEF BlockTurn

\* Where the parse functions are.
LEMMA ParseFacts ==
  ASSUME CoreInv, parsing # "none"
  PROVE  /\ DocTypeOK /\ next <= Len(tokens) /\ Len(tokens) \in Nat /\ pass = "blocks"
         /\ next \in Nat \ {0} /\ next \in 1..Len(tokens)
         /\ Ahead \in at..(Len(tokens) + 1) /\ at \in Nat /\ Ahead \in Nat
         /\ at \in (next + 1)..(Len(tokens) + 1)
         /\ ~AtEnd(at) => at \in 1..Len(tokens) /\ tokens[at] \in TokenType
         /\ ~AtEnd(Ahead) => Ahead \in 1..Len(tokens) /\ tokens[Ahead] \in TokenType
                             /\ tokens[Ahead].line \in Seq(LineMarker)
         /\ AtBlank => ~AtEnd(at) /\ Ahead = at + 1
         /\ ~AtBlank => Ahead = at
         /\ Current.depth \in Nat /\ Current.within \in Places
         /\ Current \in TokenType /\ Current = tokens[next]
<1>1. DocTypeOK /\ Len(tokens) \in Nat /\ pass = "blocks" /\ tokens \in Seq(TokenType)
  BY CoreFacts
<1>2. /\ next \in 1..Len(tokens)
      /\ at \in (next + 1)..(Len(tokens) + 1)
      /\ at \in Nat
      /\ Ahead = at \/ Ahead = at + 1
      /\ Ahead \in at..(Len(tokens) + 1)
      /\ ~AtEnd(at) => at \in (next + 1)..Len(tokens)
      /\ ~AtEnd(Ahead) => Ahead \in (next + 1)..Len(tokens)
      /\ AtBlank <=> Ahead = at + 1
      /\ AtBlank => ~AtEnd(at)
  BY <1>1, AheadType
<1>3. \A i \in 1..Len(tokens) : tokens[i] \in TokenType /\ tokens[i].line \in Seq(LineMarker)
  BY <1>1, TypeFacts
<1>4. /\ ~AtEnd(at) => at \in 1..Len(tokens)
      /\ ~AtEnd(Ahead) => Ahead \in 1..Len(tokens)
      /\ Ahead \in Nat /\ next \in Nat \ {0}
  BY <1>1, <1>2
<1> QED
  BY <1>1, <1>2, <1>3, <1>4, CurrentType DEF Current

\* The list of a parse function, when it looks for the end of one.
LEMMA ListFacts ==
  ASSUME CoreInv, parsing \in {"list", "itemCode"}
  PROVE  /\ parsing # "none" /\ lists # <<>> /\ lists \in Seq(ListType) /\ Len(lists) \in Nat \ {0}
         /\ OneMore \in Seq(ListType) /\ OneMore # <<>>
         /\ \A l \in Seq(LineMarker) : l # Empty => ListOf(l) \in ListType
         /\ ItemDepth \in Nat \ {0} /\ ItemDepth + 2 \in Nat \ {0}
         /\ Of.indent \in Nat
<1>1. DocTypeOK /\ parsing # "none" /\ lists # <<>> /\ lists \in Seq(ListType)
  BY CoreFacts DEF DocTypeOK
<1>2. Len(lists) \in Nat \ {0}
  BY <1>1
<1>3. OneMore \in Seq(ListType) /\ Len(OneMore) = Len(lists) /\ Of.indent \in Nat
      /\ \A l \in Seq(LineMarker) : l # Empty => ListOf(l) \in ListType
  BY <1>1, <1>2, ListsType
<1>4. OneMore # <<>>
  BY <1>2, <1>3
<1>5. ItemDepth \in Nat \ {0}
  BY <1>1, <1>2, ParseFacts DEF ItemDepth
<1> QED
  BY <1>1, <1>2, <1>3, <1>4, <1>5

LEMMA CodeTurnCore ==
  ASSUME CoreInv, CodeTurn
  PROVE  CoreInv'
<1>1. CASE CodeLine
  <2>1. parsing = "code" /\ parsing' = parsing /\ lists' = lists /\ lists \in Seq(ListType) /\ lists = <<>>
    BY <1>1, CoreFacts DEF CodeLine, Parses, DocTypeOK
  <2>2. PICK j \in at..Len(tokens) : Collect(<<As("code", tokens[j])>>, j + 1)
    BY <1>1 DEF CodeLine
  <2>3. j \in 1..Len(tokens) /\ at \in Nat \ {0} /\ at <= j
    BY <2>1, <2>2, CoreFacts
  <2>4. As("code", tokens[j]) \in TokenType /\ As("code", tokens[j]).n = tokens[j].n
    <3>1. "code" \in Classes
      BY DEF Classes
    <3>2. tokens[j] \in TokenType
      BY <2>3, CoreFacts
    <3> QED
      BY <3>1, <3>2, AsMade, AsFields
  <2>5. Moves(<<As("code", tokens[j])>>, tokens, at, j + 1)
    BY <2>3, <2>4, CoreFacts, OneMoves, MovesFrom
  <2> QED
    BY <2>1, <2>2, <2>5, CollectCore
<1>2. CASE EndOfCode
  <2>1. parsing # "none" /\ PutOut(found, Resume(at))
    BY <1>2 DEF EndOfCode, Parses
  <2>2. at \in 1..(Len(tokens) + 1)
    BY <2>1, CoreFacts
  <2>3. Resume(at) \in at..(Len(tokens) + 1)
    BY <2>1, <2>2, CoreFacts, ResumeType
  <2> QED
    BY <2>1, <2>3, PutFoundCore
<1> QED
  BY <1>1, <1>2 DEF CodeTurn

LEMMA FailCore ==
  ASSUME CoreInv, parsing # "none", NEW how \in {"assert", "noText", "pastEnd"}, Fail(how)
  PROVE  CoreInv'
<1>1. /\ failure' = how /\ UNCHANGED <<doc, pass, output, aside, found>>
      /\ parsing' = parsing /\ at' = at /\ lists' = lists
  BY DEF Fail, parser
<1>2. parsing \in {"code", "quote", "list", "itemCode"} /\ lists \in Seq(ListType)
      /\ (lists # <<>> <=> parsing \in {"list", "itemCode"}) /\ at \in at..(Len(tokens) + 1)
  BY CoreFacts DEF DocTypeOK
<1> QED
  BY <1>1, <1>2, StayCore

\* The blank line ahead, if it is put out, and the line behind it.
LEMMA GapMoves ==
  ASSUME CoreInv, parsing # "none", AtBlank, ~AtEnd(Ahead),
         NEW depth \in Nat, NEW within \in Places, NEW x \in TokenType, x.n = tokens[Ahead].n
  PROVE  Moves(Gap(depth, within) \o <<x>>, tokens, at, Ahead + 1)
<1> DEFINE g == Inner("blank", tokens[at], Empty, depth, within)
<1>1. /\ at \in 1..Len(tokens) /\ Ahead = at + 1 /\ Ahead \in 1..Len(tokens) /\ ~AtEnd(at)
      /\ tokens[at] \in TokenType /\ DocTypeOK /\ Len(tokens) \in Nat /\ at \in Nat \ {0}
  BY ParseFacts
<1>2. g \in TokenType /\ g.n = tokens[at].n
  BY <1>1, GapType, InnerFields
<1>3. CASE tokens[at].type = "blank"
  <2>1. Gap(depth, within) = <<g>>
    BY <1>3 DEF Gap
  <2> HIDE DEF g
  <2>2. at \in 1..(Len(tokens) - 1) /\ Ahead + 1 = at + 2
    BY <1>1
  <2>3. Moves(<<g, x>>, tokens, at, at + 2)
    BY <1>1, <1>2, <2>2, CoreFacts, TwoMove DEF OrderInv
  <2>4. <<g>> \o <<x>> = <<g, x>>
    BY <1>2, PairIsConcatenation
  <2> QED
    BY <2>1, <2>2, <2>3, <2>4
<1>4. CASE tokens[at].type # "blank"
  <2>1. Gap(depth, within) = <<>>
    BY <1>4 DEF Gap
  <2>2. <<>> \o <<x>> = <<x>>
    OBVIOUS
  <2>3. Moves(<<x>>, tokens, Ahead, Ahead + 1)
    BY <1>1, CoreFacts, OneMoves
  <2>4. Moves(<<x>>, tokens, at, Ahead + 1)
    BY <1>1, <2>3, CoreFacts, MovesFrom
  <2> QED
    BY <2>1, <2>2, <2>4
<1> QED
  BY <1>3, <1>4

LEMMA QuoteTurnCore ==
  ASSUME CoreInv, QuoteTurn
  PROVE  CoreInv'
<1>1. parsing = "quote" /\ lists = <<>> /\ lists \in Seq(ListType)
  BY CoreFacts DEF QuoteTurn, QuoteMeetsNoText, QuoteLine, QuoteAfterBlank, EndOfQuote, Parses, DocTypeOK
<1>2. {"text", "blank"} \subseteq Classes /\ "quote" \in Places
  BY DEF Classes, Places
<1>3. CASE QuoteMeetsNoText
  BY <1>1, <1>3, FailCore DEF QuoteMeetsNoText
<1>4. CASE QuoteLine
  <2> DEFINE type == IF IsBlank(Behind(Level, tokens[at].line)) THEN "blank" ELSE "text"
             x == Quoted(type, tokens[at])
  <2>1. Collect(<<x>>, at + 1) /\ parsing' = parsing /\ lists' = lists /\ ~AtEnd(Ahead) /\ ~AtBlank
    BY <1>4 DEF QuoteLine, QuoteGoesOn
  <2>2. at \in 1..Len(tokens) /\ tokens[at] \in TokenType /\ DocTypeOK /\ next <= Len(tokens)
    BY <1>1, <2>1, ParseFacts
  <2>3. x \in TokenType /\ x.n = tokens[at].n
    <3>1. type \in Classes
      BY <1>2
    <3> HIDE DEF type
    <3> QED
      BY <2>2, <3>1, QuotedType, InnerFields DEF Quoted
  <2> HIDE DEF x
  <2>4. Moves(<<x>>, tokens, at, at + 1)
    BY <2>2, <2>3, CoreFacts, OneMoves
  <2> QED
    BY <1>1, <2>1, <2>4, CollectCore
<1>5. CASE QuoteAfterBlank
  <2> DEFINE x == Quoted("text", tokens[Ahead])
  <2>1. /\ Collect(Gap(Current.depth + 1, "quote") \o <<x>>, at + 2) /\ parsing' = parsing
        /\ lists' = lists /\ ~AtEnd(Ahead) /\ AtBlank
    BY <1>5 DEF QuoteAfterBlank, QuoteGoesOn, AfterBlank
  <2>2. /\ Ahead = at + 1 /\ tokens[Ahead] \in TokenType /\ DocTypeOK /\ next <= Len(tokens)
        /\ Current.depth + 1 \in Nat /\ at + 2 = Ahead + 1
    BY <1>1, <2>1, ParseFacts
  <2>3. x \in TokenType /\ x.n = tokens[Ahead].n
    BY <1>2, <2>2, QuotedType, InnerFields DEF Quoted
  <2> HIDE DEF x
  <2>4. Moves(Gap(Current.depth + 1, "quote") \o <<x>>, tokens, at, Ahead + 1)
    BY <1>1, <1>2, <2>1, <2>2, <2>3, GapMoves
  <2> QED
    BY <1>1, <2>1, <2>2, <2>4, CollectCore
<1>6. CASE EndOfQuote
  <2>1. \E i \in at..(Len(tokens) + 1) : PutBack(i)
    BY <1>1, <1>6, ParseFacts DEF EndOfQuote
  <2> QED
    BY <1>1, <2>1, PutBackCore
<1> QED
  BY <1>3, <1>4, <1>5, <1>6 DEF QuoteTurn

-----------------------------------------------------------------------------
(* CoreInv: lists; and what follows from it.                               *)
LEMMA ListTurnCore ==
  ASSUME CoreInv, ListTurn
  PROVE  CoreInv'
<1>1. /\ parsing = "list" /\ parsing # "none" /\ DocTypeOK /\ lists # <<>> /\ lists \in Seq(ListType)
      /\ ItemDepth \in Nat \ {0}
  <2>1. parsing = "list"
    BY DEF ListTurn, BeginSublist, Assertion, IsNoSublist, IsNoText, NextItem, ContinueItem, ContinueAfterBlank,
           BeginItemCode, EndOfSublist, EndOfList, FalseAlarm, OtherLine, ListLine, ListEnds, Parses
  <2> QED
    BY <2>1, ListFacts, CoreFacts
<1>2. {"text", "blank", "code", "list", "item"} \subseteq Classes /\ {"item", "list"} \subseteq Places
  BY DEF Classes, Places
<1>3. ASSUME ListLine
      PROVE  /\ Ahead \in at..Len(tokens) /\ Ahead \in 1..Len(tokens) /\ tokens[Ahead] \in TokenType
             /\ tokens[Ahead].line \in Seq(LineMarker) /\ at \in Nat \ {0} /\ at <= Ahead
  <2>1. ~AtEnd(Ahead)
    BY <1>3 DEF ListLine
  <2> QED
    BY <1>1, <2>1, ParseFacts
\* An item that begins at the line ahead.
<1>4. ASSUME ListLine, NEW depth \in Nat \ {0}
      PROVE  Moves(Item(tokens[Ahead], depth), tokens, at, Ahead + 1)
  BY <1>3, <1>4, CoreFacts, ItemMoves, MovesFrom
<1>5. ASSUME ListLine, NEW x \in TokenType, x.n = tokens[Ahead].n, AtBlank
      PROVE  Moves(Gap(ItemDepth, "item") \o <<x>>, tokens, at, Ahead + 1)
  <2>1. ~AtEnd(Ahead) /\ ItemDepth \in Nat /\ "item" \in Places
    BY <1>1, <1>2, <1>5 DEF ListLine
  <2> QED
    BY <1>1, <1>5, <2>1, GapMoves
<1>6. \A t \in TokenType : /\ Continued(t) \in TokenType /\ Continued(t).n = t.n
                           /\ Code(t) \in TokenType /\ Code(t).n = t.n
  <2> TAKE t \in TokenType
  <2>1. t.line \in Seq(LineMarker)
    BY DEF TokenType
  <2>2. Stripped(t.line) \in Seq(LineMarker) /\ Empty \in Seq(LineMarker)
    BY <2>1, LineTypes
  <2> QED
    BY <1>1, <1>2, <2>2, InnerMade, InnerFields DEF Continued, Code
<1>7. OneMore \in Seq(ListType) /\ OneMore # <<>>
  BY <1>1, ListFacts
<1>8. CASE BeginSublist
  <2> DEFINE c == Container("list", ItemDepth, "item")
             s == Item(tokens[Ahead], ItemDepth + 2)
             l == tokens[Ahead].line
  <2>1. /\ ListLine /\ IsItem(l) /\ Collect(<<c>> \o s, Ahead + 1)
        /\ lists' = Append(OneMore, ListOf(l)) /\ parsing' = parsing
    BY <1>8 DEF BeginSublist
  <2>2. c \in TokenType /\ c.n = 0
    BY <1>1, <1>2, ContainerMade, ContainerFields
  <2>3. ItemDepth + 2 \in Nat \ {0}
    BY <1>1
  <2>4. Moves(s, tokens, at, Ahead + 1)
    BY <1>4, <2>1, <2>3
  <2>5. l # Empty /\ l \in Seq(LineMarker)
    BY <1>3, <2>1 DEF IsItem, IsBulleted, Kind, Bullets
  <2>6. ListOf(l) \in ListType
    BY <1>1, <2>5, ListFacts
  <2> HIDE DEF c, s, l
  <2>7. Moves(<<c>> \o s, tokens, at, Ahead + 1)
    BY <2>2, <2>4, CoreFacts, ContainerMoves
  <2>8. lists' \in Seq(ListType) /\ lists' # <<>>
    BY <1>7, <2>1, <2>6, AppendProperties
  <2> QED
    BY <1>1, <2>1, <2>7, <2>8, CollectCore
<1>9. CASE Assertion
  BY <1>1, <1>9, FailCore DEF Assertion
<1>10. CASE NextItem
  <2>1. /\ ListLine /\ Collect(Item(tokens[Ahead], ItemDepth), Ahead + 1)
        /\ lists' = OneMore /\ parsing' = parsing
    BY <1>10 DEF NextItem
  <2>2. Moves(Item(tokens[Ahead], ItemDepth), tokens, at, Ahead + 1)
    BY <1>1, <1>4, <2>1
  <2> QED
    BY <1>1, <1>7, <2>1, <2>2, CollectCore
<1>11. CASE ContinueItem
  <2>1. /\ ListLine /\ ~AtBlank /\ Collect(<<Continued(tokens[at])>>, at + 1)
        /\ lists' = lists /\ parsing' = parsing
    BY <1>11 DEF ContinueItem, OtherLine
  <2>2. at \in 1..Len(tokens) /\ tokens[at] \in TokenType
    BY <1>1, <1>3, <2>1, ParseFacts
  <2>3. Moves(<<Continued(tokens[at])>>, tokens, at, at + 1)
    BY <1>6, <2>2, CoreFacts, OneMoves
  <2> QED
    BY <1>1, <2>1, <2>3, CollectCore
<1>12. CASE ContinueAfterBlank
  <2>1. /\ ListLine /\ AtBlank
        /\ Collect(Gap(ItemDepth, "item") \o <<Continued(tokens[Ahead])>>, Ahead + 1)
        /\ lists' = lists /\ parsing' = parsing
    BY <1>12 DEF ContinueAfterBlank, OtherLine
  <2>2. Moves(Gap(ItemDepth, "item") \o <<Continued(tokens[Ahead])>>, tokens, at, Ahead + 1)
    BY <1>3, <1>5, <1>6, <2>1
  <2> QED
    BY <1>1, <2>1, <2>2, CollectCore
<1>13. CASE BeginItemCode
  <2>1. /\ ListLine /\ AtBlank
        /\ Collect(Gap(ItemDepth, "item") \o <<Code(tokens[Ahead])>>, Ahead + 1)
        /\ lists' = OneMore /\ parsing' = "itemCode"
    BY <1>13 DEF BeginItemCode, OtherLine
  <2>2. Moves(Gap(ItemDepth, "item") \o <<Code(tokens[Ahead])>>, tokens, at, Ahead + 1)
    BY <1>3, <1>5, <1>6, <2>1
  <2> QED
    BY <1>1, <1>7, <2>1, <2>2, CollectCore
<1>14. ListEnd \in at..(Len(tokens) + 1)
  BY <1>1, ParseFacts DEF ListEnd
<1>15. CASE EndOfSublist
  <2>1. /\ Len(lists) > 1 /\ lists' = Front(lists) /\ at' = ListEnd
        /\ UNCHANGED <<doc, pass, output, aside, failure, parsing, found>>
    BY <1>15 DEF EndOfSublist
  <2>2. lists' \in Seq(ListType) /\ Len(lists') = Len(lists) - 1
    <3>1. Len(lists) \in Nat /\ \A k \in 1..(Len(lists) - 1) : lists[k] \in ListType
      BY <1>1
    <3>2. lists' = SubSeq(lists, 1, Len(lists) - 1)
      BY <2>1 DEF Front
    <3> QED
      BY <2>1, <3>1, <3>2, SubSeqProperties
  <2>3. lists' # <<>>
    BY <1>1, <2>1, <2>2
  <2>4. failure \in {"none", "assert", "noText", "pastEnd"}
    BY <1>1 DEF DocTypeOK
  <2> QED
    BY <1>1, <1>14, <2>1, <2>2, <2>3, <2>4, StayCore
<1>16. CASE EndOfList
  BY <1>1, <1>14, <1>16, PutBackCore DEF EndOfList
<1>17. CASE FalseAlarm
  <2>1. PutOut(<<Current>>, next + 1) /\ pass = "blocks" /\ next \in 1..Len(tokens)
        /\ Current \in TokenType /\ Current = tokens[next]
    BY <1>1, <1>17, ParseFacts DEF FalseAlarm
  <2>2. Moves(<<Current>>, tokens, next, next + 1)
    BY <2>1, CoreFacts, OneMoves
  <2> QED
    BY <2>1, <2>2, PutOutCore
<1> QED
  BY <1>8, <1>9, <1>10, <1>11, <1>12, <1>13, <1>15, <1>16, <1>17 DEF ListTurn

LEMMA ItemCodeTurnCore ==
  ASSUME CoreInv, ItemCodeTurn
  PROVE  CoreInv'
<1>1. parsing = "itemCode" /\ parsing # "none" /\ DocTypeOK /\ lists # <<>> /\ lists \in Seq(ListType)
  BY CoreFacts DEF ItemCodeTurn, ItemCodeLine, ItemCodeMeetsEnd, ItemCodeMeetsNoText,
                   EndOfItemCode, Parses, DocTypeOK
<1>2. CASE ItemCodeLine
  <2>1. /\ Collect(<<Code(tokens[Ahead])>>, Ahead + 1) /\ ~AtEnd(Ahead)
        /\ parsing' = parsing /\ lists' = lists
    BY <1>2 DEF ItemCodeLine
  <2>2. /\ Ahead \in 1..Len(tokens) /\ tokens[Ahead] \in TokenType /\ at \in Nat \ {0} /\ at <= Ahead
        /\ ItemDepth \in Nat
    BY <1>1, <2>1, ParseFacts, ListFacts
  <2>3. Code(tokens[Ahead]) \in TokenType /\ Code(tokens[Ahead]).n = tokens[Ahead].n
    <3>1. Empty \in Seq(LineMarker) /\ "code" \in Classes /\ "item" \in Places
      BY DEF Empty, Classes, Places
    <3> QED
      BY <2>2, <3>1, InnerMade, InnerFields DEF Code
  <2>4. Moves(<<Code(tokens[Ahead])>>, tokens, at, Ahead + 1)
    BY <2>2, <2>3, CoreFacts, OneMoves, MovesFrom
  <2> QED
    BY <1>1, <2>1, <2>4, CollectCore
<1>3. CASE ItemCodeMeetsEnd
  BY <1>1, <1>3, FailCore DEF ItemCodeMeetsEnd
<1>4. CASE ItemCodeMeetsNoText
  BY <1>1, <1>4, FailCore DEF ItemCodeMeetsNoText
<1>5. CASE EndOfItemCode
  <2>1. parsing' = "list" /\ UNCHANGED <<doc, pass, output, aside, failure, at, found, lists>>
    BY <1>5 DEF EndOfItemCode
  <2>2. failure \in {"none", "assert", "noText", "pastEnd"} /\ at \in at..(Len(tokens) + 1)
    BY <1>1, ParseFacts DEF DocTypeOK
  <2> QED
    BY <1>1, <2>1, <2>2, StayCore
<1> QED
  BY <1>2, <1>3, <1>4, <1>5 DEF ItemCodeTurn

LEMMA CoreInitially ==
  ASSUME DocInit
  PROVE  CoreInv
<1>1. /\ doc = <<>> /\ pass = "read" /\ tokens = <<>> /\ next = 1 /\ processed = <<>> /\ aside = {}
      /\ failure = "none" /\ parsing = "none" /\ at = 1 /\ found = <<>> /\ lists = <<>>
  BY DEF DocInit
<1>2. /\ <<>> \in Seq(TokenType) /\ <<>> \in Seq(SourceLines) /\ <<>> \in Seq(ListType)
  OBVIOUS
<1>3. DocTypeOK
  BY <1>1, <1>2 DEF DocTypeOK
<1>4. ReadInv /\ StateInv
  BY <1>1 DEF ReadInv, StateInv
<1>5. OrderInv
  BY <1>1, PrecedesNothing DEF OrderInv
<1> QED
  BY <1>3, <1>4, <1>5 DEF CoreInv

\* Every step keeps CoreInv.
LEMMA CoreStep ==
  ASSUME CoreInv, [DocNext]_docVars
  PROVE  CoreInv'
<1>1. ASSUME NEW l \in SourceLines, ReadLine(l) PROVE CoreInv'
  BY <1>1, ReadCore
<1>2. CASE EndOfStream
  <2>1. /\ pass = "read" /\ EndPass("html") /\ tokens' = tokens
        /\ parsing = "none" /\ found = <<>>
    BY <1>2, CoreFacts DEF EndOfStream, ReadInv
  <2> QED
    BY <2>1, EndPassCore
<1>3. CASE HtmlTurn
  <2>1. CASE HtmlPassEnds
    <3>1. EndPass("blocks") /\ tokens' = processed /\ parsing = "none" /\ found = <<>>
      BY <2>1, CoreFacts DEF HtmlPassEnds, ReadInv
    <3> QED
      BY <3>1, EndPassCore
  <2> QED
    BY <1>3, <2>1, HtmlCore DEF HtmlTurn
<1>4. CASE ParagraphTurn
  <2>1. CASE ParagraphsPassEnds
    <3>1. EndPass("done") /\ tokens' = processed /\ parsing = "none" /\ found = <<>>
      BY <2>1, CoreFacts DEF ParagraphsPassEnds, StateInv
    <3> QED
      BY <3>1, EndPassCore
  <2> QED
    BY <1>4, <2>1, ParagraphCore DEF ParagraphTurn
<1>5. CASE UNCHANGED docVars
  BY <1>5 DEF docVars, output, parser, CoreInv, DocTypeOK, ReadInv, StateInv, OrderInv, From
<1> QED
  BY <1>1, <1>2, <1>3, <1>4, <1>5, BlockTurnCore, CodeTurnCore, QuoteTurnCore, ListTurnCore,
     ItemCodeTurnCore DEF DocNext

LEMMA CoreInvHolds == DocSpec => []CoreInv
<1>1. DocInit => CoreInv
  BY CoreInitially
<1>2. CoreInv /\ [DocNext]_docVars => CoreInv'
  BY CoreStep
<1> QED
  BY <1>1, <1>2, PTL DEF DocSpec

(* For documents of any length and lines with any number of markers, the   *)
(* iterators stay within the tokens or at their end, and that of a parse   *)
(* function is ahead of the pass, also behind a container that was put back *)
(* (markdown.cpp:759-790).                                                 *)
THEOREM DocTypeCorrect == DocSpec => []DocTypeOK
<1>1. CoreInv => DocTypeOK
  BY DEF CoreInv
<1> QED
  BY <1>1, CoreInvHolds, PTL

(* For any document, no pass takes a line up twice or out of its turn,     *)
(* although each looks ahead, takes back and nests (markdown.cpp:694-829). *)
THEOREM LinesInOrderHolds == DocSpec => []LinesInOrder
<1>1. CoreInv => LinesInOrder
  BY DEF CoreInv, OrderInv, LinesInOrder
<1> QED
  BY <1>1, CoreInvHolds, PTL
-----------------------------------------------------------------------------
(* Emphasis: its inductive invariant.                                      *)
(* Every match has two markers, an open before a close, of one character   *)
(* and size.                                                               *)
Mates(k, l) == Paired(k, l) /\ tgt[k].size = tgt[l].size /\ tgt[k].char = tgt[l].char

PairsInv ==
  /\ \A k \in 1..Len(tgt) : tgt[k].id # Unmatched =>
       \E l \in 1..Len(tgt) : Mates(k, l) \/ Mates(l, k)
  /\ \A k, l \in 1..Len(tgt) :
       tgt[k].id # Unmatched /\ tgt[k].id = tgt[l].id /\ tgt[k].open = tgt[l].open => k = l

(* The open at k has been compared with the closes before n.  It would     *)
(* have split a close of size 3, or been split by one that it does not fit.*)
Passed(k, n) ==
  \A l \in (k + 1)..(n - 1) : IsUnmatchedClose(tgt[l]) =>
    /\ tgt[k].size # 3 /\ tgt[l].size # 3
    /\ tgt[k].char # tgt[l].char \/ tgt[k].size # tgt[l].size

Searching == pc \in {"open", "close"}

SearchInv ==
  /\ Searching => openMatches = <<>>
  /\ Searching => \A k \in 1..(ii - 1) : IsUnmatchedOpen(tgt[k]) => Passed(k, Len(tgt) + 1)
  /\ pc = "close" => /\ ii < iii /\ ii <= Len(tgt)
                     /\ IsUnmatchedOpen(tgt[ii])
                     /\ Passed(ii, iii)

OnStack(k) == \E n \in 1..Len(openMatches) : openMatches[n] = k

(* The stack holds positions before ii, in the order of the line.          *)
Ascending ==
  /\ \A m, n \in 1..Len(openMatches) : m < n => openMatches[m] < openMatches[n]
  /\ \A n \in 1..Len(openMatches) : openMatches[n] < ii

(* Some opens on it may have lost their matches, but not the top.          *)
TopIsMatched == openMatches # <<>> => tgt[openMatches[Len(openMatches)]].id # Unmatched

(* The others are those whose closes are still to come.                    *)
AwaitedOnStack ==
  \A k, l \in 1..Len(tgt) : Paired(k, l) /\ k < ii => (OnStack(k) <=> ii <= l)

(* Nothing on the stack lies within a pair that is closed, so no pair to   *)
(* come overlaps it; nor do the pairs that are closed overlap each other.  *)
NoneWithin ==
  \A k, l \in 1..Len(tgt) : Paired(k, l) /\ l < ii =>
    \A n \in 1..Len(openMatches) : ~(k < openMatches[n] /\ openMatches[n] < l)

ClosedNest ==
  \A k, l, m, n \in 1..Len(tgt) :
    Paired(k, m) /\ Paired(l, n) /\ n < ii => ~(k < l /\ l < m /\ m < n)

StackInv == Ascending /\ TopIsMatched /\ AwaitedOnStack /\ NoneWithin /\ ClosedNest

IInv == /\ TypeOK
        /\ PairsInv
        /\ SearchInv
        /\ ~Searching => StackInv
        /\ pc = "done" => ii > Len(tgt)
        /\ NoneOverlooked

-----------------------------------------------------------------------------
(* Splitting.                                                              *)
\* The markers of tgt, of which the ids are below n.
Marker(n) == [open : BOOLEAN, char : Chars, size : 0..3, disabled : BOOLEAN,
              id : Unmatched..(n - 1)]

\* Where the marker at j is after the marker at k has been split.
Moved(k, j) == IF j <= k THEN j ELSE j + 2

LEMMA NewIsMarker ==
  ASSUME NEW n \in Nat, NEW open \in BOOLEAN, NEW c \in Chars, NEW s \in 0..3
  PROVE  New(open, c, s) \in Marker(n)
<1>1. Unmatched \in Unmatched..(n - 1)
  BY DEF Unmatched
<1> QED
  BY <1>1 DEF New, Marker

LEMMA DisabledIsMarker ==
  ASSUME NEW n \in Nat, NEW m \in Marker(n)
  PROVE  /\ m.open \in BOOLEAN /\ m.char \in Chars /\ m.size \in 0..3
         /\ [m EXCEPT !.disabled = TRUE] \in Marker(n)
BY DEF Marker

LEMMA LineIsTyped ==
  ASSUME NEW l \in Lines
  PROVE  l \in Seq(Marker(0)) /\ \A k \in 1..Len(l) : l[k].id = Unmatched
<1>1. \A k \in 1..Len(l) : /\ l[k] \in MarkerType /\ l[k].size \in 1..3
                           /\ l[k] = New(l[k].open, l[k].char, l[k].size)
  BY EmphasisAssumption
<1>2. \A k \in 1..Len(l) : l[k] \in Marker(0) /\ l[k].id = Unmatched
  <2> SUFFICES ASSUME NEW k \in 1..Len(l)
               PROVE  l[k] \in Marker(0) /\ l[k].id = Unmatched
    OBVIOUS
  <2>1. l[k].open \in BOOLEAN /\ l[k].char \in Chars /\ l[k].size \in 0..3
    BY <1>1 DEF MarkerType
  <2>2. New(l[k].open, l[k].char, l[k].size) \in Marker(0)
    BY <2>1, NewIsMarker
  <2>3. New(l[k].open, l[k].char, l[k].size).id = Unmatched
    BY DEF New
  <2> QED
    BY <1>1, <2>2, <2>3
<1>3. l \in Seq(MarkerType)
  BY EmphasisAssumption
<1>4. Len(l) \in Nat /\ l = [k \in 1..Len(l) |-> l[k]]
  BY <1>3, LenProperties
<1>5. l \in [1..Len(l) -> Marker(0)]
  BY <1>2, <1>4
<1> QED
  BY <1>2, <1>4, <1>5, SeqDef

\* In t three elements stand for the one at k in s.
IsThreeForOne(t, s, k, x, y, z, S) ==
  /\ t \in Seq(S) /\ Len(t) = Len(s) + 2
  /\ t[k] = x /\ t[k + 1] = y /\ t[k + 2] = z
  /\ \A j \in 1..(k - 1) : t[j] = s[j]
  /\ \A j \in (k + 1)..Len(s) : t[j + 2] = s[j]

LEMMA ThreeForOne ==
  ASSUME NEW S, NEW s \in Seq(S), NEW k \in 1..Len(s), NEW x \in S, NEW y \in S, NEW z \in S
  PROVE  IsThreeForOne(SubSeq(s, 1, k - 1) \o <<x, y, z>> \o SubSeq(s, k + 1, Len(s)),
                       s, k, x, y, z, S)
<1> DEFINE before == SubSeq(s, 1, k - 1)
           parts == <<x, y, z>>
           behind == SubSeq(s, k + 1, Len(s))
           front == before \o parts
           t == front \o behind
<1>0. Len(s) \in Nat
  OBVIOUS
<1>1. parts \in Seq(S) /\ Len(parts) = 3 /\ parts[1] = x /\ parts[2] = y /\ parts[3] = z
  OBVIOUS
<1>2. /\ before \in Seq(S) /\ Len(before) = k - 1
      /\ \A j \in 1..(k - 1) : before[j] = s[j]
  <2>1. \A i \in 1..(k - 1) : s[i] \in S
    OBVIOUS
  <2>2. /\ before \in Seq(S) /\ Len(before) = IF 1 <= k - 1 THEN k - 1 - 1 + 1 ELSE 0
        /\ \A i \in 1..(k - 1 - 1 + 1) : before[i] = s[1 + i - 1]
    BY <2>1, SubSeqProperties
  <2> QED
    BY <2>2
<1>3. /\ behind \in Seq(S) /\ Len(behind) = Len(s) - k
      /\ \A j \in 1..(Len(s) - k) : behind[j] = s[k + j]
  <2>1. \A i \in (k + 1)..Len(s) : s[i] \in S
    OBVIOUS
  <2>2. /\ behind \in Seq(S)
        /\ Len(behind) = IF k + 1 <= Len(s) THEN Len(s) - (k + 1) + 1 ELSE 0
        /\ \A i \in 1..(Len(s) - (k + 1) + 1) : behind[i] = s[k + 1 + i - 1]
    BY <1>0, <2>1, SubSeqProperties
  <2> QED
    BY <1>0, <2>2
<1>10. t = SubSeq(s, 1, k - 1) \o <<x, y, z>> \o SubSeq(s, k + 1, Len(s))
  OBVIOUS
<1> HIDE DEF before, parts, behind
<1>4. /\ front \in Seq(S) /\ Len(front) = k + 2
      /\ \A j \in 1..(k + 2) : front[j] = IF j <= k - 1 THEN before[j] ELSE parts[j - (k - 1)]
  <2>1. /\ front \in Seq(S) /\ Len(front) = Len(before) + Len(parts)
        /\ \A j \in 1..(Len(before) + Len(parts)) :
             front[j] = IF j <= Len(before) THEN before[j] ELSE parts[j - Len(before)]
    BY <1>1, <1>2, ConcatProperties
  <2>2. Len(before) = k - 1 /\ Len(parts) = 3 /\ k - 1 + 3 = k + 2
    BY <1>1, <1>2
  <2> QED
    BY <2>1, <2>2
<1> HIDE DEF front
<1>5. /\ t \in Seq(S) /\ Len(t) = Len(s) + 2
      /\ \A j \in 1..(Len(s) + 2) : t[j] = IF j <= k + 2 THEN front[j] ELSE behind[j - (k + 2)]
  <2>1. /\ t \in Seq(S) /\ Len(t) = Len(front) + Len(behind)
        /\ \A j \in 1..(Len(front) + Len(behind)) :
             t[j] = IF j <= Len(front) THEN front[j] ELSE behind[j - Len(front)]
    BY <1>3, <1>4, ConcatProperties
  <2>2. Len(front) = k + 2 /\ k + 2 + (Len(s) - k) = Len(s) + 2
    BY <1>0, <1>4
  <2> QED
    BY <1>3, <2>1, <2>2
<1> HIDE DEF t
<1>6. /\ k \in 1..(Len(s) + 2) /\ k + 1 \in 1..(Len(s) + 2) /\ k + 2 \in 1..(Len(s) + 2)
      /\ k - (k - 1) = 1 /\ k + 1 - (k - 1) = 2 /\ k + 2 - (k - 1) = 3
  BY <1>0
<1>7. t[k] = parts[1] /\ t[k + 1] = parts[2] /\ t[k + 2] = parts[3]
  BY <1>4, <1>5, <1>6
<1>8. ASSUME NEW j \in 1..(k - 1)
      PROVE  t[j] = s[j]
  <2>1. j \in 1..(Len(s) + 2) /\ j \in 1..(k + 2) /\ j <= k + 2 /\ j <= k - 1
    BY <1>0
  <2>2. t[j] = front[j] /\ front[j] = before[j]
    BY <1>4, <1>5, <2>1
  <2> QED
    BY <1>2, <2>2
<1>9. ASSUME NEW j \in (k + 1)..Len(s)
      PROVE  t[j + 2] = s[j]
  <2>1. /\ j + 2 \in 1..(Len(s) + 2) /\ ~(j + 2 <= k + 2) /\ j + 2 - (k + 2) = j - k
        /\ j - k \in 1..(Len(s) - k) /\ k + (j - k) = j
    BY <1>0
  <2>2. t[j + 2] = behind[j - k]
    BY <1>5, <2>1
  <2> QED
    BY <1>3, <2>1, <2>2
<1> QED
  BY <1>1, <1>5, <1>7, <1>8, <1>9, <1>10 DEF IsThreeForOne

\* t is tgt with the marker at k split into a and b, and its ids are below n.
IsSplitOf(t, k, a, b, n) ==
  /\ t \in Seq(Marker(n)) /\ Len(t) = Len(tgt) + 2
  /\ t[k] = [tgt[k] EXCEPT !.disabled = TRUE]
  /\ t[k + 1] = New(tgt[k].open, tgt[k].char, a)
  /\ t[k + 2] = New(tgt[k].open, tgt[k].char, b)
  /\ \A j \in 1..Len(tgt) : j # k => t[Moved(k, j)] = tgt[j]
  /\ \A i \in 1..Len(t) \ {k, k + 1, k + 2} : \E j \in 1..Len(tgt) : j # k /\ i = Moved(k, j)

LEMMA SplitShape ==
  ASSUME NEW n \in Nat, tgt \in Seq(Marker(n)), NEW k \in 1..Len(tgt),
         NEW a \in 0..3, NEW b \in 0..3
  PROVE  IsSplitOf(Split(k, a, b), k, a, b, n)
<1> DEFINE t == Split(k, a, b)
<1>0. Len(tgt) \in Nat
  OBVIOUS
<1>1. tgt[k] \in Marker(n)
  OBVIOUS
<1>2. /\ [tgt[k] EXCEPT !.disabled = TRUE] \in Marker(n)
      /\ New(tgt[k].open, tgt[k].char, a) \in Marker(n)
      /\ New(tgt[k].open, tgt[k].char, b) \in Marker(n)
  BY <1>1, DisabledIsMarker, NewIsMarker
<1>3. /\ t \in Seq(Marker(n)) /\ Len(t) = Len(tgt) + 2
      /\ t[k] = [tgt[k] EXCEPT !.disabled = TRUE]
      /\ t[k + 1] = New(tgt[k].open, tgt[k].char, a)
      /\ t[k + 2] = New(tgt[k].open, tgt[k].char, b)
      /\ \A j \in 1..(k - 1) : t[j] = tgt[j]
      /\ \A j \in (k + 1)..Len(tgt) : t[j + 2] = tgt[j]
  <2> DEFINE x == [tgt[k] EXCEPT !.disabled = TRUE]
             y == New(tgt[k].open, tgt[k].char, a)
             z == New(tgt[k].open, tgt[k].char, b)
  <2>1. t = SubSeq(tgt, 1, k - 1) \o <<x, y, z>> \o SubSeq(tgt, k + 1, Len(tgt))
    BY DEF Split
  <2>2. x \in Marker(n) /\ y \in Marker(n) /\ z \in Marker(n)
    BY <1>2
  <2> DEFINE S == Marker(n)
  <2> HIDE DEF t, x, y, z, S
  <2>3. tgt \in Seq(S) /\ x \in S /\ y \in S /\ z \in S
    BY <2>2 DEF S
  <2>4. IsThreeForOne(t, tgt, k, x, y, z, S)
    BY <2>1, <2>3, ThreeForOne
  <2> QED
    BY <2>4 DEF IsThreeForOne, S, x, y, z
<1> HIDE DEF t
<1>4. ASSUME NEW j \in 1..Len(tgt), j # k
      PROVE  t[Moved(k, j)] = tgt[j]
  <2>1. CASE j \in 1..(k - 1)
    BY <1>3, <2>1 DEF Moved
  <2>2. CASE j \in (k + 1)..Len(tgt)
    BY <1>3, <2>2 DEF Moved
  <2> QED
    BY <1>0, <1>4, <2>1, <2>2
<1>5. ASSUME NEW i \in 1..Len(t) \ {k, k + 1, k + 2}
      PROVE  \E j \in 1..Len(tgt) : j # k /\ i = Moved(k, j)
  <2>1. CASE i < k
    BY <1>0, <2>1 DEF Moved
  <2>2. CASE i > k
    <3>1. i # k + 1 /\ i # k + 2 /\ i \in Int /\ i <= Len(tgt) + 2
      BY <1>0, <1>3, <1>5
    <3>2. i - 2 \in 1..Len(tgt) /\ i - 2 # k /\ ~(i - 2 <= k) /\ (i - 2) + 2 = i
      BY <1>0, <2>2, <3>1
    <3>3. i = Moved(k, i - 2)
      BY <3>2 DEF Moved
    <3> QED
      BY <3>2, <3>3
  <2> QED
    BY <1>0, <1>3, <1>5, <2>1, <2>2
<1> QED
  BY <1>3, <1>4, <1>5 DEF IsSplitOf, t

-----------------------------------------------------------------------------
LEMMA Types ==
  ASSUME TypeOK
  PROVE  /\ id \in Nat /\ tgt \in Seq(Marker(id)) /\ Len(tgt) \in Nat
         /\ ii \in 1..(Len(tgt) + 1) /\ iii \in 1..(Len(tgt) + 1)
         /\ openMatches \in Seq(1..Len(tgt)) /\ Len(openMatches) \in Nat
         /\ \A n \in 1..Len(openMatches) : openMatches[n] \in 1..Len(tgt)
         /\ \A k \in 1..Len(tgt) : /\ tgt[k].size \in 0..3 /\ tgt[k].id \in Unmatched..(id - 1)
                                   /\ tgt[k].char \in Chars
<1>1. id \in Nat /\ tgt \in Seq(Marker(id))
  BY DEF TypeOK, Marker
<1>2. \A k \in 1..Len(tgt) : tgt[k] \in Marker(id)
  BY <1>1
<1>3. \A k \in 1..Len(tgt) : /\ tgt[k].size \in 0..3 /\ tgt[k].id \in Unmatched..(id - 1)
                             /\ tgt[k].char \in Chars
  BY <1>2 DEF Marker
<1> QED
  BY <1>1, <1>3 DEF TypeOK

(* What meets when the search is at a close.                               *)
LEMMA TheTwo ==
  ASSUME TypeOK, SearchInv, AtClose
  PROVE  /\ ii \in 1..Len(tgt) /\ iii \in 1..Len(tgt) /\ ii < iii
         /\ IsUnmatchedOpen(tgt[ii]) /\ IsUnmatchedClose(tgt[iii])
         /\ Searching
BY Types DEF SearchInv, AtClose, Searching

(* What a split does: at k it is of a close for SplitClose, and of the     *)
(* open for SplitOpen.                                                     *)
IsSplit(k) == \E a, b \in 0..3 : a + b = tgt[k].size /\ IsSplitOf(tgt', k, a, b, id)

LEMMA SplitIsSplit ==
  ASSUME TypeOK, NEW k \in 1..Len(tgt), NEW b \in 0..3, tgt[k].size = 3,
         tgt' = Split(k, tgt[k].size - b, b)
  PROVE  IsSplit(k)
<1>1. 3 - b \in 0..3 /\ (3 - b) + b = 3
  OBVIOUS
<1>2. IsSplitOf(Split(k, 3 - b, b), k, 3 - b, b, id)
  BY <1>1, Types, SplitShape
<1> QED
  BY <1>1, <1>2 DEF IsSplit

LEMMA SplitCloseSplits ==
  ASSUME TypeOK, SearchInv, SplitClose
  PROVE  IsSplit(iii)
BY Types, TheTwo, SplitIsSplit DEF SplitClose, ToBeSplit

LEMMA SplitOpenSplits ==
  ASSUME TypeOK, SearchInv, SplitOpen
  PROVE  IsSplit(ii)
BY Types, TheTwo, SplitIsSplit DEF SplitOpen

LEMMA MatchShape ==
  ASSUME TypeOK, SearchInv, Match
  PROVE  /\ Len(tgt') = Len(tgt)
         /\ \A S : (\A k \in 1..Len(tgt) : tgt[k] \in S /\ [tgt[k] EXCEPT !.id = id] \in S)
                     => tgt' \in Seq(S)
         /\ \A k \in 1..Len(tgt) :
              tgt'[k] = IF k \in {ii, iii} THEN [tgt[k] EXCEPT !.id = id] ELSE tgt[k]
<1>1. /\ tgt \in Seq(Marker(id)) /\ Len(tgt) \in Nat /\ DOMAIN tgt = 1..Len(tgt)
      /\ ii \in 1..Len(tgt) /\ iii \in 1..Len(tgt) /\ ii # iii
  BY Types, TheTwo DEF Match
<1>2. tgt' = [k \in 1..Len(tgt) |-> IF k \in {ii, iii} THEN [tgt[k] EXCEPT !.id = id] ELSE tgt[k]]
  <2>1. tgt = [k \in 1..Len(tgt) |-> tgt[k]]
    BY <1>1, LenProperties
  <2>2. tgt' = [[tgt EXCEPT ![ii] = [tgt[ii] EXCEPT !.id = id]]
                    EXCEPT ![iii] = [tgt[iii] EXCEPT !.id = id]]
    BY <1>1 DEF Match
  <2> QED
    BY <1>1, <2>1, <2>2
<1> QED
  BY <1>1, <1>2

LEMMA UnmatchShape ==
  ASSUME TypeOK, Unmatch
  PROVE  /\ Len(tgt') = Len(tgt) /\ tgt' \in Seq(Marker(id))
         /\ \A k \in 1..Len(tgt) :
              tgt'[k] = IF tgt[k].id = tgt[ii].id THEN [tgt[k] EXCEPT !.id = Unmatched]
                                                  ELSE tgt[k]
<1>1. /\ id \in Nat /\ Len(tgt) \in Nat /\ Unmatched \in Unmatched..(id - 1)
      /\ \A k \in 1..Len(tgt) : tgt[k] \in Marker(id)
  <2>1. id \in Nat /\ Len(tgt) \in Nat /\ tgt \in Seq(Marker(id))
    BY Types
  <2> QED
    BY <2>1 DEF Unmatched
<1>2. \A k \in 1..Len(tgt) : [tgt[k] EXCEPT !.id = Unmatched] \in Marker(id)
  BY <1>1 DEF Marker
<1> QED
  BY <1>1, <1>2 DEF Unmatch

LEMMA TypeNext == TypeOK /\ SearchInv /\ [Next]_vars => TypeOK'
<1> SUFFICES ASSUME TypeOK, SearchInv, [Next]_vars
             PROVE  TypeOK'
  OBVIOUS
<1>0. /\ id \in Nat /\ tgt \in Seq(Marker(id)) /\ Len(tgt) \in Nat
      /\ ii \in 1..(Len(tgt) + 1) /\ iii \in 1..(Len(tgt) + 1)
      /\ openMatches \in Seq(1..Len(tgt)) /\ line \in Lines
      /\ pc \in {"open", "close", "unmatch", "done"}
  BY Types DEF TypeOK
<1> DEFINE Type == /\ line \in Lines /\ id \in Nat /\ tgt \in Seq(Marker(id))
                   /\ ii \in 1..(Len(tgt) + 1) /\ iii \in 1..(Len(tgt) + 1)
                   /\ openMatches \in Seq(1..Len(tgt))
                   /\ pc \in {"open", "close", "unmatch", "done"}
<1> SUFFICES Type'
  BY DEF TypeOK, Marker
<1>1. CASE FindOpen
  BY <1>0, <1>1 DEF FindOpen
<1>2. CASE SplitClose
  <2>1. tgt' \in Seq(Marker(id)) /\ Len(tgt') = Len(tgt) + 2
    BY <1>2, SplitCloseSplits DEF IsSplit, IsSplitOf
  <2>2. openMatches' = <<>> /\ iii \in 1..Len(tgt) /\ ii \in 1..Len(tgt)
    BY <1>2, TheTwo DEF SplitClose, SearchInv
  <2> QED
    BY <1>0, <1>2, <2>1, <2>2 DEF SplitClose
<1>3. CASE Match
  <2>1. Marker(id) \subseteq Marker(id')
    BY <1>0, <1>3 DEF Match, Marker, Unmatched
  <2>2. \A k \in 1..Len(tgt) : /\ tgt[k] \in Marker(id')
                               /\ [tgt[k] EXCEPT !.id = id] \in Marker(id')
    <3>1. id \in Unmatched..(id' - 1)
      BY <1>0, <1>3 DEF Match, Unmatched
    <3>2. \A k \in 1..Len(tgt) : tgt[k] \in Marker(id')
      BY <1>0, <2>1
    <3> QED
      BY <3>1, <3>2 DEF Marker
  <2>3. Len(tgt') = Len(tgt) /\ tgt' \in Seq(Marker(id'))
    BY <1>3, <2>2, MatchShape
  <2> QED
    BY <1>0, <1>3, <2>3, TheTwo DEF Match, NextOpen
<1>4. CASE SplitOpen
  <2>1. tgt' \in Seq(Marker(id)) /\ Len(tgt') = Len(tgt) + 2
    BY <1>4, SplitOpenSplits DEF IsSplit, IsSplitOf
  <2>2. openMatches' = <<>> /\ iii \in 1..Len(tgt) /\ ii \in 1..Len(tgt)
    BY <1>4, TheTwo DEF SplitOpen, SearchInv
  <2> QED
    BY <1>0, <1>4, <2>1, <2>2 DEF SplitOpen, NextOpen
<1>5. CASE PassOver
  BY <1>0, <1>5 DEF PassOver
<1>6. CASE GiveUp
  BY <1>0, <1>6 DEF GiveUp, NextOpen, SearchInv
<1>7. CASE EndOfOpens
  BY <1>0, <1>7 DEF EndOfOpens
<1>8. CASE PushOpen
  BY <1>0, <1>8 DEF PushOpen, InUnmatch
<1>9. CASE Unmatch
  <2>1. tgt' \in Seq(Marker(id)) /\ Len(tgt') = Len(tgt)
    BY <1>9, UnmatchShape
  <2> QED
    BY <1>0, <1>9, <2>1 DEF Unmatch, InUnmatch
<1>10. CASE PopOpens
  BY <1>0, <1>10 DEF PopOpens, InUnmatch
<1>11. CASE Skip
  BY <1>0, <1>11 DEF Skip, InUnmatch
<1>12. CASE Return
  BY <1>0, <1>12 DEF Return
<1>13. CASE UNCHANGED vars
  BY <1>0, <1>13 DEF vars
<1> QED
  BY <1>1, <1>2, <1>3, <1>4, <1>5, <1>6, <1>7, <1>8, <1>9, <1>10, <1>11, <1>12, <1>13
  DEF Next

-----------------------------------------------------------------------------
(* A marker after the split that is matched, or that was there before, is  *)
(* the moved marker of one before.                                         *)
LEMMA SplitOrigin ==
  ASSUME TypeOK, NEW k \in 1..Len(tgt), IsSplit(k), ~tgt[k].disabled, tgt[k].id = Unmatched
  PROVE  /\ Len(tgt') = Len(tgt) + 2
         /\ tgt'[k].disabled /\ tgt'[k].id = Unmatched /\ tgt'[k].open = tgt[k].open
         /\ \A i \in {k + 1, k + 2} : tgt'[i].id = Unmatched /\ tgt'[i].open = tgt[k].open
         /\ \A j \in 1..Len(tgt) : j # k => /\ Moved(k, j) \in 1..Len(tgt')
                                            /\ tgt'[Moved(k, j)] = tgt[j]
         /\ \A i \in 1..Len(tgt') :
              i \in {k, k + 1, k + 2} \/ \E j \in 1..Len(tgt) : j # k /\ i = Moved(k, j)
<1>1. PICK a \in 0..3, b \in 0..3 : IsSplitOf(tgt', k, a, b, id)
  BY DEF IsSplit
<1>2. Len(tgt) \in Nat /\ tgt[k] \in Marker(id)
  BY Types
<1>3. tgt'[k].disabled /\ tgt'[k].id = Unmatched /\ tgt'[k].open = tgt[k].open
  BY <1>1, <1>2 DEF IsSplitOf, Marker
<1>4. \A i \in {k + 1, k + 2} : tgt'[i].id = Unmatched /\ tgt'[i].open = tgt[k].open
  BY <1>1 DEF IsSplitOf, New
<1>5. \A j \in 1..Len(tgt) : Moved(k, j) \in 1..(Len(tgt) + 2)
  BY <1>2 DEF Moved
<1> QED
  BY <1>1, <1>3, <1>4, <1>5 DEF IsSplitOf

LEMMA MovedKeepsOrder ==
  ASSUME NEW n \in Nat, NEW k \in 1..n, NEW i \in 1..n, NEW j \in 1..n
  PROVE  /\ i < j <=> Moved(k, i) < Moved(k, j)
         /\ i = j <=> Moved(k, i) = Moved(k, j)
         /\ i < k => Moved(k, i) = i
         /\ i > k => Moved(k, i) = i + 2
BY DEF Moved

LEMMA SplitKeepsPairs ==
  ASSUME TypeOK, PairsInv, NEW k \in 1..Len(tgt), IsSplit(k),
         ~tgt[k].disabled, tgt[k].id = Unmatched
  PROVE  PairsInv'
<1>0. Len(tgt) \in Nat
  BY Types
<1>1. \A i \in 1..Len(tgt') : tgt'[i].id # Unmatched =>
        \E j \in 1..Len(tgt) : j # k /\ i = Moved(k, j) /\ tgt'[i] = tgt[j]
  <2> SUFFICES ASSUME NEW i \in 1..Len(tgt'), tgt'[i].id # Unmatched
               PROVE  \E j \in 1..Len(tgt) : j # k /\ i = Moved(k, j) /\ tgt'[i] = tgt[j]
    OBVIOUS
  <2>1. i \notin {k, k + 1, k + 2}
    BY SplitOrigin
  <2>2. PICK j \in 1..Len(tgt) : j # k /\ i = Moved(k, j)
    BY <2>1, SplitOrigin
  <2>3. tgt'[Moved(k, j)] = tgt[j]
    BY <2>2, SplitOrigin
  <2> QED
    BY <2>2, <2>3
<1>2. ASSUME NEW i \in 1..Len(tgt'), tgt'[i].id # Unmatched
      PROVE  \E l \in 1..Len(tgt') : Mates(i, l)' \/ Mates(l, i)'
  <2>1. PICK j \in 1..Len(tgt) : j # k /\ i = Moved(k, j) /\ tgt'[i] = tgt[j]
    BY <1>1, <1>2
  <2>2. PICK m \in 1..Len(tgt) : Mates(j, m) \/ Mates(m, j)
    BY <1>2, <2>1 DEF PairsInv
  <2>3. m # k
    BY <2>2 DEF Mates, Paired, IsMatchedOpen, IsMatchedClose
  <2>4. Moved(k, m) \in 1..Len(tgt') /\ tgt'[Moved(k, m)] = tgt[m]
    BY <2>3, SplitOrigin
  <2>5. (j < m <=> i < Moved(k, m)) /\ (m < j <=> Moved(k, m) < i)
    BY <1>0, <2>1, MovedKeepsOrder
  <2>6. Mates(i, Moved(k, m))' \/ Mates(Moved(k, m), i)'
    BY <2>1, <2>2, <2>4, <2>5 DEF Mates, Paired, IsMatchedOpen, IsMatchedClose
  <2> QED
    BY <2>4, <2>6
<1>3. ASSUME NEW i \in 1..Len(tgt'), NEW l \in 1..Len(tgt'), tgt'[i].id # Unmatched,
             tgt'[i].id = tgt'[l].id, tgt'[i].open = tgt'[l].open
      PROVE  i = l
  <2>1. PICK j \in 1..Len(tgt) : j # k /\ i = Moved(k, j) /\ tgt'[i] = tgt[j]
    BY <1>1, <1>3
  <2>2. PICK m \in 1..Len(tgt) : m # k /\ l = Moved(k, m) /\ tgt'[l] = tgt[m]
    BY <1>1, <1>3
  <2>3. j = m
    BY <1>3, <2>1, <2>2 DEF PairsInv
  <2> QED
    BY <2>1, <2>2, <2>3
<1> QED
  BY <1>2, <1>3 DEF PairsInv

(* The id of a new match is a new one.                                     *)
LEMMA MatchKeepsPairs ==
  ASSUME TypeOK, SearchInv, PairsInv, Match
  PROVE  PairsInv'
<1>0. /\ ii \in 1..Len(tgt) /\ iii \in 1..Len(tgt) /\ ii < iii
      /\ IsUnmatchedOpen(tgt[ii]) /\ IsUnmatchedClose(tgt[iii])
  BY TheTwo DEF Match
<1>1. /\ Len(tgt') = Len(tgt) /\ id \in Nat
      /\ \A k \in 1..Len(tgt) : tgt[k].id # id /\ tgt[k] \in Marker(id)
  BY Types, MatchShape DEF Unmatched
<1>2. \A k \in 1..Len(tgt) :
        /\ tgt'[k].id = IF k \in {ii, iii} THEN id ELSE tgt[k].id
        /\ tgt'[k].open = tgt[k].open /\ tgt'[k].size = tgt[k].size /\ tgt'[k].char = tgt[k].char
  <2> SUFFICES ASSUME NEW k \in 1..Len(tgt)
               PROVE  /\ tgt'[k].id = IF k \in {ii, iii} THEN id ELSE tgt[k].id
                      /\ tgt'[k].open = tgt[k].open /\ tgt'[k].size = tgt[k].size
                      /\ tgt'[k].char = tgt[k].char
    OBVIOUS
  <2>1. tgt'[k] = IF k \in {ii, iii} THEN [tgt[k] EXCEPT !.id = id] ELSE tgt[k]
    BY MatchShape
  <2> QED
    BY <1>1, <2>1 DEF Marker
<1>3. \A k, l \in 1..Len(tgt) : k = ii /\ l = iii => Mates(k, l)'
  BY <1>0, <1>1, <1>2 DEF Match, Fits, Mates, Paired, IsMatchedOpen, IsMatchedClose,
                          IsUnmatchedOpen, IsUnmatchedClose, Unmatched
<1>4. ASSUME NEW k \in 1..Len(tgt), tgt'[k].id # Unmatched
      PROVE  \E l \in 1..Len(tgt) : Mates(k, l)' \/ Mates(l, k)'
  <2>1. CASE k \in {ii, iii}
    BY <1>0, <1>3, <2>1
  <2>2. CASE k \notin {ii, iii}
    <3>1. tgt[k].id # Unmatched
      BY <1>2, <1>4, <2>2
    <3>2. PICK l \in 1..Len(tgt) : Mates(k, l) \/ Mates(l, k)
      BY <3>1 DEF PairsInv
    <3>3. l \notin {ii, iii}
      BY <1>0, <3>2 DEF Mates, Paired, IsMatchedOpen, IsMatchedClose, IsUnmatchedOpen,
                        IsUnmatchedClose
    <3> QED
      BY <1>2, <2>2, <3>2, <3>3 DEF Mates, Paired, IsMatchedOpen, IsMatchedClose
  <2> QED
    BY <2>1, <2>2
<1>5. ASSUME NEW k \in 1..Len(tgt), NEW l \in 1..Len(tgt), tgt'[k].id # Unmatched,
             tgt'[k].id = tgt'[l].id, tgt'[k].open = tgt'[l].open
      PROVE  k = l
  <2>1. CASE k \in {ii, iii}
    BY <1>0, <1>1, <1>2, <1>5, <2>1 DEF IsUnmatchedOpen, IsUnmatchedClose
  <2>2. CASE k \notin {ii, iii}
    BY <1>1, <1>2, <1>5, <2>2 DEF PairsInv
  <2> QED
    BY <2>1, <2>2
<1> QED
  BY <1>1, <1>4, <1>5 DEF PairsInv

LEMMA UnmatchKeepsPairs ==
  ASSUME TypeOK, PairsInv, Unmatch
  PROVE  /\ PairsInv'
         /\ \A k \in 1..Len(tgt) : /\ tgt'[k].open = tgt[k].open
                                   /\ tgt'[k].id = IF tgt[k].id = tgt[ii].id THEN Unmatched
                                                                            ELSE tgt[k].id
<1>1. Len(tgt') = Len(tgt) /\ \A k \in 1..Len(tgt) : tgt[k] \in Marker(id)
  BY Types, UnmatchShape
<1>2. \A k \in 1..Len(tgt) :
        /\ tgt'[k].id = IF tgt[k].id = tgt[ii].id THEN Unmatched ELSE tgt[k].id
        /\ tgt'[k].open = tgt[k].open /\ tgt'[k].size = tgt[k].size /\ tgt'[k].char = tgt[k].char
  BY <1>1, UnmatchShape DEF Marker
<1>3. ASSUME NEW k \in 1..Len(tgt), tgt'[k].id # Unmatched
      PROVE  \E l \in 1..Len(tgt) : Mates(k, l)' \/ Mates(l, k)'
  <2>1. tgt[k].id # Unmatched /\ tgt[k].id # tgt[ii].id
    BY <1>2, <1>3
  <2>2. PICK l \in 1..Len(tgt) : Mates(k, l) \/ Mates(l, k)
    BY <2>1 DEF PairsInv
  <2>3. tgt[l].id = tgt[k].id
    BY <2>2 DEF Mates, Paired
  <2> QED
    BY <1>2, <2>1, <2>2, <2>3 DEF Mates, Paired, IsMatchedOpen, IsMatchedClose
<1>4. ASSUME NEW k \in 1..Len(tgt), NEW l \in 1..Len(tgt), tgt'[k].id # Unmatched,
             tgt'[k].id = tgt'[l].id, tgt'[k].open = tgt'[l].open
      PROVE  k = l
  BY <1>2, <1>4 DEF PairsInv
<1> QED
  BY <1>1, <1>2, <1>3, <1>4 DEF PairsInv

LEMMA PairsNext == TypeOK /\ SearchInv /\ PairsInv /\ [Next]_vars => PairsInv'
<1> SUFFICES ASSUME TypeOK, SearchInv, PairsInv, [Next]_vars
             PROVE  PairsInv'
  OBVIOUS
<1>1. CASE SplitClose
  BY <1>1, TheTwo, SplitCloseSplits, SplitKeepsPairs DEF SplitClose, IsUnmatchedClose
<1>2. CASE Match
  BY <1>2, MatchKeepsPairs
<1>3. CASE SplitOpen
  BY <1>3, TheTwo, SplitOpenSplits, SplitKeepsPairs DEF SplitOpen, IsUnmatchedOpen
<1>4. CASE Unmatch
  BY <1>4, UnmatchKeepsPairs
<1>5. CASE UNCHANGED tgt
  BY <1>5 DEF PairsInv, Mates, Paired, IsMatchedOpen, IsMatchedClose
<1>6. UNCHANGED tgt \/ SplitClose \/ Match \/ SplitOpen \/ Unmatch
  BY DEF Next, FindOpen, PassOver, GiveUp, EndOfOpens, PushOpen, PopOpens, Skip, Return, vars
<1> QED
  BY <1>1, <1>2, <1>3, <1>4, <1>5, <1>6

-----------------------------------------------------------------------------
LEMMA SearchNext == TypeOK /\ SearchInv /\ [Next]_vars => SearchInv'
<1> SUFFICES ASSUME TypeOK, SearchInv, [Next]_vars
             PROVE  SearchInv'
  OBVIOUS
<1>0. Len(tgt) \in Nat /\ ii \in 1..(Len(tgt) + 1) /\ iii \in 1..(Len(tgt) + 1)
  BY Types
<1> DEFINE Before == \A k \in 1..(ii - 1) : IsUnmatchedOpen(tgt[k]) => Passed(k, Len(tgt) + 1)
<1>1. CASE FindOpen
  <2>1. /\ pc = "open" /\ ii <= Len(tgt) /\ UNCHANGED <<tgt, openMatches>> /\ openMatches = <<>>
        /\ Before
    BY <1>1 DEF FindOpen, SearchInv, Searching
  <2>2. CASE IsUnmatchedOpen(tgt[ii])
    <3>1. pc' = "close" /\ iii' = ii + 1 /\ ii' = ii
      BY <1>1, <2>2 DEF FindOpen
    <3>2. Before' /\ Passed(ii, iii)'
      BY <1>0, <2>1, <3>1 DEF Passed
    <3> QED
      BY <1>0, <2>1, <2>2, <3>1, <3>2 DEF SearchInv, Searching
  <2>3. CASE ~IsUnmatchedOpen(tgt[ii])
    <3>1. pc' = "open" /\ ii' = ii + 1
      BY <1>1, <2>1, <2>3 DEF FindOpen
    <3>2. Before'
      BY <1>0, <2>1, <2>3, <3>1 DEF Passed
    <3> QED
      BY <2>1, <3>1, <3>2 DEF SearchInv, Searching
  <2> QED
    BY <2>2, <2>3
<1>2. CASE SplitClose
  <2>0. /\ ii \in 1..Len(tgt) /\ iii \in 1..Len(tgt) /\ ii < iii
        /\ IsUnmatchedOpen(tgt[ii]) /\ IsUnmatchedClose(tgt[iii]) /\ IsSplit(iii)
        /\ tgt[iii].size = 3 /\ openMatches = <<>>
        /\ Before /\ Passed(ii, iii)
    BY <1>2, TheTwo, SplitCloseSplits DEF SplitClose, ToBeSplit, SearchInv, AtClose, Searching
  <2>1. /\ pc' = "close" /\ ii' = ii /\ iii' = iii + 1 /\ openMatches' = openMatches
        /\ Len(tgt') = Len(tgt) + 2 /\ tgt'[iii].disabled
    BY <1>2, <2>0, SplitOrigin DEF SplitClose, AtClose, IsUnmatchedClose
  <2>2. \A k \in 1..(iii - 1) : tgt'[k] = tgt[k]
    <3> SUFFICES ASSUME NEW k \in 1..(iii - 1)
                 PROVE  tgt'[k] = tgt[k]
      OBVIOUS
    <3>1. k \in 1..Len(tgt) /\ k # iii /\ Moved(iii, k) = k
      BY <1>0, <2>0 DEF Moved
    <3> QED
      BY <2>0, <3>1, SplitOrigin DEF IsUnmatchedClose
  <2>3. \A k \in 1..(ii - 1) : ~IsUnmatchedOpen(tgt[k])
    <3> SUFFICES ASSUME NEW k \in 1..(ii - 1), IsUnmatchedOpen(tgt[k])
                 PROVE  FALSE
      OBVIOUS
    <3>1. Passed(k, Len(tgt) + 1) /\ iii \in (k + 1)..(Len(tgt) + 1 - 1)
      BY <1>0, <2>0
    <3> QED
      BY <2>0, <3>1 DEF Passed
  <2>4. Before'
    BY <1>0, <2>0, <2>1, <2>2, <2>3
  <2>5. Passed(ii, iii)'
    <3>1. \A l \in (ii + 1)..(iii + 1 - 1) : l = iii \/ l \in (ii + 1)..(iii - 1)
      BY <1>0
    <3> QED
      BY <1>0, <2>0, <2>1, <2>2, <3>1 DEF Passed, IsUnmatchedClose
  <2> QED
    BY <1>0, <2>0, <2>1, <2>2, <2>4, <2>5 DEF SearchInv, Searching
<1>3. CASE Match
  <2>0. /\ ii \in 1..Len(tgt) /\ iii \in 1..Len(tgt) /\ ii < iii
        /\ openMatches = <<>> /\ Before
    BY <1>3, TheTwo DEF Match, SearchInv
  <2>1. /\ pc' = "open" /\ ii' = ii + 1 /\ openMatches' = openMatches /\ Len(tgt') = Len(tgt)
        /\ id # Unmatched /\ \A k \in 1..Len(tgt) : tgt[k] \in Marker(id)
    BY <1>3, Types, MatchShape DEF Match, NextOpen, Unmatched
  <2>2. \A k \in 1..Len(tgt) : IF k \in {ii, iii} THEN tgt'[k].id # Unmatched
                                                  ELSE tgt'[k] = tgt[k]
    BY <1>3, <2>1, MatchShape DEF Marker
  <2>3. Before'
    <3>0. ii' - 1 = ii /\ Len(tgt') + 1 - 1 = Len(tgt)
      BY <1>0, <2>1
    <3> SUFFICES ASSUME NEW k \in 1..ii, IsUnmatchedOpen(tgt'[k]),
                        NEW l \in (k + 1)..Len(tgt), IsUnmatchedClose(tgt'[l])
                 PROVE  /\ tgt'[k].size # 3 /\ tgt'[l].size # 3
                        /\ tgt'[k].char # tgt'[l].char \/ tgt'[k].size # tgt'[l].size
      BY <3>0 DEF Passed
    <3>1. k # ii /\ tgt'[k] = tgt[k] /\ tgt'[l] = tgt[l]
      BY <1>0, <2>0, <2>2 DEF IsUnmatchedOpen, IsUnmatchedClose
    <3>2. Passed(k, Len(tgt) + 1) /\ l \in (k + 1)..(Len(tgt) + 1 - 1)
      BY <1>0, <2>0, <3>1
    <3> QED
      BY <3>1, <3>2 DEF Passed
  <2> QED
    BY <2>0, <2>1, <2>3 DEF SearchInv, Searching
<1>4. CASE SplitOpen
  <2>0. /\ ii \in 1..Len(tgt) /\ IsUnmatchedOpen(tgt[ii]) /\ IsSplit(ii)
        /\ openMatches = <<>> /\ Before
    BY <1>4, TheTwo, SplitOpenSplits DEF SplitOpen, SearchInv
  <2>1. /\ pc' = "open" /\ ii' = ii + 1 /\ openMatches' = openMatches
        /\ Len(tgt') = Len(tgt) + 2
        /\ tgt'[ii].disabled
        /\ \A i \in {ii, ii + 1, ii + 2} : tgt'[i].open
    BY <1>4, <2>0, SplitOrigin DEF SplitOpen, NextOpen, IsUnmatchedOpen
  <2>2. Before'
    <3> SUFFICES ASSUME NEW k \in 1..ii, IsUnmatchedOpen(tgt'[k]),
                        NEW l \in (k + 1)..(Len(tgt) + 2), IsUnmatchedClose(tgt'[l])
                 PROVE  /\ tgt'[k].size # 3 /\ tgt'[l].size # 3
                        /\ tgt'[k].char # tgt'[l].char \/ tgt'[k].size # tgt'[l].size
      BY <1>0, <2>1 DEF Passed
    <3>1. k # ii /\ k \in 1..(ii - 1) /\ k \in 1..Len(tgt)
      BY <1>0, <2>0, <2>1 DEF IsUnmatchedOpen
    <3>2. Moved(ii, k) = k
      BY <2>0, <3>1 DEF Moved
    <3>3. tgt'[k] = tgt[k]
      BY <2>0, <3>1, <3>2, SplitOrigin DEF IsUnmatchedOpen
    <3>4. l \notin {ii, ii + 1, ii + 2} /\ l \in 1..Len(tgt')
      BY <1>0, <2>1 DEF IsUnmatchedClose
    <3>5. PICK j \in 1..Len(tgt) : j # ii /\ l = Moved(ii, j) /\ tgt'[l] = tgt[j]
      BY <2>0, <3>4, SplitOrigin DEF IsUnmatchedOpen
    <3>6. j > k
      BY <1>0, <2>0, <3>1, <3>2, <3>5, MovedKeepsOrder
    <3>7. Passed(k, Len(tgt) + 1) /\ j \in (k + 1)..(Len(tgt) + 1 - 1)
      BY <1>0, <2>0, <3>1, <3>3, <3>6
    <3> QED
      BY <3>3, <3>5, <3>7 DEF Passed
  <2> QED
    BY <2>0, <2>1, <2>2 DEF SearchInv, Searching
<1>5. CASE PassOver
  <2>0. /\ pc = "close" /\ pc' = pc /\ iii <= Len(tgt) /\ ii < iii /\ ii <= Len(tgt)
        /\ tgt' = tgt /\ ii' = ii /\ openMatches' = openMatches /\ iii' = iii + 1
        /\ Before /\ Passed(ii, iii) /\ openMatches = <<>> /\ IsUnmatchedOpen(tgt[ii])
    BY <1>5 DEF PassOver, SearchInv, Searching
  <2>1. Before'
    BY <2>0 DEF Passed
  <2>2. Passed(ii, iii)'
    <3>1. IsUnmatchedClose(tgt[iii]) =>
            /\ tgt[ii].size # 3 /\ tgt[iii].size # 3
            /\ tgt[ii].char # tgt[iii].char \/ tgt[ii].size # tgt[iii].size
      BY <1>5, <2>0 DEF PassOver, AtClose, ToBeSplit, Fits
    <3>2. \A l \in (ii + 1)..(iii + 1 - 1) : l = iii \/ l \in (ii + 1)..(iii - 1)
      BY <1>0
    <3>3. \A l \in (ii + 1)..(iii + 1 - 1) : IsUnmatchedClose(tgt[l]) =>
            /\ tgt[ii].size # 3 /\ tgt[l].size # 3
            /\ tgt[ii].char # tgt[l].char \/ tgt[ii].size # tgt[l].size
      BY <2>0, <3>1, <3>2 DEF Passed
    <3>4. \A l \in (ii' + 1)..(iii' - 1) : l \in (ii + 1)..(iii + 1 - 1)
      BY <1>0, <2>0
    <3> QED
      BY <2>0, <3>3, <3>4 DEF Passed, IsUnmatchedOpen, IsUnmatchedClose
  <2> QED
    BY <1>0, <2>0, <2>1, <2>2 DEF SearchInv, Searching
<1>6. CASE GiveUp
  <2>0. /\ pc = "close" /\ pc' = "open" /\ iii > Len(tgt) /\ ii <= Len(tgt)
        /\ tgt' = tgt /\ openMatches' = openMatches /\ ii' = ii + 1
        /\ Before /\ Passed(ii, iii) /\ openMatches = <<>>
    BY <1>6 DEF GiveUp, NextOpen, SearchInv, Searching
  <2>1. iii = Len(tgt) + 1
    BY <1>0, <2>0
  <2>2. Before'
    <3>0. tgt' = tgt /\ ii' - 1 = ii /\ Len(tgt) + 1 - 1 = Len(tgt)
      BY <1>0, <2>0
    <3> SUFFICES ASSUME NEW k \in 1..ii, IsUnmatchedOpen(tgt[k]),
                        NEW l \in (k + 1)..Len(tgt), IsUnmatchedClose(tgt[l])
                 PROVE  /\ tgt[k].size # 3 /\ tgt[l].size # 3
                        /\ tgt[k].char # tgt[l].char \/ tgt[k].size # tgt[l].size
      BY <3>0 DEF Passed, IsUnmatchedOpen, IsUnmatchedClose
    <3>1. CASE k = ii
      BY <2>0, <2>1, <3>1 DEF Passed
    <3>2. CASE k # ii
      <4>1. k \in 1..(ii - 1) /\ l \in (k + 1)..(Len(tgt) + 1 - 1)
        BY <1>0, <3>2
      <4> QED
        BY <2>0, <4>1 DEF Passed
    <3> QED
      BY <3>1, <3>2
  <2> QED
    BY <2>0, <2>2 DEF SearchInv, Searching
<1>7. CASE pc' \in {"unmatch", "done"}
  BY <1>7 DEF SearchInv, Searching
<1>8. CASE UNCHANGED vars
  BY <1>8 DEF vars, SearchInv, Searching, Passed
<1>9. ASSUME EndOfOpens \/ PushOpen \/ Unmatch \/ PopOpens \/ Skip \/ Return
      PROVE  pc' \in {"unmatch", "done"}
  BY <1>9 DEF EndOfOpens, PushOpen, Unmatch, PopOpens, Skip, Return, InUnmatch
<1> QED
  BY <1>1, <1>2, <1>3, <1>4, <1>5, <1>6, <1>7, <1>8, <1>9 DEF Next

-----------------------------------------------------------------------------
(* Each match has one open and one close.                                  *)
LEMMA OneMate ==
  ASSUME TypeOK, PairsInv
  PROVE  /\ \A k \in 1..Len(tgt) : IsMatchedClose(tgt[k]) =>
              \E l \in 1..Len(tgt) : Paired(l, k)
         /\ \A k, l, m \in 1..Len(tgt) : Paired(k, m) /\ Paired(l, m) => k = l
         /\ \A k, l, m \in 1..Len(tgt) : Paired(m, k) /\ Paired(m, l) => k = l
         /\ \A k, l, m \in 1..Len(tgt) :
              Paired(k, l) /\ tgt[m].id = tgt[k].id => m = k \/ m = l
<1>1. \A k \in 1..Len(tgt) : IsMatchedClose(tgt[k]) => \E l \in 1..Len(tgt) : Paired(l, k)
  BY DEF PairsInv, Mates, Paired, IsMatchedClose, IsMatchedOpen
<1>2. \A k, l, m \in 1..Len(tgt) :
        Paired(k, l) /\ tgt[m].id = tgt[k].id => m = k \/ m = l
  <2> SUFFICES ASSUME NEW k \in 1..Len(tgt), NEW l \in 1..Len(tgt), NEW m \in 1..Len(tgt),
                      Paired(k, l), tgt[m].id = tgt[k].id
               PROVE  m = k \/ m = l
    OBVIOUS
  <2>1. \A j \in 1..Len(tgt) : tgt[j].open \in BOOLEAN
    <3>1. \A j \in 1..Len(tgt) : tgt[j] \in Marker(id)
      BY Types
    <3> QED
      BY <3>1 DEF Marker
  <2>2. CASE tgt[m].open
    BY <2>1, <2>2 DEF PairsInv, Paired, IsMatchedOpen, IsMatchedClose
  <2>3. CASE ~tgt[m].open
    BY <2>1, <2>3 DEF PairsInv, Paired, IsMatchedOpen, IsMatchedClose
  <2> QED
    BY <2>2, <2>3
<1>3. \A k, l, m \in 1..Len(tgt) : Paired(k, m) /\ Paired(l, m) => k = l
  BY <1>2 DEF Paired, IsMatchedOpen, IsMatchedClose
<1>4. \A k, l, m \in 1..Len(tgt) : Paired(m, k) /\ Paired(m, l) => k = l
  BY <1>2 DEF Paired, IsMatchedOpen, IsMatchedClose
<1> QED
  BY <1>1, <1>2, <1>3, <1>4

LEMMA PushOpenStack ==
  ASSUME TypeOK, PairsInv, StackInv, PushOpen
  PROVE  StackInv'
<1>0. /\ Len(tgt) \in Nat /\ ii \in 1..Len(tgt) /\ ii' = ii + 1 /\ tgt' = tgt
      /\ IsMatchedOpen(tgt[ii])
      /\ Ascending /\ TopIsMatched /\ AwaitedOnStack /\ NoneWithin /\ ClosedNest
  BY Types DEF PushOpen, InUnmatch, StackInv
<1>1. /\ Len(openMatches) \in Nat /\ Len(openMatches') = Len(openMatches) + 1
      /\ \A n \in 1..Len(openMatches) : openMatches'[n] = openMatches[n]
      /\ openMatches'[Len(openMatches) + 1] = ii
      /\ \A n \in 1..(Len(openMatches) + 1) :
           n = Len(openMatches) + 1 \/ n \in 1..Len(openMatches)
      /\ \A n \in 1..Len(openMatches) : openMatches[n] \in Int /\ openMatches[n] < ii
  BY <1>0, Types DEF PushOpen, Ascending
<1>2. \A k, l : Paired(k, l)' <=> Paired(k, l)
  BY <1>0 DEF Paired, IsMatchedOpen, IsMatchedClose
<1>3. \A k, l \in 1..Len(tgt) : Paired(k, l) => k < l /\ l # ii
  BY <1>0 DEF Paired, IsMatchedOpen, IsMatchedClose
<1>4. Ascending'
  <2>1. \A m, n \in 1..(Len(openMatches) + 1) : m < n => openMatches'[m] < openMatches'[n]
    <3> SUFFICES ASSUME NEW m \in 1..(Len(openMatches) + 1), NEW n \in 1..(Len(openMatches) + 1),
                        m < n
                 PROVE  openMatches'[m] < openMatches'[n]
      OBVIOUS
    <3>1. m \in 1..Len(openMatches)
      BY <1>1
    <3>2. CASE n = Len(openMatches) + 1
      BY <1>1, <3>1, <3>2
    <3>3. CASE n \in 1..Len(openMatches)
      <4>1. openMatches[m] < openMatches[n]
        BY <1>0, <3>1, <3>3 DEF Ascending
      <4> QED
        BY <1>1, <3>1, <3>3, <4>1
    <3> QED
      BY <1>1, <3>2, <3>3
  <2>2. \A n \in 1..(Len(openMatches) + 1) : openMatches'[n] < ii + 1
    <3> SUFFICES ASSUME NEW n \in 1..(Len(openMatches) + 1)
                 PROVE  openMatches'[n] < ii + 1
      OBVIOUS
    <3>1. CASE n = Len(openMatches) + 1
      BY <1>0, <1>1, <3>1
    <3>2. CASE n \in 1..Len(openMatches)
      <4>1. openMatches[n] \in Int /\ openMatches[n] < ii /\ openMatches'[n] = openMatches[n]
        BY <1>1, <3>2
      <4> QED
        BY <1>0, <4>1
    <3> QED
      BY <1>1, <3>1, <3>2
  <2> QED
    BY <1>0, <1>1, <2>1, <2>2 DEF Ascending
<1>5. TopIsMatched'
  BY <1>0, <1>1 DEF TopIsMatched, IsMatchedOpen
<1>6. AwaitedOnStack'
  <2> SUFFICES ASSUME NEW k \in 1..Len(tgt), NEW l \in 1..Len(tgt), Paired(k, l), k < ii + 1
               PROVE  OnStack(k)' <=> ii + 1 <= l
    BY <1>0, <1>2 DEF AwaitedOnStack
  <2>1. CASE k = ii
    BY <1>0, <1>1, <1>3, <2>1 DEF OnStack
  <2>2. CASE k < ii
    <3>1. OnStack(k)' <=> OnStack(k)
      BY <1>1, <2>2 DEF OnStack
    <3>2. OnStack(k) <=> ii <= l
      BY <1>0, <2>2 DEF AwaitedOnStack
    <3> QED
      BY <1>0, <1>3, <3>1, <3>2
  <2> QED
    BY <1>0, <2>1, <2>2
<1>7. NoneWithin'
  <2> SUFFICES ASSUME NEW k \in 1..Len(tgt), NEW l \in 1..Len(tgt), Paired(k, l), l < ii + 1,
                      NEW n \in 1..(Len(openMatches) + 1)
               PROVE  ~(k < openMatches'[n] /\ openMatches'[n] < l)
    BY <1>0, <1>1, <1>2 DEF NoneWithin
  <2>1. l < ii
    BY <1>0, <1>3
  <2>2. CASE n = Len(openMatches) + 1
    BY <1>0, <1>1, <2>1, <2>2
  <2>3. CASE n \in 1..Len(openMatches)
    BY <1>0, <1>1, <2>1, <2>3 DEF NoneWithin
  <2> QED
    BY <1>1, <2>2, <2>3
<1>8. ClosedNest'
  <2> SUFFICES ASSUME NEW k \in 1..Len(tgt), NEW l \in 1..Len(tgt), NEW m \in 1..Len(tgt),
                      NEW n \in 1..Len(tgt), Paired(k, m), Paired(l, n), n < ii + 1
               PROVE  ~(k < l /\ l < m /\ m < n)
    BY <1>0, <1>2 DEF ClosedNest
  <2>1. n < ii
    BY <1>0, <1>3
  <2> QED
    BY <1>0, <2>1 DEF ClosedNest
<1> QED
  BY <1>4, <1>5, <1>6, <1>7, <1>8 DEF StackInv

LEMMA UnmatchStack ==
  ASSUME TypeOK, PairsInv, StackInv, Unmatch
  PROVE  StackInv'
<1>0. /\ Len(tgt) \in Nat /\ ii \in 1..Len(tgt) /\ ii' = ii + 1 /\ openMatches' = openMatches
      /\ IsMatchedClose(tgt[ii]) /\ ~IsTop /\ Len(tgt') = Len(tgt)
      /\ Ascending /\ TopIsMatched /\ AwaitedOnStack /\ NoneWithin /\ ClosedNest
      /\ Len(openMatches) \in Nat
      /\ \A n \in 1..Len(openMatches) : openMatches[n] \in 1..Len(tgt)
  BY Types, UnmatchShape DEF Unmatch, InUnmatch, StackInv
<1>1. \A k \in 1..Len(tgt) : /\ tgt'[k].open = tgt[k].open
                             /\ tgt'[k].id = IF tgt[k].id = tgt[ii].id THEN Unmatched
                                                                      ELSE tgt[k].id
  BY UnmatchKeepsPairs
<1>2. \A k, l \in 1..Len(tgt) : Paired(k, l)' => Paired(k, l) /\ k # ii /\ l # ii
  BY <1>0, <1>1 DEF Paired, IsMatchedOpen, IsMatchedClose
<1>3. Ascending'
  BY <1>0 DEF Ascending
<1>4. TopIsMatched'
  <2> SUFFICES ASSUME openMatches # <<>>
               PROVE  tgt'[openMatches[Len(openMatches)]].id # Unmatched
    BY <1>0 DEF TopIsMatched
  <2>1. openMatches \in Seq(1..Len(tgt)) /\ Len(openMatches) \in 1..Len(openMatches)
    BY Types
  <2>2. openMatches[Len(openMatches)] \in 1..Len(tgt)
    BY <1>0, <2>1
  <2>3. tgt[openMatches[Len(openMatches)]].id # tgt[ii].id
    BY <1>0 DEF IsTop, Last
  <2> QED
    BY <1>0, <1>1, <2>2, <2>3 DEF TopIsMatched
<1>5. AwaitedOnStack'
  <2> SUFFICES ASSUME NEW k \in 1..Len(tgt), NEW l \in 1..Len(tgt), Paired(k, l)', k < ii + 1
               PROVE  OnStack(k)' <=> ii + 1 <= l
    BY <1>0 DEF AwaitedOnStack
  <2>1. Paired(k, l) /\ k < ii /\ l # ii
    BY <1>0, <1>2
  <2>2. OnStack(k)' <=> OnStack(k)
    BY <1>0 DEF OnStack
  <2>3. OnStack(k) <=> ii <= l
    BY <1>0, <2>1 DEF AwaitedOnStack
  <2> QED
    BY <1>0, <2>1, <2>2, <2>3
<1>6. NoneWithin'
  <2> SUFFICES ASSUME NEW k \in 1..Len(tgt), NEW l \in 1..Len(tgt), Paired(k, l)', l < ii + 1,
                      NEW n \in 1..Len(openMatches)
               PROVE  ~(k < openMatches[n] /\ openMatches[n] < l)
    BY <1>0 DEF NoneWithin
  <2>1. Paired(k, l) /\ l < ii
    BY <1>0, <1>2
  <2> QED
    BY <1>0, <2>1 DEF NoneWithin
<1>7. ClosedNest'
  <2> SUFFICES ASSUME NEW k \in 1..Len(tgt), NEW l \in 1..Len(tgt), NEW m \in 1..Len(tgt),
                      NEW n \in 1..Len(tgt), Paired(k, m)', Paired(l, n)', n < ii + 1
               PROVE  ~(k < l /\ l < m /\ m < n)
    BY <1>0 DEF ClosedNest
  <2>1. Paired(k, m) /\ Paired(l, n) /\ n < ii
    BY <1>0, <1>2
  <2> QED
    BY <1>0, <2>1 DEF ClosedNest
<1> QED
  BY <1>3, <1>4, <1>5, <1>6, <1>7 DEF StackInv

(* The top is the open of the match that is closed, and what goes from the *)
(* stack besides has lost its match.                                       *)
LEMMA PopOpensStack ==
  ASSUME TypeOK, PairsInv, StackInv, PopOpens
  PROVE  StackInv'
<1> DEFINE len == Len(openMatches)
           top == openMatches[len]
<1>0. /\ Len(tgt) \in Nat /\ ii \in 1..Len(tgt) /\ ii' = ii + 1 /\ tgt' = tgt
      /\ IsMatchedClose(tgt[ii]) /\ tgt[ii].id = tgt[top].id
      /\ Ascending /\ TopIsMatched /\ AwaitedOnStack /\ NoneWithin /\ ClosedNest
      /\ openMatches \in Seq(1..Len(tgt)) /\ len \in Nat
      /\ \A n \in 1..len : openMatches[n] \in 1..Len(tgt)
  BY Types DEF PopOpens, InUnmatch, StackInv, IsTop, Last
<1>1. PICK n \in 0..(len - 1) :
        /\ n > 0 => tgt[openMatches[n]].id # Unmatched
        /\ \A k \in (n + 1)..(len - 1) : tgt[openMatches[k]].id = Unmatched
        /\ openMatches' = SubSeq(openMatches, 1, n)
  BY DEF PopOpens
<1>2. /\ len \in 1..len /\ n < len /\ top \in 1..Len(tgt) /\ top < ii
      /\ \A m \in 1..n : m \in 1..len /\ m < len
  BY <1>0, <1>1 DEF Ascending
<1>3. /\ Len(openMatches') = n
      /\ \A m \in 1..n : openMatches'[m] = openMatches[m]
  BY <1>0, <1>1, <1>2
<1> HIDE DEF len, top
<1>4. Paired(top, ii)
  <2>1. PICK k \in 1..Len(tgt) : Paired(k, ii)
    BY <1>0, OneMate
  <2>2. tgt[top].id = tgt[k].id
    BY <1>0, <2>1 DEF Paired
  <2>3. top = k \/ top = ii
    BY <1>0, <1>2, <2>1, <2>2, OneMate
  <2> QED
    BY <1>0, <1>2, <2>1, <2>3
<1>5. \A k, l \in 1..Len(tgt) : Paired(k, l) => k < l /\ k # ii /\ (k = top <=> l = ii)
  <2> SUFFICES ASSUME NEW k \in 1..Len(tgt), NEW l \in 1..Len(tgt), Paired(k, l)
               PROVE  k < l /\ k # ii /\ (k = top <=> l = ii)
    OBVIOUS
  <2>1. k < l /\ k # ii
    BY <1>0 DEF Paired, IsMatchedOpen, IsMatchedClose
  <2>2. k = top => l = ii
    BY <1>0, <1>2, <1>4, OneMate
  <2>3. l = ii => k = top
    BY <1>0, <1>2, <1>4, OneMate
  <2> QED
    BY <2>1, <2>2, <2>3
<1>6. \A k, l : Paired(k, l)' <=> Paired(k, l)
  BY <1>0 DEF Paired, IsMatchedOpen, IsMatchedClose
<1>7. \A m \in 1..n : openMatches[m] < top
  BY <1>0, <1>2 DEF Ascending, len, top
<1>8. Ascending'
  <2>1. \A i, j \in 1..n : i < j => openMatches[i] < openMatches[j]
    BY <1>0, <1>2 DEF Ascending, len
  <2>2. \A i \in 1..n : openMatches[i] < ii + 1
    <3>1. \A i \in 1..n : openMatches[i] \in Int /\ openMatches[i] < ii
      BY <1>0, <1>2 DEF Ascending, len
    <3> QED
      BY <1>0, <3>1
  <2> QED
    BY <1>0, <1>3, <2>1, <2>2 DEF Ascending
<1>9. TopIsMatched'
  <2> SUFFICES ASSUME openMatches' # <<>>
               PROVE  tgt[openMatches'[n]].id # Unmatched
    BY <1>0, <1>3 DEF TopIsMatched
  <2>1. n > 0
    BY <1>0, <1>1
  <2> QED
    BY <1>1, <1>3, <2>1
<1>10. AwaitedOnStack'
  <2> SUFFICES ASSUME NEW k \in 1..Len(tgt), NEW l \in 1..Len(tgt), Paired(k, l), k < ii + 1
               PROVE  OnStack(k)' <=> ii + 1 <= l
    BY <1>0, <1>6 DEF AwaitedOnStack
  <2>1. k < ii /\ (k = top <=> l = ii) /\ tgt[k].id # Unmatched
    BY <1>0, <1>5 DEF Paired, IsMatchedOpen
  <2>2. OnStack(k) <=> ii <= l
    BY <1>0, <2>1 DEF AwaitedOnStack
  <2>3. OnStack(k)' <=> \E m \in 1..n : openMatches[m] = k
    BY <1>3 DEF OnStack
  <2>4. ASSUME ii + 1 <= l
        PROVE  OnStack(k)'
    <3>1. PICK m \in 1..len : openMatches[m] = k
      BY <1>0, <2>2, <2>4 DEF OnStack, len
    <3>2. m # len
      BY <1>0, <2>1, <2>4, <3>1 DEF top
    <3>3. m \notin (n + 1)..(len - 1)
      BY <1>1, <2>1, <3>1
    <3>4. m \in 1..n
      BY <1>0, <1>1, <3>1, <3>2, <3>3
    <3> QED
      BY <2>3, <3>1, <3>4
  <2>5. ASSUME OnStack(k)'
        PROVE  ii + 1 <= l
    <3>1. PICK m \in 1..n : openMatches[m] = k
      BY <2>3, <2>5
    <3>2. OnStack(k)
      BY <1>2, <3>1 DEF OnStack, len
    <3>3. k # top
      BY <1>0, <1>2, <1>7, <3>1
    <3> QED
      BY <1>0, <2>1, <2>2, <3>2, <3>3
  <2> QED
    BY <2>4, <2>5
<1>11. NoneWithin'
  <2> SUFFICES ASSUME NEW k \in 1..Len(tgt), NEW l \in 1..Len(tgt), Paired(k, l), l < ii + 1,
                      NEW m \in 1..n
               PROVE  ~(k < openMatches[m] /\ openMatches[m] < l)
    BY <1>0, <1>3, <1>6 DEF NoneWithin
  <2>1. CASE l = ii
    <3>1. k = top
      BY <1>5, <2>1
    <3> QED
      BY <1>0, <1>2, <1>7, <3>1
  <2>2. CASE l < ii
    BY <1>0, <1>2, <2>2 DEF NoneWithin, len
  <2> QED
    BY <1>0, <2>1, <2>2
<1>12. ClosedNest'
  <2> SUFFICES ASSUME NEW k \in 1..Len(tgt), NEW l \in 1..Len(tgt), NEW m \in 1..Len(tgt),
                      NEW j \in 1..Len(tgt), Paired(k, m), Paired(l, j), j < ii + 1,
                      k < l, l < m, m < j
               PROVE  FALSE
    BY <1>0, <1>6 DEF ClosedNest
  <2>1. CASE j = ii
    <3>1. l = top /\ m < ii
      BY <1>0, <1>5, <2>1
    <3>2. ~(k < openMatches[len] /\ openMatches[len] < m)
      BY <1>0, <1>2, <3>1 DEF NoneWithin, len
    <3> QED
      BY <3>1, <3>2 DEF top
  <2>2. CASE j < ii
    BY <1>0, <2>2 DEF ClosedNest
  <2> QED
    BY <1>0, <2>1, <2>2
<1> QED
  BY <1>8, <1>9, <1>10, <1>11, <1>12 DEF StackInv

LEMMA SkipStack ==
  ASSUME TypeOK, StackInv, Skip
  PROVE  StackInv'
<1>0. /\ Len(tgt) \in Nat /\ ii \in 1..Len(tgt) /\ ii' = ii + 1 /\ tgt' = tgt
      /\ openMatches' = openMatches /\ tgt[ii].id = Unmatched
      /\ Ascending /\ TopIsMatched /\ AwaitedOnStack /\ NoneWithin /\ ClosedNest
      /\ \A n \in 1..Len(openMatches) : openMatches[n] \in 1..Len(tgt)
  BY Types DEF Skip, InUnmatch, StackInv
<1>1. \A k, l \in 1..Len(tgt) : Paired(k, l) => /\ k # ii /\ l # ii
                                                /\ k < ii + 1 <=> k < ii
                                                /\ l < ii + 1 <=> l < ii
                                                /\ ii + 1 <= l <=> ii <= l
  BY <1>0 DEF Paired, IsMatchedOpen, IsMatchedClose
<1>2. \A k, l : Paired(k, l)' <=> Paired(k, l)
  BY <1>0 DEF Paired, IsMatchedOpen, IsMatchedClose
<1>3. \A k : OnStack(k)' <=> OnStack(k)
  BY <1>0 DEF OnStack
<1>4. Ascending'
  BY <1>0 DEF Ascending
<1>5. TopIsMatched'
  BY <1>0 DEF TopIsMatched
<1>6. AwaitedOnStack'
  <2> SUFFICES ASSUME NEW k \in 1..Len(tgt), NEW l \in 1..Len(tgt), Paired(k, l), k < ii + 1
               PROVE  OnStack(k) <=> ii + 1 <= l
    BY <1>0, <1>2, <1>3 DEF AwaitedOnStack
  <2> QED
    BY <1>0, <1>1 DEF AwaitedOnStack
<1>7. NoneWithin'
  <2> SUFFICES ASSUME NEW k \in 1..Len(tgt), NEW l \in 1..Len(tgt), Paired(k, l), l < ii + 1,
                      NEW n \in 1..Len(openMatches)
               PROVE  ~(k < openMatches[n] /\ openMatches[n] < l)
    BY <1>0, <1>2 DEF NoneWithin
  <2> QED
    BY <1>0, <1>1 DEF NoneWithin
<1>8. ClosedNest'
  <2> SUFFICES ASSUME NEW k \in 1..Len(tgt), NEW l \in 1..Len(tgt), NEW m \in 1..Len(tgt),
                      NEW n \in 1..Len(tgt), Paired(k, m), Paired(l, n), n < ii + 1
               PROVE  ~(k < l /\ l < m /\ m < n)
    BY <1>0, <1>2 DEF ClosedNest
  <2> QED
    BY <1>0, <1>1 DEF ClosedNest
<1> QED
  BY <1>4, <1>5, <1>6, <1>7, <1>8 DEF StackInv

LEMMA StackNext ==
  /\ TypeOK /\ PairsInv /\ SearchInv /\ (~Searching => StackInv)
  /\ [Next]_vars
  => (~Searching => StackInv)'
<1> SUFFICES ASSUME TypeOK, PairsInv, SearchInv, ~Searching => StackInv, [Next]_vars,
                    ~Searching'
             PROVE  StackInv'
  OBVIOUS
<1>1. CASE EndOfOpens
  <2>1. openMatches' = <<>> /\ ii' = 1 /\ Len(tgt') \in Nat
    BY <1>1, Types DEF EndOfOpens, SearchInv, Searching
  <2>2. \A k, l \in 1..Len(tgt') : Paired(k, l)' => ~(k < ii') /\ ~(l < ii')
    BY <2>1
  <2> QED
    BY <2>1, <2>2 DEF StackInv, Ascending, TopIsMatched, AwaitedOnStack, NoneWithin, ClosedNest
<1>2. CASE PushOpen
  BY <1>2, PushOpenStack DEF PushOpen, InUnmatch, Searching
<1>3. CASE Unmatch
  BY <1>3, UnmatchStack DEF Unmatch, InUnmatch, Searching
<1>4. CASE PopOpens
  BY <1>4, PopOpensStack DEF PopOpens, InUnmatch, Searching
<1>5. CASE Skip
  BY <1>5, SkipStack DEF Skip, InUnmatch, Searching
<1>6. CASE Return \/ UNCHANGED vars
  <2>1. StackInv /\ UNCHANGED <<tgt, ii, openMatches>>
    BY <1>6 DEF Return, vars, Searching
  <2> QED
    BY <2>1 DEF StackInv, Ascending, TopIsMatched, AwaitedOnStack, NoneWithin, ClosedNest,
                OnStack, Paired, IsMatchedOpen, IsMatchedClose
<1>7. ASSUME FindOpen \/ SplitClose \/ Match \/ SplitOpen \/ PassOver \/ GiveUp
      PROVE  Searching'
  BY <1>7 DEF FindOpen, SplitClose, Match, SplitOpen, PassOver, GiveUp, NextOpen, AtClose,
              Searching
<1> QED
  BY <1>1, <1>2, <1>3, <1>4, <1>5, <1>6, <1>7 DEF Next

LEMMA OverlookedNext == TypeOK /\ SearchInv /\ NoneOverlooked /\ [Next]_vars => NoneOverlooked'
<1> SUFFICES ASSUME TypeOK, SearchInv, NoneOverlooked, [Next]_vars
             PROVE  NoneOverlooked'
  OBVIOUS
<1>0. Len(tgt) \in Nat /\ ii \in 1..(Len(tgt) + 1)
  BY Types
<1>1. CASE EndOfOpens
  <2> SUFFICES ASSUME NEW k \in 1..Len(tgt), NEW l \in 1..Len(tgt), k < l,
                      IsUnmatchedOpen(tgt[k]), IsUnmatchedClose(tgt[l])
               PROVE  tgt[k].char # tgt[l].char \/ tgt[k].size # tgt[l].size
    BY <1>1 DEF EndOfOpens, NoneOverlooked
  <2>1. k \in 1..(ii - 1) /\ l \in (k + 1)..(Len(tgt) + 1 - 1)
    BY <1>0, <1>1 DEF EndOfOpens
  <2>2. Passed(k, Len(tgt) + 1)
    BY <1>1, <2>1 DEF EndOfOpens, SearchInv, Searching
  <2> QED
    BY <2>1, <2>2 DEF Passed
<1>2. CASE PushOpen \/ Unmatch \/ PopOpens \/ Skip
  <2>1. ii' = ii + 1
    BY <1>2 DEF PushOpen, Unmatch, PopOpens, Skip
  <2>2. ii' # 1
    BY <1>0, <2>1
  <2> QED
    BY <2>2 DEF NoneOverlooked
<1>3. CASE UNCHANGED vars
  BY <1>3 DEF vars, NoneOverlooked
<1>4. ASSUME FindOpen \/ SplitClose \/ Match \/ SplitOpen \/ PassOver \/ GiveUp \/ Return
      PROVE  pc' # "unmatch"
  BY <1>4 DEF FindOpen, SplitClose, Match, SplitOpen, PassOver, GiveUp, Return, NextOpen, AtClose
<1> QED
  BY <1>1, <1>2, <1>3, <1>4 DEF Next, NoneOverlooked

LEMMA IInit == Init => IInv
<1> SUFFICES ASSUME Init
             PROVE  IInv
  OBVIOUS
<1>1. /\ tgt \in Seq(Marker(0)) /\ Len(tgt) \in Nat
      /\ \A k \in 1..Len(tgt) : tgt[k].id = Unmatched
  BY LineIsTyped DEF Init
<1>2. TypeOK
  BY <1>1 DEF Init, TypeOK, Marker
<1>3. PairsInv
  BY <1>1 DEF PairsInv
<1>4. SearchInv /\ Searching
  BY DEF Init, SearchInv, Searching
<1>5. NoneOverlooked /\ pc # "done"
  BY DEF Init, NoneOverlooked
<1> QED
  BY <1>2, <1>3, <1>4, <1>5 DEF IInv

LEMMA INext == IInv /\ [Next]_vars => IInv'
<1> SUFFICES ASSUME IInv, [Next]_vars
             PROVE  IInv'
  OBVIOUS
<1>1. TypeOK' /\ SearchInv' /\ PairsInv' /\ NoneOverlooked' /\ (~Searching => StackInv)'
  BY TypeNext, SearchNext, PairsNext, OverlookedNext, StackNext DEF IInv
<1>2. (pc = "done" => ii > Len(tgt))'
  BY DEF IInv, Next, FindOpen, SplitClose, Match, SplitOpen, PassOver, GiveUp, EndOfOpens,
         PushOpen, Unmatch, PopOpens, Skip, Return, NextOpen, AtClose, InUnmatch, vars
<1> QED
  BY <1>1, <1>2 DEF IInv

(* The loops keep their types however long the line is.                    *)
THEOREM TypeCorrect == Spec => []TypeOK
<1>1. IInv => TypeOK
  BY DEF IInv
<1> QED
  BY IInit, INext, <1>1, PTL DEF Spec

(* When the search is over, no open and close that fit are left without a  *)
(* match, the open before the close (markdown-tokens.cpp:510-560).         *)
THEOREM NoneOverlookedHolds == Spec => []NoneOverlooked
<1>1. IInv => NoneOverlooked
  BY DEF IInv
<1> QED
  BY IInit, INext, <1>1, PTL DEF Spec

(* openMatches.top() is never called on an empty stack, and the open of    *)
(* the match at hand is on it (markdown-tokens.cpp:564-580).               *)
THEOREM MateIsOnStackHolds == Spec => []MateIsOnStack
<1>1. IInv => MateIsOnStack
  <2> SUFFICES ASSUME IInv, InUnmatch, IsMatchedClose(tgt[ii])
               PROVE  \E n \in 1..Len(openMatches) : Paired(openMatches[n], ii)
    BY DEF MateIsOnStack
  <2>1. TypeOK /\ PairsInv /\ StackInv /\ ii \in 1..Len(tgt)
    BY Types DEF IInv, InUnmatch, Searching
  <2>2. PICK k \in 1..Len(tgt) : Paired(k, ii)
    BY <2>1, OneMate
  <2>3. OnStack(k)
    BY <2>1, <2>2 DEF StackInv, AwaitedOnStack, Paired
  <2> QED
    BY <2>2, <2>3 DEF OnStack
<1> QED
  BY IInit, INext, <1>1, PTL DEF Spec

(* In the finished line every match has both its ends, of one character    *)
(* and size, and no two overlap (markdown-tokens.cpp:562-590).             *)
THEOREM WellNestedHolds == Spec => []WellNested
<1>1. IInv => WellNested
  <2> SUFFICES ASSUME IInv, pc = "done"
               PROVE  WellNested
    BY DEF WellNested
  <2>1. /\ TypeOK /\ PairsInv /\ ClosedNest /\ Len(tgt) \in Nat
        /\ \A n \in 1..Len(tgt) : n < ii
    <3>1. TypeOK /\ PairsInv /\ StackInv /\ ii > Len(tgt)
      BY DEF IInv, Searching
    <3> QED
      BY <3>1, Types DEF StackInv
  <2>2. \A k \in 1..Len(tgt) : tgt[k].id # Unmatched =>
          \E l \in 1..Len(tgt) : /\ Paired(k, l) \/ Paired(l, k)
                                 /\ tgt[k].size = tgt[l].size /\ tgt[k].char = tgt[l].char
    BY <2>1 DEF PairsInv, Mates
  <2>3. \A k, l, m, n \in 1..Len(tgt) :
          Paired(k, m) /\ Paired(l, n) => ~(k < l /\ l < m /\ m < n)
    BY <2>1 DEF ClosedNest
  <2> QED
    BY <2>2, <2>3 DEF WellNested
<1> QED
  BY IInit, INext, <1>1, PTL DEF Spec

-----------------------------------------------------------------------------
(* Counting.  What a recursive function counts is found by looking at the  *)
(* least number for which it would not be so.                              *)
\* f is the function by which Written counts, for the first m of s.
IsCount(f, s, c, m) == f = [n \in 0..m |-> IF n = 0 THEN 0 ELSE f[n - 1] + Weight(s[n], c)]
LEMMA CountExists ==
  ASSUME NEW s, NEW c, NEW k \in Nat
  PROVE  \E f : IsCount(f, s, c, k)
<1> DEFINE Bad == {m \in Nat : ~\E f : IsCount(f, s, c, m)}
<1> SUFFICES ASSUME Bad # {}
             PROVE  FALSE
  OBVIOUS
<1>1. PICK m \in Bad : \A l \in Bad : m <= l
  <2> HIDE DEF Bad
  <2>1. Bad \subseteq Nat
    BY DEF Bad
  <2> QED
    BY <2>1, LeastNumber
<1>2. CASE m = 0
  <2> DEFINE f == [n \in 0..0 |-> 0]
  <2>1. \A n \in 0..0 : 0 = IF n = 0 THEN 0 ELSE f[n - 1] + Weight(s[n], c)
    OBVIOUS
  <2> HIDE DEF f
  <2>2. f = [n \in 0..0 |-> IF n = 0 THEN 0 ELSE f[n - 1] + Weight(s[n], c)]
    BY <2>1 DEF f
  <2> QED
    BY <1>1, <1>2, <2>2 DEF IsCount
<1>3. CASE m # 0
  <2>1. m \in Nat /\ m - 1 \in Nat /\ m - 1 \notin Bad
    BY <1>1, <1>3
  <2>2. PICK g : IsCount(g, s, c, m - 1)
    BY <2>1
  <2> DEFINE f == [n \in 0..m |-> IF n = m THEN g[m - 1] + Weight(s[m], c) ELSE g[n]]
  <2>3. \A n \in 0..(m - 1) : g[n] = IF n = 0 THEN 0 ELSE g[n - 1] + Weight(s[n], c)
    BY <2>2 DEF IsCount
  <2>4. ASSUME NEW n \in 0..m
        PROVE  f[n] = IF n = 0 THEN 0 ELSE f[n - 1] + Weight(s[n], c)
    <3>1. CASE n = m
      BY <1>3, <2>1, <3>1
    <3>2. CASE n \in 0..(m - 1)
      BY <2>1, <2>3, <3>2
    <3> QED
      BY <2>1, <3>1, <3>2
  <2>5. f = [n \in 0..m |-> f[n]]
    OBVIOUS
  <2> HIDE DEF f
  <2>6. f = [n \in 0..m |-> IF n = 0 THEN 0 ELSE f[n - 1] + Weight(s[n], c)]
    BY <2>4, <2>5
  <2> QED
    BY <1>1, <2>6 DEF IsCount
<1> QED
  BY <1>2, <1>3

LEMMA WrittenIsCount ==
  ASSUME NEW s, NEW c, Len(s) \in Nat
  PROVE  \E f : IsCount(f, s, c, Len(s)) /\ Written(s, c) = f[Len(s)]
<1>1. \E f : IsCount(f, s, c, Len(s))
  BY CountExists
<1>2. Written(s, c) = (CHOOSE f : IsCount(f, s, c, Len(s)))[Len(s)]
  BY DEF Written, IsCount
<1> QED
  BY <1>1, <1>2

LEMMA CountType ==
  ASSUME NEW f, NEW s, NEW c, NEW k \in Nat, IsCount(f, s, c, k),
         \A n \in 1..k : Weight(s[n], c) \in Nat,
         NEW m \in 0..k
  PROVE  f[m] \in Nat
<1> DEFINE Bad == {n \in 0..k : f[n] \notin Nat}
<1> SUFFICES ASSUME Bad # {}
             PROVE  FALSE
  OBVIOUS
<1>1. PICK n \in Bad : \A i \in Bad : n <= i
  <2>1. Bad \subseteq Nat
    OBVIOUS
  <2> HIDE DEF Bad
  <2> QED
    BY <2>1, LeastNumber
<1>2. f[n] = IF n = 0 THEN 0 ELSE f[n - 1] + Weight(s[n], c)
  BY DEF IsCount
<1>3. n # 0
  BY <1>1, <1>2
<1>4. n - 1 \in 0..k /\ n - 1 \notin Bad /\ n \in 1..k
  BY <1>1, <1>3
<1>5. f[n - 1] \in Nat /\ Weight(s[n], c) \in Nat
  BY <1>4
<1> QED
  BY <1>1, <1>2, <1>3, <1>5

\* The counts f and g agree at i, and the markers they count agree from there
\* to m, where those of g are d ahead.
InStep(f, s, k, g, t, l, c, d, i, m) ==
  /\ k \in Nat /\ l \in Nat /\ d \in Nat /\ m \in 0..k /\ i \in 0..m /\ m + d <= l
  /\ IsCount(f, s, c, k) /\ IsCount(g, t, c, l)
  /\ g[i + d] = f[i]
  /\ \A n \in (i + 1)..m : Weight(t[n + d], c) = Weight(s[n], c)

LEMMA CountsAgree ==
  ASSUME NEW f, NEW s, NEW k, NEW g, NEW t, NEW l, NEW c, NEW d, NEW i, NEW m,
         InStep(f, s, k, g, t, l, c, d, i, m)
  PROVE  g[m + d] = f[m]
<1>0. /\ k \in Nat /\ l \in Nat /\ d \in Nat /\ m \in 0..k /\ i \in 0..m /\ m + d <= l
      /\ IsCount(f, s, c, k) /\ IsCount(g, t, c, l)
      /\ g[i + d] = f[i]
      /\ \A n \in (i + 1)..m : Weight(t[n + d], c) = Weight(s[n], c)
  BY DEF InStep
<1> DEFINE Bad == {n \in i..m : g[n + d] # f[n]}
<1> SUFFICES ASSUME Bad # {}
             PROVE  FALSE
  BY <1>0
<1>1. PICK n \in Bad : \A j \in Bad : n <= j
  <2>1. Bad \subseteq Nat
    BY <1>0
  <2> HIDE DEF Bad
  <2> QED
    BY <2>1, LeastNumber
<1>2. n # i /\ n \in (i + 1)..m
  BY <1>0, <1>1
<1>3. n \in 0..k /\ n # 0 /\ n + d \in 0..l /\ n + d # 0
  BY <1>0, <1>2
<1>4. /\ f[n] = f[n - 1] + Weight(s[n], c)
      /\ g[n + d] = g[n + d - 1] + Weight(t[n + d], c)
  BY <1>0, <1>3 DEF IsCount
<1>5. n - 1 \in i..m /\ n - 1 \notin Bad /\ n - 1 + d = n + d - 1
  BY <1>0, <1>1, <1>2
<1>6. g[n + d - 1] = f[n - 1]
  BY <1>5
<1> QED
  BY <1>0, <1>1, <1>2, <1>4, <1>6

LEMMA SameWritten ==
  ASSUME NEW s, NEW t, NEW c, Len(s) \in Nat, Len(t) = Len(s),
         \A n \in 1..Len(s) : Weight(t[n], c) = Weight(s[n], c)
  PROVE  Written(t, c) = Written(s, c)
<1>1. PICK f : IsCount(f, s, c, Len(s)) /\ Written(s, c) = f[Len(s)]
  BY WrittenIsCount
<1>2. PICK g : IsCount(g, t, c, Len(s)) /\ Written(t, c) = g[Len(s)]
  BY WrittenIsCount
<1>3. g[0 + 0] = f[0]
  BY <1>1, <1>2 DEF IsCount
<1>4. \A n \in (0 + 1)..Len(s) : Weight(t[n + 0], c) = Weight(s[n], c)
  OBVIOUS
<1>5. InStep(f, s, Len(s), g, t, Len(s), c, 0, 0, Len(s))
  BY <1>1, <1>2, <1>3, <1>4 DEF InStep
<1>6. g[Len(s) + 0] = f[Len(s)]
  BY <1>5, CountsAgree
<1> QED
  BY <1>1, <1>2, <1>6

(* The parts of a marker that is split stand for as many characters as it. *)
LEMMA SplitKeepsWritten ==
  ASSUME TypeOK, NEW k \in 1..Len(tgt), IsSplit(k), ~tgt[k].disabled, NEW c
  PROVE  Written(tgt', c) = Written(tgt, c)
<1> DEFINE len == Len(tgt)
           s == tgt
           t == tgt'
<1>1. PICK a \in 0..3, b \in 0..3 : a + b = tgt[k].size /\ IsSplitOf(tgt', k, a, b, id)
  BY DEF IsSplit
<1>2. len \in Nat /\ Len(t) = len + 2 /\ \A n \in 1..len : Weight(s[n], c) \in Nat
  <2>1. len \in Nat /\ Len(t) = len + 2 /\ \A n \in 1..len : s[n].size \in 0..3
    BY <1>1, Types DEF IsSplitOf
  <2>2. \A n \in 1..len : Weight(s[n], c) \in Nat
    BY <2>1 DEF Weight
  <2> QED
    BY <2>1, <2>2
<1>3. /\ Weight(t[k], c) = 0
      /\ Weight(t[k + 1], c) + Weight(t[k + 2], c) = Weight(s[k], c)
      /\ Weight(t[k + 1], c) \in Nat /\ Weight(t[k + 2], c) \in Nat
  <2>1. t[k].disabled
    <3>1. tgt[k] \in Marker(id)
      BY Types
    <3> QED
      BY <1>1, <3>1 DEF IsSplitOf, Marker
  <2>2. t[k + 1] = New(s[k].open, s[k].char, a) /\ t[k + 2] = New(s[k].open, s[k].char, b)
    BY <1>1 DEF IsSplitOf
  <2> QED
    BY <1>1, <2>1, <2>2 DEF Weight, New
<1>4. \A n \in 1..(k - 1) : t[n] = s[n]
  <2> SUFFICES ASSUME NEW n \in 1..(k - 1)
               PROVE  t[n] = s[n]
    OBVIOUS
  <2>1. n \in 1..len /\ n # k /\ Moved(k, n) = n
    BY <1>2 DEF Moved
  <2> QED
    BY <1>1, <2>1 DEF IsSplitOf
<1>5. \A n \in (k + 1)..len : t[n + 2] = s[n]
  <2> SUFFICES ASSUME NEW n \in (k + 1)..len
               PROVE  t[n + 2] = s[n]
    OBVIOUS
  <2>1. n \in 1..len /\ n # k /\ Moved(k, n) = n + 2
    BY <1>2 DEF Moved
  <2> QED
    BY <1>1, <2>1 DEF IsSplitOf
<1>6. PICK f : IsCount(f, s, c, len) /\ Written(s, c) = f[len]
  BY <1>2, WrittenIsCount
<1>7. PICK g : IsCount(g, t, c, len + 2) /\ Written(t, c) = g[len + 2]
  BY <1>2, WrittenIsCount
<1> HIDE DEF s, t, len
<1>8. g[k - 1] = f[k - 1]
  <2>1. g[0 + 0] = f[0]
    BY <1>2, <1>6, <1>7 DEF IsCount
  <2>2. \A n \in (0 + 1)..(k - 1) : Weight(t[n + 0], c) = Weight(s[n], c)
    BY <1>4
  <2>3. InStep(f, s, len, g, t, len + 2, c, 0, 0, k - 1)
    <3>1. k - 1 \in 0..len /\ 0 \in 0..(k - 1) /\ k - 1 + 0 <= len + 2 /\ len + 2 \in Nat
      BY <1>2 DEF len
    <3> QED
      BY <1>2, <1>6, <1>7, <2>1, <2>2, <3>1 DEF InStep
  <2>4. g[k - 1 + 0] = f[k - 1]
    BY <2>3, CountsAgree
  <2> QED
    BY <2>4
<1>9. g[k + 2] = f[k]
  <2>1. /\ k \in 0..len /\ k # 0 /\ k - 1 \in 0..len
        /\ k \in 0..(len + 2) /\ k + 1 \in 0..(len + 2) /\ k + 2 \in 0..(len + 2)
        /\ k + 1 # 0 /\ k + 2 # 0 /\ k + 1 - 1 = k /\ k + 2 - 1 = k + 1
    BY <1>2 DEF len
  <2>2. f[k] = f[k - 1] + Weight(s[k], c) /\ f[k - 1] \in Nat
    BY <1>2, <1>6, <2>1, CountType DEF IsCount
  <2>3. /\ g[k] = g[k - 1] + Weight(t[k], c)
        /\ g[k + 1] = g[k] + Weight(t[k + 1], c)
        /\ g[k + 2] = g[k + 1] + Weight(t[k + 2], c)
    <3>1. \A n \in 0..(len + 2) : g[n] = IF n = 0 THEN 0 ELSE g[n - 1] + Weight(t[n], c)
      BY <1>7 DEF IsCount
    <3> QED
      BY <2>1, <3>1
  <2> QED
    BY <1>3, <1>8, <2>2, <2>3
<1>10. g[len + 2] = f[len]
  <2>1. \A n \in (k + 1)..len : Weight(t[n + 2], c) = Weight(s[n], c)
    BY <1>5
  <2>2. InStep(f, s, len, g, t, len + 2, c, 2, k, len)
    <3>1. len \in 0..len /\ k \in 0..len /\ len + 2 <= len + 2 /\ len + 2 \in Nat
      BY <1>2 DEF len
    <3> QED
      BY <1>2, <1>6, <1>7, <1>9, <2>1, <3>1 DEF InStep
  <2> QED
    BY <2>2, CountsAgree
<1> QED
  BY <1>6, <1>7, <1>10 DEF s, t

LEMMA MarkersNext == TypeOK /\ SearchInv /\ MarkersKept /\ [Next]_vars => MarkersKept'
<1> SUFFICES ASSUME TypeOK, SearchInv, MarkersKept, [Next]_vars
             PROVE  MarkersKept'
  OBVIOUS
<1>0. line' = line
  BY DEF Next, FindOpen, SplitClose, Match, SplitOpen, PassOver, GiveUp, EndOfOpens, PushOpen,
         Unmatch, PopOpens, Skip, Return, vars
<1> SUFFICES ASSUME NEW c \in Chars
             PROVE  Written(tgt', c) = Written(tgt, c)
  BY <1>0 DEF MarkersKept
<1>1. CASE SplitClose
  BY <1>1, TheTwo, SplitCloseSplits, SplitKeepsWritten DEF SplitClose, IsUnmatchedClose
<1>2. CASE SplitOpen
  BY <1>2, TheTwo, SplitOpenSplits, SplitKeepsWritten DEF SplitOpen, IsUnmatchedOpen
<1>3. CASE Match \/ Unmatch
  <2>1. /\ Len(tgt) \in Nat /\ Len(tgt') = Len(tgt)
        /\ \A n \in 1..Len(tgt) : tgt[n] \in Marker(id)
    BY <1>3, Types, MatchShape, UnmatchShape
  <2>2. \A n \in 1..Len(tgt) : \/ tgt'[n] = tgt[n]
                               \/ tgt'[n] = [tgt[n] EXCEPT !.id = id]
                               \/ tgt'[n] = [tgt[n] EXCEPT !.id = Unmatched]
    BY <1>3, MatchShape, UnmatchShape
  <2>3. \A n \in 1..Len(tgt) : Weight(tgt'[n], c) = Weight(tgt[n], c)
    BY <2>1, <2>2 DEF Weight, Marker
  <2> QED
    BY <2>1, <2>3, SameWritten
<1>4. CASE UNCHANGED tgt
  BY <1>4
<1>5. UNCHANGED tgt \/ SplitClose \/ Match \/ SplitOpen \/ Unmatch
  BY DEF Next, FindOpen, PassOver, GiveUp, EndOfOpens, PushOpen, PopOpens, Skip, Return, vars
<1> QED
  BY <1>1, <1>2, <1>3, <1>4, <1>5

(* However often markers are split, the characters they stand for are      *)
(* written once (markdown-tokens.cpp:518-533, 542-556 and 737-748).        *)
THEOREM MarkersKeptHolds == Spec => []MarkersKept
<1>1. Init => IInv /\ MarkersKept
  BY IInit DEF Init, MarkersKept
<1>2. IInv /\ MarkersKept /\ [Next]_vars => (IInv /\ MarkersKept)'
  BY INext, MarkersNext DEF IInv
<1> QED
  BY <1>1, <1>2, PTL DEF Spec
=============================================================================
