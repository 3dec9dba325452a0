------------------------------ MODULE Markdown ------------------------------
(***************************************************************************)
(* A document on its way through markdown::Document, which MarkdownHandler *)
(* calls: the lines are read, inline HTML and references are taken out,    *)
(* blocks (headers, rules, lists, quotes, code) are recognised, and what   *)
(* is left over becomes paragraphs.                                        *)
(*                                                                         *)
(* A line is what the regular expressions find at its beginning, one       *)
(* marker behind another: each has an indent and a kind, and only the      *)
(* markers of items and quotes have others behind them.  The one blank     *)
(* that such a marker requires behind it does not count for the indent of  *)
(* the next.  Blanks to the end of the line are a marker too; an empty     *)
(* line has none, and neither has the content of a block of code.          *)
(*                                                                         *)
(* The tree of tokens is written from left to right: a token has its depth *)
(* and the kind of container it is in, and what is in a container follows  *)
(* it.  A token that comes from the document has the number of its line:   *)
(* one of several lines (of code, a paragraph, a header) is as many tokens *)
(* next to each other, but inline HTML is one token with the number of its *)
(* first line.  How a list sets its paragraphs is left out, as are the     *)
(* passes inside a paragraph, HTML comments, and tags that go over several *)
(* lines.                                                                  *)
(***************************************************************************)
EXTENDS Integers, Sequences, SequencesExt

CONSTANTS SourceLines,  \* the lines of documents
          MaxLength     \* bound on the documents in which a line occurs

Bullets == {"star", "dash", "plus"}

ItemKinds == Bullets \cup {"number"}

\* To the end of the line, three or more of a character, and blanks.
Rules == {"dashes", "stars", "underscores"}

Kinds == ItemKinds \cup Rules \cup {"words", "quote", "hash", "equals", "emphasis", "tag",
                                   "reference", "title", "blanks"}

LineMarker == [indent : Nat, kind : Kinds]

\* The indent of blanks is their number; nothing is behind them.
ASSUME LineAssumption ==
  /\ SourceLines \subseteq Seq(LineMarker)
  /\ \A l \in SourceLines : \A m \in 1..Len(l) :
       l[m].kind = "blanks" => m = Len(l) /\ l[m].indent > 0
  /\ MaxLength \in [SourceLines -> Nat]

Empty == <<>>

Kind(l) == IF l = Empty THEN "blank" ELSE l[1].kind

Indent(l) == IF l = Empty THEN 0 ELSE l[1].indent

IsBlank(l) == l = Empty \/ Kind(l) = "blanks"

\* The line without its first n markers.
Behind(n, l) == SubSeq(l, n + 1, Len(l))

Stripped(l) == IF l = Empty THEN l ELSE [l EXCEPT ![1].indent = 0]

VARIABLES doc,        \* the lines read from the stream
          pass,       \* the pass that Document is in
          tokens,     \* mTokenContainer's subtokens, and theirs
          next,       \* the iterator of the pass
          processed,  \* the tokens that the pass has put out
          aside,      \* the lines in mIdTable, and those of inline HTML but the first
          failure,    \* "none", or how the conversion has ended the process
          parsing,    \* the parse function that looks for the end of a block
          at,         \* its iterator
          found,      \* the tokens that it has found
          lists       \* the lists it is in: for each a marker and itemCount

output == <<tokens, next, processed>>
parser == <<parsing, at, found, lists>>
docVars == <<doc, pass, output, aside, failure, parser>>

DocInit == /\ doc = <<>>
           /\ pass = "read"
           /\ tokens = <<>>
           /\ next = 1
           /\ processed = <<>>
           /\ aside = {}
           /\ failure = "none"
           /\ parsing = "none" /\ at = 1 /\ found = <<>> /\ lists = <<>>
-----------------------------------------------------------------------------
(* The classes of tokens.                                                  *)

Token(type, n, l, depth, within) ==
  [type |-> type, n |-> n, line |-> l, depth |-> depth, within |-> within]

Container(type, depth, within) == Token(type, 0, Empty, depth, within)

\* Of the tokens of inline HTML none is looked into, so that they are not
\* containers here.
IsContainer(t) == t.type \in {"list", "item", "quote"}

HasText(t) == ~IsContainer(t) /\ t.type # "html"

\* An InlineHtmlBlock reports itself as a blank line.
IsBlankLine(t) == t.type \in {"blank", "html"}

CanContainMarkup(t) == t.type \in {"text", "header"}

Markup(t) == ~IsBlankLine(t) /\ HasText(t) /\ CanContainMarkup(t)

\* A token of another class for the same line.
As(type, t) == [t EXCEPT !.type = type, !.line = Empty]

\* What is in a container that a parse function has found.
Inner(type, t, l, depth, within) == Token(type, t.n, l, depth, within)
-----------------------------------------------------------------------------
(* Reading, inline HTML and references.                                    *)

EndPass(name) == /\ pass' = name
                 /\ next' = 1
                 /\ processed' = <<>>
                 /\ UNCHANGED <<doc, aside, failure, parser>>

ReadLine(l) ==
  /\ pass = "read"
  /\ \A k \in Range(doc) \cup {l} : Len(doc) < MaxLength[k]
  /\ doc' = Append(doc, l)
  /\ tokens' = Append(tokens, Token(IF IsBlank(l) THEN "blank" ELSE "text",
                                    Len(doc) + 1, l, 0, "page"))
  /\ UNCHANGED <<pass, next, processed, aside, failure, parser>>

EndOfStream == pass = "read" /\ EndPass("html") /\ UNCHANGED tokens

InHtmlPass == pass = "html" /\ next <= Len(tokens)

AtBlockStart == IF processed = <<>> THEN TRUE ELSE IsBlankLine(Last(processed))

IsTag(t) == Kind(t.line) = "tag" /\ Indent(t.line) = 0

\* Inline HTML goes on to a tag alone on its line, or its first line, with a
\* blank line behind it, or to the end.
EndsHtml(j) == j < Len(tokens) => IsBlankLine(tokens[j + 1]) /\ (j = next \/ IsTag(tokens[j]))

HtmlEnd == CHOOSE j \in next..Len(tokens) : EndsHtml(j) /\ \A k \in next..(j - 1) : ~EndsHtml(k)

InlineHtml ==
  /\ InHtmlPass /\ AtBlockStart /\ IsTag(tokens[next])
  /\ processed' = Append(processed, As("html", tokens[next]))
  /\ aside' = aside \cup ((next + 1)..HtmlEnd)
  /\ next' = HtmlEnd + 1
  /\ UNCHANGED <<doc, pass, tokens, failure, parser>>

IsReference(t) == Kind(t.line) = "reference" /\ Indent(t.line) < 4

\* A line of kind reference has no title; that may be on a line of its own.
Reference ==
  LET title == next < Len(tokens) /\ Kind(tokens[next + 1].line) = "title"
      last  == IF title THEN next + 1 ELSE next
  IN  /\ InHtmlPass /\ ~(AtBlockStart /\ IsTag(tokens[next]))
      /\ IsReference(tokens[next])
      /\ aside' = aside \cup (next..last)
      /\ next' = last + 1
      /\ UNCHANGED <<doc, pass, tokens, processed, failure, parser>>

KeepLine ==
  /\ InHtmlPass /\ ~(AtBlockStart /\ IsTag(tokens[next]))
  /\ ~IsReference(tokens[next])
  /\ processed' = Append(processed, tokens[next])
  /\ next' = next + 1
  /\ UNCHANGED <<doc, pass, tokens, aside, failure, parser>>

HtmlPassEnds == pass = "html" /\ next > Len(tokens) /\ tokens' = processed /\ EndPass("blocks")
-----------------------------------------------------------------------------
(* Blocks.  A turn of _processBlocksItems is one of the actions to         *)
(* BeginCode; the turns of the loop in a parse function follow.  The       *)
(* tokens of a container that is found take the place of those that it was *)
(* made of, where the pass comes to them next, as the recursion does.      *)

Looking == pass = "blocks" /\ failure = "none" /\ parsing = "none" /\ next <= Len(tokens)

Parses(what) == pass = "blocks" /\ failure = "none" /\ parsing = what

Current == tokens[next]

\* The end of the container that the pass is in.
AtEnd(i) == IF i > Len(tokens) THEN TRUE ELSE tokens[i].depth < Current.depth

\* Slip: the end is not tested for after a block.
ResumeBlindly(i) == i + 1

\* The loop's ++ii, whatever the iterator points to.
Resume(i) ==
  IF AtEnd(i) THEN i
  ELSE CHOOSE j \in (i + 1)..(Len(tokens) + 1) :
         /\ j <= Len(tokens) => tokens[j].depth <= tokens[i].depth
         /\ \A k \in (i + 1)..(j - 1) : tokens[k].depth > tokens[i].depth

Idle == parsing' = "none" /\ at' = 1 /\ found' = <<>> /\ lists' = <<>>

PutOut(ts, i) == /\ processed' = processed \o ts
                 /\ next' = i
                 /\ Idle
                 /\ UNCHANGED <<doc, pass, tokens, aside, failure>>

\* A parse function has found the container that it returns.
PutBack(i) ==
  /\ tokens' = found \o SubSeq(tokens, Resume(i), Len(tokens))
  /\ next' = 1
  /\ Idle
  /\ UNCHANGED <<doc, pass, processed, aside, failure>>

Begin(what, ts) == /\ parsing' = what
                   /\ found' = ts
                   /\ at' = next + 1
                   /\ UNCHANGED <<doc, pass, output, aside, failure>>

Collect(ts, i) == /\ found' = found \o ts
                  /\ at' = i
                  /\ UNCHANGED <<doc, pass, output, aside, failure>>

Fail(how) == failure' = how /\ UNCHANGED <<doc, pass, output, aside, parser>>

\* The blank line at the iterator, if there is one, and the line behind it.
AtBlank == ~AtEnd(at) /\ IsBlankLine(tokens[at])

Ahead == IF AtBlank THEN at + 1 ELSE at

\* The blank line that is put out for it.  One for inline HTML is left out:
\* nothing that comes behind it depends on it.
Gap(depth, within) ==
  IF tokens[at].type = "blank" THEN <<Inner("blank", tokens[at], Empty, depth, within)>> ELSE <<>>
-----------------------------------------------------------------------------
(* Headers, rules and code.                                                *)

IsHashed == Kind(Current.line) = "hash" /\ Indent(Current.line) = 0

IsUnderlined == /\ ~AtEnd(next + 1) /\ Markup(tokens[next + 1])
                /\ \E k \in {"dashes", "equals"} :
                     tokens[next + 1].line = <<[indent |-> 0, kind |-> k]>>

IsHeader == Markup(Current) /\ (IsHashed \/ IsUnderlined)

HashHeader == Looking /\ Markup(Current) /\ IsHashed /\ PutOut(<<As("header", Current)>>, next + 1)

UnderlinedHeader ==
  /\ Looking /\ Markup(Current) /\ ~IsHashed /\ IsUnderlined
  /\ PutOut(<<As("header", Current), As("header", tokens[next + 1])>>, next + 2)

\* The stars and dashes of a rule may have blanks between them.
IsRule == /\ Markup(Current) /\ Indent(Current.line) < 4
          /\ Current.line # Empty /\ Last(Current.line).kind \in Rules
          /\ \A m \in 1..(Len(Current.line) - 1) : Current.line[m].kind \in {"star", "dash"}

HorizontalRule == Looking /\ ~IsHeader /\ IsRule /\ PutOut(<<As("rule", Current)>>, next + 1)

IsCode(t) == Markup(t) /\ Indent(t.line) >= 4

BeginCode == /\ Looking /\ ~IsHeader /\ IsCode(Current)
             /\ Begin("code", <<As("code", Current)>>) /\ UNCHANGED lists

\* isCodeBlockLine passes over any number of blank lines before a line of code.
IsCodeLine(j) == /\ \A k \in at..j : ~AtEnd(k)
                 /\ \A k \in at..(j - 1) : IsBlankLine(tokens[k])
                 /\ IsCode(tokens[j])

CodeLine == /\ Parses("code")
            /\ \E j \in at..Len(tokens) :
                 IsCodeLine(j) /\ Collect(<<As("code", tokens[j])>>, j + 1)
            /\ UNCHANGED <<parsing, lists>>

EndOfCode == /\ Parses("code") /\ ~\E j \in at..Len(tokens) : IsCodeLine(j)
             /\ PutOut(found, Resume(at))
-----------------------------------------------------------------------------
(* Block quotes.                                                           *)

\* Up to three blanks before each marker.
IsQuote(l, m) == l[m].kind = "quote" /\ l[m].indent < IF m = 1 THEN 4 ELSE 3

\* How many markers of quotes the line begins with.
QuoteLevel(l) == CHOOSE k \in 0..Len(l) : /\ \A m \in 1..k : IsQuote(l, m)
                                          /\ k < Len(l) => ~IsQuote(l, k + 1)

Level == QuoteLevel(Current.line)

Quoted(type, t) == Inner(type, t, Behind(Level, t.line), Current.depth + 1, "quote")

BeginQuote ==
  /\ Looking /\ ~IsHeader /\ Markup(Current) /\ Level > 0
  /\ Begin("quote", <<Container("quote", Current.depth, Current.within), Quoted("text", Current)>>)
  /\ UNCHANGED lists

QuoteMeetsNoText == Parses("quote") /\ ~AtEnd(Ahead) /\ ~HasText(tokens[Ahead]) /\ Fail("noText")

QuoteGoesOn == ~AtEnd(Ahead) /\ HasText(tokens[Ahead]) /\ QuoteLevel(tokens[Ahead].line) >= Level

QuoteLine ==
  /\ Parses("quote") /\ QuoteGoesOn /\ ~AtBlank
  /\ LET type == IF IsBlank(Behind(Level, tokens[at].line)) THEN "blank" ELSE "text"
     IN  Collect(<<Quoted(type, tokens[at])>>, at + 1)
  /\ UNCHANGED <<parsing, lists>>

\* Slip: a quote that goes on after a blank line is taken up at its first line.
AfterBlankLineOf(i) == i + 1

\* The line after the one behind the blank line.
AfterBlank(i) == i + 2

QuoteAfterBlank ==
  /\ Parses("quote") /\ QuoteGoesOn /\ AtBlank
  /\ Collect(Gap(Current.depth + 1, "quote") \o <<Quoted("text", tokens[Ahead])>>, AfterBlank(at))
  /\ UNCHANGED <<parsing, lists>>

EndOfQuote == /\ Parses("quote")
              /\ ~AtEnd(Ahead) => HasText(tokens[Ahead]) /\ ~QuoteGoesOn
              /\ PutBack(IF AtEnd(Ahead) THEN Ahead ELSE at)
-----------------------------------------------------------------------------
(* Lists.                                                                  *)

\* What " +" takes back a blank for, as [^*-] is no star or dash and no end.
TakesBlank == {"star", "dash", "emphasis", "dashes", "stars", "blanks"}

IsBulleted(l) == /\ Kind(l) \in Bullets
                 /\ Len(l) > 1
                 /\ l[2].kind \in TakesBlank => l[2].indent > 0

IsItem(l) == IsBulleted(l) \/ Kind(l) = "number"

\* The list that the loop is in, and the depth of what is in its items.
Of == Last(lists).of

ItemDepth == Current.depth + 2 * Len(lists)

ListOf(l) == [of |-> l[1], count |-> 1]

OneMore == [lists EXCEPT ![Len(lists)].count = @ + 1]

\* The text behind the marker: all blanks before it are taken, but for the
\* one that may be taken back.
ItemText(l) ==
  LET text == Behind(1, l)
  IN  IF Kind(l) \in Bullets /\ Kind(text) \in TakesBlank THEN [text EXCEPT ![1].indent = 1]
      ELSE IF IsBlank(text) THEN Empty
      ELSE Stripped(text)

Item(t, depth) ==
  <<Container("item", depth - 1, "list"), Inner("text", t, ItemText(t.line), depth, "item")>>

BeginList ==
  /\ Looking /\ ~IsHeader /\ Markup(Current)
  /\ IsItem(Current.line) /\ Indent(Current.line) < 4
  /\ Begin("list", <<Container("list", Current.depth, Current.within)>>
                     \o Item(Current, Current.depth + 2))
  /\ lists' = <<ListOf(Current.line)>>

\* Slip: an item of another list at the same indent begins a sublist.
StartsSublistNotDeeper(l) == /\ Kind(l) \in ItemKinds /\ Indent(l) >= Of.indent
                             /\ ~(IsItem(l) /\ Kind(l) = Of.kind /\ Indent(l) = Of.indent)

\* startSublistExpression: any text may follow the marker.
StartsSublist(l) == Kind(l) \in ItemKinds /\ Indent(l) > Of.indent

\* nextItemExpression
IsNextItem(l) == IsItem(l) /\ Kind(l) = Of.kind /\ Indent(l) = Of.indent

\* continuedAfterBlankLineExpression, codeBlockAfterBlankLineExpression
IsContinued(l) == Indent(l) = Of.indent + 4 /\ ~IsBlank(l)

\* A blank line will do if it has the blanks.
IsItemCode(l) == Indent(l) >= Of.indent + 8

\* There is a line, and it belongs to this list or one in it.
ListLine == Parses("list") /\ ~AtEnd(Ahead) /\ HasText(tokens[Ahead])

BeginSublist ==
  /\ ListLine /\ StartsSublist(tokens[Ahead].line) /\ IsItem(tokens[Ahead].line)
  /\ Collect(<<Container("list", ItemDepth, "item")>> \o Item(tokens[Ahead], ItemDepth + 2),
             Ahead + 1)
  /\ lists' = Append(OneMore, ListOf(tokens[Ahead].line))
  /\ UNCHANGED parsing

NextItem == /\ ListLine /\ ~StartsSublist(tokens[Ahead].line) /\ IsNextItem(tokens[Ahead].line)
            /\ Collect(Item(tokens[Ahead], ItemDepth), Ahead + 1)
            /\ lists' = OneMore
            /\ UNCHANGED parsing

\* The line is neither an item of this list nor of one in it.
OtherLine == ListLine /\ LET l == tokens[Ahead].line IN ~StartsSublist(l) /\ ~IsNextItem(l)

\* A text that is all blanks; cContinuedItemExpression wants one that is not.
IsNoText == OtherLine /\ ~AtBlank /\ IsBlank(tokens[at].line)

IsNoSublist == ListLine /\ StartsSublist(tokens[Ahead].line) /\ ~IsItem(tokens[Ahead].line)

\* assert(p), assert(m[1].matched)
Assertion == (IsNoSublist \/ IsNoText) /\ Fail("assert")

Continued(t) == Inner("text", t, Stripped(t.line), ItemDepth, "item")

ContinueItem == /\ OtherLine /\ ~AtBlank /\ ~IsItem(tokens[at].line) /\ ~IsNoText
                /\ Collect(<<Continued(tokens[at])>>, at + 1)
                /\ UNCHANGED <<parsing, lists>>

ContinueAfterBlank ==
  /\ OtherLine /\ AtBlank /\ IsContinued(tokens[Ahead].line)
  /\ Collect(Gap(ItemDepth, "item") \o <<Continued(tokens[Ahead])>>, Ahead + 1)
  /\ UNCHANGED <<parsing, lists>>

Code(t) == Inner("code", t, Empty, ItemDepth, "item")

BeginItemCode ==
  /\ OtherLine /\ AtBlank /\ IsItemCode(tokens[Ahead].line)
  /\ Collect(Gap(ItemDepth, "item") \o <<Code(tokens[Ahead])>>, Ahead + 1)
  /\ parsing' = "itemCode"
  /\ lists' = OneMore

ItemCodeLine ==
  /\ Parses("itemCode") /\ ~AtEnd(Ahead) /\ HasText(tokens[Ahead])
  /\ IsItemCode(tokens[Ahead].line)
  /\ Collect(<<Code(tokens[Ahead])>>, Ahead + 1)
  /\ UNCHANGED <<parsing, lists>>

\* The token behind the end is no pointer, and the program faults.
ItemCodeMeetsEnd == Parses("itemCode") /\ AtBlank /\ AtEnd(at + 1) /\ Fail("pastEnd")

ItemCodeMeetsNoText == /\ Parses("itemCode") /\ AtBlank /\ ~AtEnd(at + 1)
                       /\ ~HasText(tokens[at + 1])
                       /\ Fail("noText")

EndOfItemCode ==
  /\ Parses("itemCode")
  /\ IF AtEnd(at) THEN TRUE
     ELSE IF AtBlank THEN /\ ~AtEnd(at + 1) /\ HasText(tokens[at + 1])
                          /\ ~IsItemCode(tokens[at + 1].line)
     ELSE ~(HasText(tokens[at]) /\ IsItemCode(tokens[at].line))
  /\ parsing' = "list"
  /\ UNCHANGED <<doc, pass, output, aside, failure, at, found, lists>>

\* The loop ends without a line, with an item of an outer list, or with a line
\* behind a blank one that is not indented as it should be.
ListEnds ==
  /\ Parses("list")
  /\ ListLine => LET l == tokens[Ahead].line
                 IN  /\ OtherLine
                     /\ IF AtBlank THEN ~IsContinued(l) /\ ~IsItemCode(l) ELSE IsItem(l)

ListEnd == IF AtEnd(Ahead) THEN Ahead ELSE at

EndOfSublist == /\ ListEnds /\ Len(lists) > 1
                /\ lists' = Front(lists)
                /\ at' = ListEnd
                /\ UNCHANGED <<doc, pass, output, aside, failure, parsing, found>>

\* A single item that is not indented is a false alarm.
IsFalseAlarm == Last(lists).count = 1 /\ Of.indent = 0

EndOfList == ListEnds /\ Len(lists) = 1 /\ ~IsFalseAlarm /\ PutBack(ListEnd)

FalseAlarm == ListEnds /\ Len(lists) = 1 /\ IsFalseAlarm /\ PutOut(<<Current>>, next + 1)

ListTurn == \/ BeginSublist \/ Assertion \/ NextItem \/ ContinueItem \/ ContinueAfterBlank
            \/ BeginItemCode \/ EndOfSublist \/ EndOfList \/ FalseAlarm

ItemCodeTurn == ItemCodeLine \/ ItemCodeMeetsEnd \/ ItemCodeMeetsNoText \/ EndOfItemCode
-----------------------------------------------------------------------------
BeginsBlock == /\ Markup(Current)
               /\ \/ IsHeader \/ IsRule \/ IsCode(Current) \/ Level > 0
                  \/ IsItem(Current.line) /\ Indent(Current.line) < 4

KeepToken == Looking /\ ~BeginsBlock /\ PutOut(<<Current>>, next + 1)

BlocksPassEnds == /\ pass = "blocks" /\ parsing = "none" /\ next > Len(tokens)
                  /\ tokens' = processed
                  /\ EndPass("paragraphs")

\* Slip: what is left at the end is not flushed.
LastParagraphLost(out, open) == IF next > Len(tokens) THEN out ELSE out \o open

\* flushParagraph
Flush(out, open) == out \o open

\* Text joins the paragraph in progress, which is found, within one container.
Joins == /\ next <= Len(tokens) /\ Current.type = "text"
         /\ found # <<>> => Current.depth = Last(found).depth

ParagraphLine == /\ pass = "paragraphs" /\ Joins
                 /\ found' = Append(found, As("paragraph", Current))
                 /\ next' = next + 1
                 /\ UNCHANGED <<doc, pass, tokens, processed, aside, failure, parsing, at, lists>>

FlushParagraph == /\ pass = "paragraphs" /\ found # <<>> /\ ~Joins
                  /\ processed' = Flush(processed, found)
                  /\ found' = <<>>
                  /\ UNCHANGED <<doc, pass, tokens, next, aside, failure, parsing, at, lists>>

OtherToken == /\ pass = "paragraphs" /\ found = <<>> /\ next <= Len(tokens) /\ ~Joins
              /\ processed' = Append(processed, Current)
              /\ next' = next + 1
              /\ UNCHANGED <<doc, pass, tokens, aside, failure, parser>>

ParagraphsPassEnds == /\ pass = "paragraphs" /\ found = <<>> /\ next > Len(tokens)
                      /\ tokens' = processed
                      /\ EndPass("done")

HtmlTurn == InlineHtml \/ Reference \/ KeepLine \/ HtmlPassEnds

BlockTurn == \/ HashHeader \/ UnderlinedHeader \/ HorizontalRule \/ BeginCode
             \/ BeginQuote \/ BeginList \/ KeepToken \/ BlocksPassEnds

CodeTurn == CodeLine \/ EndOfCode

QuoteTurn == QuoteMeetsNoText \/ QuoteLine \/ QuoteAfterBlank \/ EndOfQuote

ParagraphTurn == ParagraphLine \/ FlushParagraph \/ OtherToken \/ ParagraphsPassEnds

DocNext == \/ \E l \in SourceLines : ReadLine(l)
           \/ EndOfStream \/ HtmlTurn \/ BlockTurn \/ CodeTurn \/ QuoteTurn \/ ListTurn
           \/ ItemCodeTurn \/ ParagraphTurn

DocSpec == DocInit /\ [][DocNext]_docVars
-----------------------------------------------------------------------------
Classes == {"text", "blank", "html", "header", "rule", "code", "list", "item", "quote", "paragraph"}

Places == {"page", "list", "item", "quote"}

TokenType ==
  [type : Classes, n : Nat, line : Seq(LineMarker), depth : Nat, within : Places]

ListType == [of : LineMarker, count : Nat]

(* The iterators stay within the tokens or at their end, and that of a     *)
(* parse function is ahead of the pass (markdown.cpp:759-790).             *)
DocTypeOK == /\ doc \in Seq(SourceLines)
             /\ pass \in {"read", "html", "blocks", "paragraphs", "done"}
             /\ tokens \in Seq(TokenType) /\ processed \in Seq(TokenType)
             /\ found \in Seq(TokenType)
             /\ next \in 1..(Len(tokens) + 1)
             /\ aside \subseteq DOMAIN doc
             /\ failure \in {"none", "assert", "noText", "pastEnd"}
             /\ parsing \in {"none", "code", "quote", "list", "itemCode"}
             /\ parsing # "none" => at \in (next + 1)..(Len(tokens) + 1)
             /\ lists \in Seq(ListType)
             /\ lists # <<>> <=> parsing \in {"list", "itemCode"}

\* The lines of s come before those of t.
Below(s, t) ==
  \A i \in 1..Len(s), j \in 1..Len(t) : s[i].n # 0 /\ t[j].n # 0 => s[i].n < t[j].n

Ordered(s) ==
  \A i, j \in 1..Len(s) : i < j /\ s[i].n # 0 /\ s[j].n # 0 => s[i].n < s[j].n

(* The page has the lines of the document in their order and none of them  *)
(* twice, although each pass looks ahead, takes back and nests             *)
(* (markdown.cpp:694-829).                                                 *)
LinesInOrder == pass = "done" => Ordered(tokens)

OnPage(n) == \E i \in 1..Len(tokens) : tokens[i].n = n

InCode(n) == \E i \in 1..Len(tokens) : tokens[i].n = n /\ tokens[i].type = "code"

InBlock(n) == InCode(n) \/ \E i \in 1..Len(tokens) : tokens[i].n = n /\ tokens[i].depth > 0

IsLost(n) == ~IsBlank(doc[n]) /\ n \notin aside /\ ~OnPage(n)

\* The text of an item on the line is itself an item, of a list in the item.
HasIndentedItem(l) ==
  \E m \in 2..Len(l) : /\ l[m - 1].kind \in Bullets
                       /\ l[m].kind \in {"star", "dash"} /\ l[m].indent > 0

HasNestedItem(l) == \E m \in 1..Len(l) : l[m].kind \in ItemKinds /\ l[m].indent > 0

(* A line gets lost only behind a list, a quote or a block of code, for    *)
(* there the iterator is already on the next token when the loop goes on   *)
(* (markdown.cpp:780): with no blank line between; or it is inline HTML    *)
(* between two lines of code (196, 402); or it is in a sublist, which is   *)
(* one token, behind an item whose text is an indented item (295, 379).    *)
(* All others, but for blank lines and references, are on the page.        *)
LostOnlyBehindBlocks ==
  pass = "done" => \A n \in 1..Len(doc) : IsLost(n) =>
    \E k \in 1..(n - 1) :
      /\ InBlock(k)
      /\ \/ \A m \in (k + 1)..n : ~OnPage(m) /\ ~IsBlank(doc[m])
         \/ /\ InCode(k)
            /\ \E c \in (n + 1)..Len(doc) : InCode(c) /\ \A m \in (k + 1)..(c - 1) : ~OnPage(m)
         \/ /\ HasIndentedItem(doc[k])
            /\ \E m \in (k + 1)..n : HasNestedItem(doc[m]) /\ \A j \in m..n : ~OnPage(j)

HasMarker(P(_)) == \E n \in 1..Len(doc) : \E m \in 1..Len(doc[n]) : P(doc[n][m])

(* The conversion, and with it the server, ends only for three causes: a   *)
(* nested bullet without text, or with one that begins with a star or a    *)
(* dash behind a single blank (markdown.cpp:380, 431); a quote before      *)
(* inline HTML or before a list in the same item (270, 278), or code       *)
(* within an item before inline HTML (405); and code within an item, also  *)
(* one of blanks only, before a blank line at the end of what is around    *)
(* it (405).                                                               *)
FailureHasCause ==
  LET Tag(m) == m.kind = "tag"
      Deep(m) == m.indent >= 8
  IN  /\ failure = "assert" =>
           \E n \in 1..Len(doc) : \E m \in 1..Len(doc[n]) :
             /\ doc[n][m].kind \in Bullets /\ doc[n][m].indent > 0
             /\ ~IsBulleted(Behind(m - 1, doc[n]))
      /\ failure = "noText" =>
           \/ /\ HasMarker(LAMBDA m : m.kind = "quote")
              /\ HasMarker(Tag) \/ HasMarker(LAMBDA m : m.kind \in ItemKinds /\ m.indent > 0)
           \/ HasMarker(Tag) /\ HasMarker(Deep)
      /\ failure = "pastEnd" =>
           /\ HasMarker(Deep)
           /\ \E n \in 1..Len(doc) : doc[n] = Empty \/ Last(doc[n]).kind \in {"quote", "blanks"}
=============================================================================
