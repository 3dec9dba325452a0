---------------------------- MODULE ConfigParser ----------------------------
(***************************************************************************)
(* The parser of the configuration file                                    *)
(* (nginx-configparser/config_parser.cc): the scanner ParseToken and the   *)
(* parser ParseConfig, fed one character at a time from a file that may    *)
(* end anywhere.                                                           *)
(*                                                                         *)
(* A character is the class the scanner puts it in.  The tree of           *)
(* NginxConfig objects is a sequence of nodes in the order of their        *)
(* creation, each with its parent and the number of its tokens; the config *)
(* that ParseConfig was given is node 0, and has no tokens.                *)
(***************************************************************************)
EXTENDS Integers, Sequences

CONSTANT MaxChars  \* bound on the length of the file

ASSUME MaxCharsAssumption == MaxChars \in Nat

VARIABLES scan,     \* the state of ParseToken
          unread,   \* the character given back with unget, or NoChar
          last,     \* last_token_type
          stack,    \* config_stack, its top at the end
          depth,    \* block_depth
          nodes,    \* the NginxConfig objects made so far
          verdict,  \* "reading", "accepted", "rejected" or "undefined"
          used,     \* how many characters have been read
          begun     \* ghost: how many words and quoted strings have begun

vars == <<scan, unread, last, stack, depth, nodes, verdict, used, begun>>

NoChar == "none"

Blank == {"space", "newline", "return"}

Chars == Blank \cup {"{", "}", ";", "hash", "quote", "dquote", "letter"}

Root == 0

\* In the initial state of the scanner: the tokens of one character, and the
\* characters that begin a longer one.
Punctuation == [x \in {"{", "}", ";"} |->
                  CASE x = "{" -> "START_BLOCK"
                    [] x = "}" -> "END_BLOCK"
                    [] x = ";" -> "STATEMENT_END"]

Starts == [hash |-> "comment", quote |-> "single", dquote |-> "double", letter |-> "word"]

\* A word ends before one of these; "return" is not among them.
EndsWord == {"space", "newline", "{", "}", ";"}

\* The token ParseToken returns on reading c, or NoChar when it reads on.
TokenAt(c) ==
  CASE scan = "initial" /\ c \in DOMAIN Punctuation -> Punctuation[c]
    [] scan = "single" /\ c = "quote" -> "NORMAL"
    [] scan = "double" /\ c = "dquote" -> "NORMAL"
    [] scan = "comment" /\ c \in {"newline", "return"} -> "COMMENT"
    [] scan = "word" /\ c \in EndsWord -> "NORMAL"
    [] OTHER -> NoChar

\* The token ParseToken returns at the end of the file: what there was of a
\* word or a comment is dropped.
TokenAtEnd == IF scan \in {"single", "double"} THEN "ERROR" ELSE "EOF"

Init == /\ scan = "initial"
        /\ unread = NoChar
        /\ last = "START"
        /\ stack = <<Root>>
        /\ depth = 0
        /\ nodes = <<>>
        /\ verdict = "reading"
        /\ used = 0
        /\ begun = 0
-----------------------------------------------------------------------------
(* ParseConfig.                                                            *)

Top == stack[Len(stack)]

ChildrenOf(n) == {i \in 1..Len(nodes) : nodes[i].parent = n}

\* config_stack.top()->children_.back()
Back == CHOOSE i \in ChildrenOf(Top) : \A j \in ChildrenOf(Top) : j <= i

Reject == /\ verdict' = "rejected"
          /\ UNCHANGED <<last, stack, depth, nodes>>

\* top() or pop() of an empty std::stack: anything may follow.
Undefined == /\ verdict' = "undefined"
             /\ UNCHANGED <<last, stack, depth, nodes>>

\* Slip: every statement is added to the outermost config.
WordAtRoot == IF stack = <<>> THEN Undefined
              ELSE /\ nodes' = IF last = "NORMAL" /\ ChildrenOf(Top) # {}
                                 THEN [nodes EXCEPT ![Back].tokens = @ + 1]
                                 ELSE Append(nodes, [parent |-> Root, tokens |-> 1])
                   /\ last' = "NORMAL"
                   /\ UNCHANGED <<stack, depth, verdict>>

\* Slip: only the first word of a statement is kept.
WordFirstOnly == IF stack = <<>> THEN Undefined
                 ELSE /\ nodes' = IF last = "NORMAL" THEN nodes
                                    ELSE Append(nodes, [parent |-> Top, tokens |-> 1])
                      /\ last' = "NORMAL"
                      /\ UNCHANGED <<stack, depth, verdict>>

Word == IF stack = <<>> THEN Undefined
        ELSE /\ nodes' = IF last = "NORMAL"
                           THEN [nodes EXCEPT ![Back].tokens = @ + 1]
                           ELSE Append(nodes, [parent |-> Top, tokens |-> 1])
             /\ last' = "NORMAL"
             /\ UNCHANGED <<stack, depth, verdict>>

StatementEnd == IF last # "NORMAL" THEN Reject
                ELSE /\ last' = "STATEMENT_END"
                     /\ UNCHANGED <<stack, depth, nodes, verdict>>

StartBlock == IF last # "NORMAL" THEN Reject
              ELSE /\ stack' = Append(stack, Back)
                   /\ depth' = depth + 1
                   /\ last' = "START_BLOCK"
                   /\ UNCHANGED <<nodes, verdict>>

MayEndBlock == last \in {"STATEMENT_END", "END_BLOCK", "START_BLOCK"}

\* Slip: the outermost block is closed first.
EndBlockFirst == IF ~MayEndBlock THEN Reject
                 ELSE IF stack = <<>> THEN Undefined
                 ELSE /\ stack' = Tail(stack)
                      /\ depth' = depth - 1
                      /\ last' = "END_BLOCK"
                      /\ UNCHANGED <<nodes, verdict>>

EndBlock == IF ~MayEndBlock THEN Reject
            ELSE IF stack = <<>> THEN Undefined
            ELSE /\ stack' = SubSeq(stack, 1, Len(stack) - 1)
                 /\ depth' = depth - 1
                 /\ last' = "END_BLOCK"
                 /\ UNCHANGED <<nodes, verdict>>

EndOfConfig == /\ verdict' = IF last \in {"STATEMENT_END", "END_BLOCK", "START"} /\ depth = 0
                             THEN "accepted" ELSE "rejected"
               /\ UNCHANGED <<last, stack, depth, nodes>>

Consume(token) ==
  CASE token = "NORMAL"        -> Word
    [] token = "STATEMENT_END" -> StatementEnd
    [] token = "START_BLOCK"   -> StartBlock
    [] token = "END_BLOCK"     -> EndBlock
    [] token = "COMMENT"       -> UNCHANGED <<last, stack, depth, nodes, verdict>>
    [] token = "EOF"           -> EndOfConfig
    [] token = "ERROR"         -> Reject
-----------------------------------------------------------------------------
Read(c) == /\ verdict = "reading"
           /\ IF unread = NoChar THEN used < MaxChars /\ used' = used + 1
                                 ELSE c = unread /\ UNCHANGED used

\* A character that ends no token.
Scan(c) ==
  /\ Read(c) /\ TokenAt(c) = NoChar
  /\ scan' = IF scan = "initial" /\ c \in DOMAIN Starts THEN Starts[c] ELSE scan
  /\ begun' = IF scan = "initial" /\ c \in {"quote", "dquote", "letter"} THEN begun + 1 ELSE begun
  /\ unread' = NoChar
  /\ UNCHANGED <<last, stack, depth, nodes, verdict>>

\* A character that ends a token, which ParseConfig consumes.
ParseToken(c) ==
  /\ Read(c) /\ TokenAt(c) # NoChar
  /\ scan' = "initial"
  /\ unread' = IF scan = "word" THEN c ELSE NoChar
  /\ Consume(TokenAt(c))
  /\ UNCHANGED begun

EndOfFile ==
  /\ verdict = "reading" /\ unread = NoChar
  /\ Consume(TokenAtEnd)
  /\ UNCHANGED <<scan, unread, used, begun>>

Next == (\E c \in Chars : Scan(c) \/ ParseToken(c)) \/ EndOfFile

Spec == Init /\ [][Next]_vars
-----------------------------------------------------------------------------
Tokens == {"START", "NORMAL", "START_BLOCK", "END_BLOCK", "STATEMENT_END"}

(* The locals of the parser and of the scanner.  The depth may go down to  *)
(* -1: the pop of the root is counted.                                     *)
TypeOK == /\ scan \in {"initial", "single", "double", "comment", "word"}
          /\ unread \in EndsWord \cup {NoChar}
          /\ last \in Tokens
          /\ stack \in Seq(Nat)
          /\ depth \in Int
          /\ nodes \in Seq([parent : Nat, tokens : Nat])
          /\ verdict \in {"reading", "accepted", "rejected", "undefined"}
          /\ used \in 0..MaxChars
          /\ begun \in Nat

DepthIsStackDepth == depth + 1 = Len(stack)

PathFromRoot ==
  stack # <<>> => /\ stack[1] = Root
                  /\ \A i \in 2..Len(stack) : /\ stack[i] \in 1..Len(nodes)
                                              /\ nodes[stack[i]].parent = stack[i - 1]

(* The stack is a path of the tree from the root, as high as block_depth   *)
(* says, which is kept up separately: a statement is added to the          *)
(* innermost open block, "}" closes that one, and the test of block_depth  *)
(* at the end of the file is a test for open blocks                        *)
(* (config_parser.cc:246-284).                                             *)
StackIsPath == PathFromRoot /\ DepthIsStackDepth

(* After a word, children_.back() of the innermost open block exists and   *)
(* is the statement that word belongs to: the newest one. ParseConfig uses *)
(* back() without a test (config_parser.cc:253, 269).                      *)
BackIsNewest == last = "NORMAL" => stack # <<>> /\ ChildrenOf(Top) # {} /\ Back = Len(nodes)

(* Every statement of the tree has a first token: find and findAll read    *)
(* tokens_[0] of every child without a test (config_parser.cc:92-115).     *)
StatementsHaveTokens == \A i \in 1..Len(nodes) : nodes[i].tokens >= 1

TokensInTree == LET upTo[n \in 0..Len(nodes)] ==
                      IF n = 0 THEN 0 ELSE nodes[n].tokens + upTo[n - 1]
                IN  upTo[Len(nodes)]

(* The tree of an accepted file holds every word and quoted string of the  *)
(* file, except one that the end of the file cuts off.                     *)
TreeKeepsWords ==
  verdict = "accepted" => TokensInTree = begun - (IF scan = "word" THEN 1 ELSE 0)
=============================================================================
