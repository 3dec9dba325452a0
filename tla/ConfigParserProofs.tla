-------------------------- MODULE ConfigParserProofs --------------------------
(***************************************************************************)
(* Theorems about ConfigParser, for files of any length.                   *)
(***************************************************************************)
EXTENDS ConfigParser, SequenceTheorems, WellFoundedInduction, TLAPS

(* BackIsNewest without its CHOOSE.                                        *)
NewestIsOpen == last = "NORMAL" => /\ stack # <<>>
                                   /\ nodes # <<>>
                                   /\ nodes[Len(nodes)].parent = Top

IInv == /\ TypeOK
        /\ DepthIsStackDepth
        /\ PathFromRoot
        /\ NewestIsOpen
        /\ StatementsHaveTokens

Node == [parent : Nat, tokens : Nat]

LEMMA BackIsLast ==
  ASSUME TypeOK, nodes # <<>>, nodes[Len(nodes)].parent = Top
  PROVE  /\ Back = Len(nodes)
         /\ Len(nodes) \in ChildrenOf(Top)
<1>1. Len(nodes) \in Nat \ {0}
  BY DEF TypeOK
<1>2. Len(nodes) \in ChildrenOf(Top)
  BY <1>1 DEF ChildrenOf
<1>3. \A i \in ChildrenOf(Top) : i \in 1..Len(nodes)
  BY DEF ChildrenOf
<1>4. \A i \in ChildrenOf(Top) :
        (\A j \in ChildrenOf(Top) : j <= i) => i = Len(nodes)
  BY <1>1, <1>2, <1>3
<1>5. \A j \in ChildrenOf(Top) : j <= Len(nodes)
  BY <1>1, <1>3
<1> QED
  BY <1>2, <1>4, <1>5 DEF Back

LEMMA IInit == Init => IInv
<1> SUFFICES ASSUME Init
             PROVE  IInv
  OBVIOUS
<1>1. stack = <<0>> /\ stack \in Seq(Nat) /\ Len(stack) = 1 /\ stack[1] = 0
  BY DEF Init, Root
<1>2. nodes = <<>> /\ nodes \in Seq([parent : Nat, tokens : Nat]) /\ Len(nodes) = 0
  BY DEF Init
<1>3. TypeOK
  BY <1>1, <1>2, MaxCharsAssumption DEF Init, TypeOK, Tokens
<1>4. PathFromRoot
  BY <1>1 DEF PathFromRoot, Root
<1> QED
  BY <1>1, <1>2, <1>3, <1>4 DEF Init, IInv, DepthIsStackDepth, NewestIsOpen, StatementsHaveTokens

(* The conjuncts of the invariant that the parser's steps concern.         *)
Shape == /\ last \in Tokens
         /\ stack \in Seq(Nat)
         /\ depth \in Int
         /\ nodes \in Seq(Node)
         /\ verdict \in {"reading", "accepted", "rejected", "undefined"}
         /\ DepthIsStackDepth
         /\ PathFromRoot
         /\ NewestIsOpen
         /\ StatementsHaveTokens

LEMMA ShapeOfIInv == IInv => Shape
  BY DEF IInv, TypeOK, Shape, Node

LEMMA WordShape == IInv /\ Word => Shape'
<1> SUFFICES ASSUME IInv, Word
             PROVE  Shape'
  OBVIOUS
<1>0. Shape /\ TypeOK
  BY ShapeOfIInv DEF IInv
<1>1. CASE stack = <<>>
  BY <1>0, <1>1 DEF Word, Undefined, Shape, DepthIsStackDepth, PathFromRoot, NewestIsOpen,
                    StatementsHaveTokens, Top
<1>2. CASE stack # <<>> /\ last = "NORMAL"
  <2>1. nodes # <<>> /\ Back = Len(nodes) /\ nodes[Len(nodes)].parent = Top
    BY <1>0, <1>2, BackIsLast DEF Shape, NewestIsOpen
  <2>2. nodes' = [nodes EXCEPT ![Len(nodes)].tokens = @ + 1]
    BY <1>2, <2>1 DEF Word
  <2>3. Len(nodes) \in 1..Len(nodes)
    BY <1>0, <2>1 DEF Shape
  <2>4. nodes[Len(nodes)] \in Node
    BY <1>0, <2>3 DEF Shape
  <2>5. nodes' \in Seq(Node) /\ Len(nodes') = Len(nodes)
    <3> DEFINE e == [nodes[Len(nodes)] EXCEPT !.tokens = @ + 1]
    <3>1. e \in Node
      BY <2>4 DEF Node
    <3>2. nodes' = [nodes EXCEPT ![Len(nodes)] = e]
      BY <2>2
    <3> QED
      BY <1>0, <2>3, <3>1, <3>2, ExceptSeq DEF Shape
  <2>6. \A i \in 1..Len(nodes) : /\ nodes'[i].parent = nodes[i].parent
                                 /\ nodes'[i].tokens >= nodes[i].tokens
    <3>1. \A i \in 1..Len(nodes) : nodes[i] \in Node
      BY <1>0 DEF Shape
    <3> QED
      BY <2>2, <2>3, <2>4, <3>1 DEF Node
  <2>7. \A i \in 1..Len(nodes) : nodes[i].tokens \in Nat /\ nodes'[i].tokens \in Nat
    <3>1. \A i \in 1..Len(nodes) : nodes[i] \in Node /\ nodes'[i] \in Node
      BY <1>0, <2>5 DEF Shape
    <3> QED
      BY <3>1 DEF Node
  <2>8. UNCHANGED <<stack, depth, verdict>> /\ last' = "NORMAL"
    BY <1>2 DEF Word
  <2>9. PathFromRoot'
    BY <1>0, <2>5, <2>6, <2>8 DEF Shape, PathFromRoot
  <2>10. StatementsHaveTokens'
    BY <1>0, <2>5, <2>6, <2>7 DEF Shape, StatementsHaveTokens
  <2>11. NewestIsOpen'
    BY <1>2, <2>1, <2>3, <2>5, <2>6, <2>8 DEF NewestIsOpen, Top
  <2> QED
    BY <1>0, <2>5, <2>8, <2>9, <2>10, <2>11 DEF Shape, Tokens, DepthIsStackDepth
<1>3. CASE stack # <<>> /\ last # "NORMAL"
  <2> DEFINE n == [parent |-> Top, tokens |-> 1]
  <2>1. nodes' = Append(nodes, n)
    BY <1>3 DEF Word
  <2>2. n \in Node
    BY <1>0, <1>3 DEF Shape, Top, Node
  <2>3. /\ nodes' \in Seq(Node)
        /\ Len(nodes') = Len(nodes) + 1
        /\ nodes'[Len(nodes) + 1] = n
        /\ \A i \in 1..Len(nodes) : nodes'[i] = nodes[i]
    BY <1>0, <2>1, <2>2 DEF Shape
  <2>4. UNCHANGED <<stack, depth, verdict>> /\ last' = "NORMAL"
    BY <1>3 DEF Word
  <2>5. PathFromRoot'
    BY <1>0, <2>3, <2>4 DEF Shape, PathFromRoot
  <2>6. StatementsHaveTokens'
    BY <1>0, <2>3 DEF Shape, StatementsHaveTokens
  <2>7. NewestIsOpen'
    BY <1>3, <2>3, <2>4 DEF NewestIsOpen, Top
  <2> QED
    BY <1>0, <2>3, <2>4, <2>5, <2>6, <2>7 DEF Shape, Tokens, DepthIsStackDepth
<1> QED
  BY <1>1, <1>2, <1>3

LEMMA StartBlockShape == IInv /\ StartBlock => Shape'
<1> SUFFICES ASSUME IInv, StartBlock
             PROVE  Shape'
  OBVIOUS
<1>0. Shape /\ TypeOK
  BY ShapeOfIInv DEF IInv
<1>1. CASE last # "NORMAL"
  BY <1>0, <1>1 DEF StartBlock, Reject, Shape, DepthIsStackDepth, PathFromRoot, NewestIsOpen,
                    StatementsHaveTokens, Top
<1>2. CASE last = "NORMAL"
  <2>1. stack # <<>> /\ nodes # <<>> /\ Back = Len(nodes) /\ nodes[Len(nodes)].parent = Top
    BY <1>0, <1>2, BackIsLast DEF Shape, NewestIsOpen
  <2>2. Len(nodes) \in 1..Len(nodes) /\ Len(nodes) \in Nat
    BY <1>0, <2>1 DEF Shape
  <2>3. /\ stack' = Append(stack, Len(nodes))
        /\ UNCHANGED <<nodes, verdict>> /\ depth' = depth + 1 /\ last' = "START_BLOCK"
    BY <1>2, <2>1 DEF StartBlock
  <2>4. /\ stack' \in Seq(Nat)
        /\ Len(stack') = Len(stack) + 1
        /\ stack'[Len(stack) + 1] = Len(nodes)
        /\ \A i \in 1..Len(stack) : stack'[i] = stack[i]
    BY <1>0, <2>2, <2>3 DEF Shape
  <2>5. Len(stack) \in Nat \ {0}
    BY <1>0, <2>1 DEF Shape
  <2>6. PathFromRoot'
    BY <1>0, <2>1, <2>2, <2>3, <2>4, <2>5 DEF Shape, PathFromRoot, Top
  <2>7. DepthIsStackDepth'
    BY <1>0, <2>3, <2>4, <2>5 DEF Shape, DepthIsStackDepth
  <2> QED
    BY <1>0, <2>3, <2>4, <2>6, <2>7 DEF Shape, Tokens, NewestIsOpen, StatementsHaveTokens
<1> QED
  BY <1>1, <1>2

LEMMA EndBlockShape == IInv /\ EndBlock => Shape'
<1> SUFFICES ASSUME IInv, EndBlock
             PROVE  Shape'
  OBVIOUS
<1>0. Shape
  BY ShapeOfIInv
<1>1. CASE ~MayEndBlock \/ stack = <<>>
  BY <1>0, <1>1 DEF EndBlock, Reject, Undefined, Shape, DepthIsStackDepth, PathFromRoot,
                    NewestIsOpen, StatementsHaveTokens, Top
<1>2. CASE MayEndBlock /\ stack # <<>>
  <2>1. Len(stack) \in Nat \ {0}
    BY <1>0, <1>2 DEF Shape
  <2>2. /\ stack' = SubSeq(stack, 1, Len(stack) - 1)
        /\ UNCHANGED <<nodes, verdict>> /\ depth' = depth - 1 /\ last' = "END_BLOCK"
    BY <1>2 DEF EndBlock
  <2>3. /\ stack' \in Seq(Nat)
        /\ Len(stack') = Len(stack) - 1
        /\ \A i \in 1..(Len(stack) - 1) : stack'[i] = stack[i]
    <3>1. \A i \in 1..(Len(stack) - 1) : stack[i] \in Nat
      BY <1>0, <2>1 DEF Shape
    <3>2. Len(stack) - 1 \in Int /\ 1 \in Int
      BY <2>1
    <3> DEFINE rest == SubSeq(stack, 1, Len(stack) - 1)
    <3>3. /\ rest \in Seq(Nat)
          /\ Len(rest) = IF 1 <= Len(stack) - 1 THEN Len(stack) - 1 - 1 + 1 ELSE 0
          /\ \A i \in 1..(Len(stack) - 1 - 1 + 1) : rest[i] = stack[1 + i - 1]
      BY <3>1, <3>2, SubSeqProperties
    <3>4. stack' = rest
      BY <2>2
    <3> HIDE DEF rest
    <3>5. Len(stack') = Len(stack) - 1
      BY <2>1, <3>3, <3>4
    <3>6. ASSUME NEW i \in 1..(Len(stack) - 1)
          PROVE  stack'[i] = stack[i]
      <4>1. i \in 1..(Len(stack) - 1 - 1 + 1) /\ 1 + i - 1 = i
        BY <2>1
      <4> QED
        BY <3>3, <3>4, <4>1
    <3> QED
      BY <3>3, <3>5, <3>6, <3>4
  <2>4. stack' # <<>> => Len(stack') \in Nat \ {0}
    BY <2>3
  <2>5. PathFromRoot'
    <3> SUFFICES ASSUME stack' # <<>>
                 PROVE  /\ stack'[1] = Root
                        /\ \A i \in 2..Len(stack') : /\ stack'[i] \in 1..Len(nodes)
                                                      /\ nodes[stack'[i]].parent = stack'[i - 1]
      BY <2>2 DEF PathFromRoot
    <3>1. 1 \in 1..(Len(stack) - 1)
      BY <2>1, <2>3, <2>4
    <3>2. \A i \in 2..Len(stack') : i \in 1..(Len(stack) - 1) /\ i - 1 \in 1..(Len(stack) - 1)
      BY <2>1, <2>3
    <3>3. stack'[1] = stack[1]
      BY <2>3, <3>1
    <3>4. \A i \in 2..Len(stack') : stack'[i] = stack[i] /\ stack'[i - 1] = stack[i - 1]
      BY <2>3, <3>2
    <3>5. \A i \in 2..Len(stack') : i \in 2..Len(stack)
      BY <2>1, <2>3
    <3> QED
      BY <1>0, <1>2, <3>3, <3>4, <3>5 DEF Shape, PathFromRoot
  <2>6. DepthIsStackDepth'
    BY <1>0, <2>1, <2>2, <2>3 DEF Shape, DepthIsStackDepth
  <2> QED
    BY <1>0, <2>2, <2>3, <2>5, <2>6 DEF Shape, Tokens, NewestIsOpen, StatementsHaveTokens
<1> QED
  BY <1>1, <1>2

LEMMA OtherShape == IInv /\ (StatementEnd \/ EndOfConfig \/ Reject) => Shape'
<1> SUFFICES ASSUME IInv, StatementEnd \/ EndOfConfig \/ Reject
             PROVE  Shape'
  OBVIOUS
<1>0. Shape
  BY ShapeOfIInv
<1> QED
  BY <1>0 DEF StatementEnd, EndOfConfig, Reject, Shape, Tokens, DepthIsStackDepth, PathFromRoot,
              NewestIsOpen, StatementsHaveTokens, Top

LEMMA ConsumeShape ==
  ASSUME IInv,
         NEW token \in {"NORMAL", "STATEMENT_END", "START_BLOCK", "END_BLOCK", "COMMENT", "EOF", "ERROR"},
         Consume(token)
  PROVE  Shape'
<1>1. CASE token = "COMMENT"
  <2>1. UNCHANGED <<last, stack, depth, nodes, verdict>>
    BY <1>1 DEF Consume
  <2> QED
    BY <2>1, ShapeOfIInv DEF Shape, DepthIsStackDepth, PathFromRoot, NewestIsOpen,
                             StatementsHaveTokens, Top
<1>2. CASE token = "NORMAL"
  BY <1>2, WordShape DEF Consume
<1>3. CASE token = "START_BLOCK"
  BY <1>3, StartBlockShape DEF Consume
<1>4. CASE token = "END_BLOCK"
  BY <1>4, EndBlockShape DEF Consume
<1>5. CASE token \in {"STATEMENT_END", "EOF", "ERROR"}
  BY <1>5, OtherShape DEF Consume
<1> QED
  BY <1>1, <1>2, <1>3, <1>4, <1>5

LEMMA INext == IInv /\ [Next]_vars => IInv'
<1> SUFFICES ASSUME IInv, [Next]_vars
             PROVE  IInv'
  OBVIOUS
<1>0. TypeOK
  BY DEF IInv
<1>1. ASSUME Shape',
             (scan \in {"initial", "single", "double", "comment", "word"})',
             (unread \in EndsWord \cup {NoChar})',
             (used \in 0..MaxChars)', (begun \in Nat)'
      PROVE  IInv'
  BY <1>1 DEF IInv, TypeOK, Shape, Node
<1>2. ASSUME NEW c \in Chars, Scan(c)
      PROVE  IInv'
  <2>1. UNCHANGED <<last, stack, depth, nodes, verdict>>
    BY <1>2 DEF Scan
  <2>2. Shape'
    BY <2>1, ShapeOfIInv DEF Shape, DepthIsStackDepth, PathFromRoot, NewestIsOpen,
                             StatementsHaveTokens, Top
  <2>3. (scan \in {"initial", "single", "double", "comment", "word"})'
    BY <1>0, <1>2 DEF Scan, TypeOK, Starts
  <2>4. (used \in 0..MaxChars)'
    BY <1>0, <1>2, MaxCharsAssumption DEF Scan, Read, TypeOK
  <2> QED
    BY <1>0, <1>1, <1>2, <2>2, <2>3, <2>4 DEF Scan, TypeOK
<1>3. ASSUME NEW c \in Chars, ParseToken(c)
      PROVE  IInv'
  <2>1. TokenAt(c) \in {"NORMAL", "STATEMENT_END", "START_BLOCK", "END_BLOCK", "COMMENT"}
    BY <1>3 DEF ParseToken, TokenAt, Punctuation, NoChar
  <2>2. Shape'
    BY <1>3, <2>1, ConsumeShape DEF ParseToken
  <2>3. (unread \in EndsWord \cup {NoChar})'
    BY <1>3 DEF ParseToken, TokenAt
  <2>4. (used \in 0..MaxChars)'
    BY <1>0, <1>3, MaxCharsAssumption DEF ParseToken, Read, TypeOK
  <2> QED
    BY <1>0, <1>1, <1>3, <2>2, <2>3, <2>4 DEF ParseToken, TypeOK
<1>4. CASE EndOfFile
  <2>1. Shape'
    BY <1>4, ConsumeShape DEF EndOfFile, TokenAtEnd
  <2> QED
    BY <1>0, <1>1, <1>4, <2>1 DEF EndOfFile, TypeOK
<1>5. CASE UNCHANGED vars
  <2>1. Shape'
    BY <1>5, ShapeOfIInv DEF vars, Shape, DepthIsStackDepth, PathFromRoot, NewestIsOpen,
                             StatementsHaveTokens, Top
  <2> QED
    BY <1>0, <1>1, <1>5, <2>1 DEF vars, TypeOK
<1> QED
  BY <1>2, <1>3, <1>4, <1>5 DEF Next

LEMMA IInvHolds == Spec => []IInv
  BY IInit, INext, PTL DEF Spec

(* The scanner and the parser keep their state's type, for files of any    *)
(* length (config_parser.cc:218-224).                                      *)
THEOREM TypeCorrect == Spec => []TypeOK
<1>1. IInv => TypeOK
  BY DEF IInv
<1> QED
  BY IInvHolds, <1>1, PTL

(* For a file of any length, blocks nest: the stack is a path of the tree, *)
(* and block_depth its height, also after an unmatched "}"                 *)
(* (config_parser.cc:246-284).                                             *)
THEOREM StackIsPathHolds == Spec => []StackIsPath
<1>1. IInv => StackIsPath
  BY DEF IInv, StackIsPath
<1> QED
  BY IInvHolds, <1>1, PTL

(* For a file of any length, ParseConfig's uses of children_.back() find   *)
(* the statement they are meant for (config_parser.cc:253, 269).           *)
THEOREM BackIsNewestHolds == Spec => []BackIsNewest
<1>1. IInv => BackIsNewest
  BY BackIsLast DEF IInv, NewestIsOpen, BackIsNewest
<1> QED
  BY IInvHolds, <1>1, PTL

(* For a file of any length, no statement is without its first token, so   *)
(* that find and findAll are safe (config_parser.cc:88-120).               *)
THEOREM StatementsHaveTokensHolds == Spec => []StatementsHaveTokens
<1>1. IInv => StatementsHaveTokens
  BY DEF IInv
<1> QED
  BY IInvHolds, <1>1, PTL

-----------------------------------------------------------------------------
(* Sums over the nodes.  Induction is by the least counterexample.         *)
LEMMA LeastNumber ==
  ASSUME NEW S, S \subseteq Nat, S # {}
  PROVE  \E n \in S : \A m \in S : n <= m
<1> DEFINE less == {p \in Nat \X Nat : p[1] < p[2]}
<1>1. IsWellFoundedOn(less, Nat)
  BY NatLessThanWellFounded DEF OpToRel
<1>2. \A x, y \in Nat : <<x, y>> \in less <=> x < y
  OBVIOUS
<1> HIDE DEF less
<1>3. \E x \in S : \A y \in S : <<y, x>> \notin less
  BY <1>1, WFMin
<1>4. \A x, y \in Nat : x <= y \/ y < x
  OBVIOUS
<1> QED
  BY <1>2, <1>3, <1>4

\* f is the function by which TokensInTree adds up, for the first m of s.
IsSum(f, s, m) == f = [n \in 0..m |-> IF n = 0 THEN 0 ELSE s[n].tokens + f[n - 1]]

LEMMA SumExists ==
  ASSUME NEW s, NEW k \in Nat
  PROVE  \E f : IsSum(f, s, k)
<1> DEFINE Bad == {m \in Nat : ~\E f : IsSum(f, s, m)}
<1> SUFFICES ASSUME Bad # {}
             PROVE  FALSE
  OBVIOUS
<1>1. PICK m \in Bad : \A l \in Bad : m <= l
  <2> HIDE DEF Bad
  <2>1. Bad \subseteq Nat
    BY DEF Bad
  <2> QED
    BY <2>1, LeastNumber
<1>2. CASE m = 0
  <2> DEFINE f == [n \in 0..0 |-> 0]
  <2>1. \A n \in 0..0 : 0 = IF n = 0 THEN 0 ELSE s[n].tokens + f[n - 1]
    OBVIOUS
  <2> HIDE DEF f
  <2>2. f = [n \in 0..0 |-> IF n = 0 THEN 0 ELSE s[n].tokens + f[n - 1]]
    BY <2>1 DEF f
  <2> QED
    BY <1>1, <1>2, <2>2 DEF IsSum
<1>3. CASE m # 0
  <2>1. m \in Nat /\ m - 1 \in Nat /\ m - 1 \notin Bad
    BY <1>1, <1>3
  <2>2. PICK g : IsSum(g, s, m - 1)
    BY <2>1
  <2> DEFINE f == [n \in 0..m |-> IF n = m THEN s[m].tokens + g[m - 1] ELSE g[n]]
  <2>3. \A n \in 0..(m - 1) : g[n] = IF n = 0 THEN 0 ELSE s[n].tokens + g[n - 1]
    BY <2>2 DEF IsSum
  <2>4. ASSUME NEW n \in 0..m
        PROVE  f[n] = IF n = 0 THEN 0 ELSE s[n].tokens + f[n - 1]
    <3>1. CASE n = m
      BY <1>3, <2>1, <3>1
    <3>2. CASE n \in 0..(m - 1)
      BY <2>1, <2>3, <3>2
    <3> QED
      BY <2>1, <3>1, <3>2
  <2>5. f = [n \in 0..m |-> f[n]]
    OBVIOUS
  <2> HIDE DEF f
  <2>6. f = [n \in 0..m |-> IF n = 0 THEN 0 ELSE s[n].tokens + f[n - 1]]
    BY <2>4, <2>5
  <2> QED
    BY <1>1, <2>6 DEF IsSum
<1> QED
  BY <1>2, <1>3

SameTerms(s, t, m) == \A i \in 1..m : s[i].tokens = t[i].tokens

LEMMA SumsAgree ==
  ASSUME NEW s, NEW t, NEW k \in Nat, NEW l \in Nat, NEW f, NEW g,
         IsSum(f, s, k), IsSum(g, t, l),
         NEW m \in 0..k, m \in 0..l, SameTerms(s, t, m)
  PROVE  f[m] = g[m]
<1> DEFINE Bad == {n \in 0..m : f[n] # g[n]}
<1> SUFFICES ASSUME Bad # {}
             PROVE  FALSE
  OBVIOUS
<1>1. PICK n \in Bad : \A i \in Bad : n <= i
  <2>1. Bad \subseteq Nat
    OBVIOUS
  <2> HIDE DEF Bad
  <2> QED
    BY <2>1, LeastNumber
<1>2. /\ f[n] = IF n = 0 THEN 0 ELSE s[n].tokens + f[n - 1]
      /\ g[n] = IF n = 0 THEN 0 ELSE t[n].tokens + g[n - 1]
  BY DEF IsSum
<1>3. n # 0
  BY <1>1, <1>2
<1>4. n - 1 \in 0..m /\ n - 1 \notin Bad /\ n \in 1..m
  BY <1>1, <1>3
<1> QED
  BY <1>1, <1>2, <1>3, <1>4 DEF SameTerms

SumTo(s, k) == (CHOOSE f : IsSum(f, s, k))[k]

LEMMA SumToIsSum ==
  ASSUME NEW s, NEW k \in Nat
  PROVE  \E f : IsSum(f, s, k) /\ SumTo(s, k) = f[k]
BY SumExists DEF SumTo

LEMMA TreeIsSum == TokensInTree = SumTo(nodes, Len(nodes))
  BY DEF TokensInTree, SumTo, IsSum

LEMMA TreeIsSumNext == TokensInTree' = SumTo(nodes', Len(nodes'))
  BY DEF TokensInTree, SumTo, IsSum

LEMMA EmptySum == ASSUME NEW s PROVE SumTo(s, 0) = 0
<1>1. PICK f : IsSum(f, s, 0) /\ SumTo(s, 0) = f[0]
  BY SumToIsSum
<1> QED
  BY <1>1 DEF IsSum

LEMMA SumType ==
  ASSUME NEW s, NEW k \in Nat, NEW f, IsSum(f, s, k), \A i \in 1..k : s[i].tokens \in Nat,
         NEW m \in 0..k
  PROVE  f[m] \in Nat
<1> DEFINE Bad == {n \in 0..k : f[n] \notin Nat}
<1> SUFFICES ASSUME Bad # {}
             PROVE  FALSE
  OBVIOUS
<1>1. PICK n \in Bad : \A i \in Bad : n <= i
  <2>1. Bad \subseteq Nat
    OBVIOUS
  <2> HIDE DEF Bad
  <2> QED
    BY <2>1, LeastNumber
<1>2. f[n] = IF n = 0 THEN 0 ELSE s[n].tokens + f[n - 1]
  BY DEF IsSum
<1>3. n # 0
  BY <1>1, <1>2
<1>4. n - 1 \in 0..k /\ n - 1 \notin Bad /\ n \in 1..k
  BY <1>1, <1>3
<1>5. f[n - 1] \in Nat /\ s[n].tokens \in Nat
  BY <1>4
<1> QED
  BY <1>1, <1>2, <1>3, <1>5

LEMMA SumSplits ==
  ASSUME NEW s, NEW t, NEW m \in Nat, NEW l \in Nat, NEW k \in Nat, k = m + 1, l = m \/ l = k,
         \A i \in 1..l : s[i].tokens \in Nat,
         SameTerms(s, t, m)
  PROVE  \E sum \in Nat : /\ SumTo(s, l) = IF l = m THEN sum ELSE s[k].tokens + sum
                          /\ SumTo(t, k) = t[k].tokens + sum
<1>1. PICK f : IsSum(f, s, l) /\ SumTo(s, l) = f[l]
  BY SumToIsSum
<1>2. PICK g : IsSum(g, t, k) /\ SumTo(t, k) = g[k]
  BY SumToIsSum
<1>3. m \in 0..l /\ m \in 0..k /\ k # 0 /\ k - 1 = m
  OBVIOUS
<1>4. f[m] = g[m]
  BY <1>1, <1>2, <1>3, SumsAgree
<1>5. f[m] \in Nat
  BY <1>1, <1>3, SumType
<1>6. g[k] = t[k].tokens + g[m]
  BY <1>2, <1>3 DEF IsSum
<1>7. f[l] = IF l = m THEN f[m] ELSE s[k].tokens + f[m]
  BY <1>1, <1>3 DEF IsSum
<1> QED
  BY <1>1, <1>2, <1>4, <1>5, <1>6, <1>7

(* A term of 1 more, and a last term that is 1 more.                       *)
LEMMA SumAppends ==
  ASSUME NEW s, NEW t, NEW m \in Nat, NEW k \in Nat, k = m + 1,
         \A i \in 1..m : s[i].tokens \in Nat,
         SameTerms(s, t, m), t[k].tokens = 1
  PROVE  SumTo(t, k) = SumTo(s, m) + 1
<1>1. PICK sum \in Nat : SumTo(s, m) = sum /\ SumTo(t, k) = t[k].tokens + sum
  BY SumSplits
<1> QED
  BY <1>1

LEMMA SumBumps ==
  ASSUME NEW s, NEW t, NEW m \in Nat, NEW k \in Nat, k = m + 1,
         \A i \in 1..k : s[i].tokens \in Nat,
         SameTerms(s, t, m), t[k].tokens = s[k].tokens + 1
  PROVE  SumTo(t, k) = SumTo(s, k) + 1
<1>1. k # m
  OBVIOUS
<1>2. PICK sum \in Nat : /\ SumTo(s, k) = s[k].tokens + sum
                         /\ SumTo(t, k) = t[k].tokens + sum
  BY <1>1, SumSplits
<1>3. s[k].tokens \in Nat
  OBVIOUS
<1> QED
  BY <1>2, <1>3

-----------------------------------------------------------------------------
(* TreeKeepsWords at every moment: what has begun is in the tree, or still *)
(* in the scanner.                                                         *)
InScanner == IF scan \in {"single", "double", "word"} THEN 1 ELSE 0

KeepsWords == /\ verdict \in {"reading", "accepted"} => TokensInTree = begun - InScanner
              /\ verdict = "accepted" => scan \notin {"single", "double"}

LEMMA KeepsInit == Init => KeepsWords
<1> SUFFICES ASSUME Init
             PROVE  KeepsWords
  OBVIOUS
<1>1. nodes = <<>> /\ Len(nodes) = 0
  BY DEF Init
<1> QED
  BY <1>1, TreeIsSum, EmptySum DEF Init, KeepsWords, InScanner

LEMMA WordAddsOne ==
  ASSUME IInv, Word, stack # <<>>
  PROVE  TokensInTree' = TokensInTree + 1
<1>0. nodes \in Seq(Node) /\ Len(nodes) \in Nat
  BY DEF IInv, TypeOK, Node
<1>1. \A i \in 1..Len(nodes) : nodes[i].tokens \in Nat
  <2>1. \A i \in 1..Len(nodes) : nodes[i] \in Node
    BY <1>0
  <2> QED
    BY <2>1 DEF Node
<1>2. CASE last = "NORMAL"
  <2>1. nodes # <<>> /\ Back = Len(nodes)
    BY <1>2, BackIsLast DEF IInv, NewestIsOpen
  <2> DEFINE k == Len(nodes)
  <2>2. nodes' = [nodes EXCEPT ![k].tokens = @ + 1]
    BY <1>2, <2>1 DEF Word
  <2>3. k \in 1..Len(nodes) /\ k - 1 \in Nat /\ k = k - 1 + 1 /\ nodes[k] \in Node
    BY <1>0, <2>1
  <2>4. Len(nodes') = k
    BY <1>0, <2>2, <2>3
  <2>5. /\ \A i \in 1..(k - 1) : nodes'[i] = nodes[i]
        /\ nodes'[k].tokens = nodes[k].tokens + 1
    BY <1>0, <2>2, <2>3 DEF Node
  <2> DEFINE m == k - 1
  <2>6. m \in Nat /\ k = m + 1
    BY <2>3
  <2>7. \A i \in 1..k : nodes[i].tokens \in Nat
    BY <1>1
  <2>8. SameTerms(nodes, nodes', m)
    BY <2>5 DEF SameTerms
  <2> HIDE DEF k, m
  <2>9. SumTo(nodes', k) = SumTo(nodes, k) + 1
    BY <2>5, <2>6, <2>7, <2>8, SumBumps
  <2> QED
    BY <2>4, <2>9, TreeIsSum, TreeIsSumNext DEF k
<1>3. CASE last # "NORMAL"
  <2> DEFINE k == Len(nodes) + 1
             n == [parent |-> Top, tokens |-> 1]
  <2>1. nodes' = Append(nodes, n)
    BY <1>3 DEF Word
  <2>2. /\ Len(nodes') = k /\ nodes'[k] = n
        /\ \A i \in 1..Len(nodes) : nodes'[i] = nodes[i]
    BY <1>0, <2>1
  <2>3. /\ nodes'[k].tokens = 1
        /\ \A i \in 1..Len(nodes) : nodes[i].tokens = nodes'[i].tokens
    BY <2>2
  <2> DEFINE m == Len(nodes)
  <2>4. m \in Nat /\ k \in Nat /\ k = m + 1
    BY <1>0
  <2>5. /\ SameTerms(nodes, nodes', m)
        /\ \A i \in 1..m : nodes[i].tokens \in Nat
        /\ nodes'[k].tokens = 1
    BY <1>1, <2>3 DEF SameTerms
  <2> HIDE DEF k, n, m
  <2>6. SumTo(nodes', k) = SumTo(nodes, m) + 1
    BY <2>4, <2>5, SumAppends
  <2> QED
    BY <2>2, <2>6, TreeIsSum, TreeIsSumNext DEF m
<1> QED
  BY <1>2, <1>3

LEMMA OtherTokensAddNone ==
  ASSUME NEW token \in {"STATEMENT_END", "START_BLOCK", "END_BLOCK", "COMMENT", "EOF", "ERROR"},
         Consume(token)
  PROVE  TokensInTree' = TokensInTree
<1>1. nodes' = nodes
  BY DEF Consume, StatementEnd, StartBlock, EndBlock, EndOfConfig, Reject, Undefined
<1> QED
  BY <1>1, TreeIsSum, TreeIsSumNext

LEMMA KeepsNext == IInv /\ KeepsWords /\ [Next]_vars => KeepsWords'
<1> SUFFICES ASSUME IInv, KeepsWords, [Next]_vars
             PROVE  KeepsWords'
  OBVIOUS
<1>0. TypeOK
  BY DEF IInv
<1>1. ASSUME NEW c \in Chars, Scan(c)
      PROVE  KeepsWords'
  <2>1. verdict = "reading" /\ verdict' = verdict /\ nodes' = nodes
    BY <1>1 DEF Scan, Read
  <2>2. TokensInTree' = TokensInTree
    BY <2>1, TreeIsSum, TreeIsSumNext
  <2>3. begun' - InScanner' = begun - InScanner
    BY <1>0, <1>1 DEF Scan, InScanner, Starts, TypeOK
  <2> QED
    BY <2>1, <2>2, <2>3 DEF KeepsWords
<1>2. ASSUME NEW c \in Chars, ParseToken(c)
      PROVE  KeepsWords'
  <2>1. verdict = "reading" /\ scan' = "initial" /\ begun' = begun /\ begun \in Nat
    BY <1>0, <1>2 DEF ParseToken, Read, TypeOK
  <2>2. CASE TokenAt(c) = "NORMAL"
    <3>1. InScanner = 1 /\ InScanner' = 0
      BY <2>1, <2>2 DEF TokenAt, Punctuation, NoChar, InScanner
    <3>2. Word
      BY <1>2, <2>2 DEF ParseToken, Consume
    <3>3. CASE stack = <<>>
      BY <3>2, <3>3 DEF Word, Undefined, KeepsWords
    <3>4. CASE stack # <<>>
      <4>1. TokensInTree' = TokensInTree + 1 /\ verdict' = verdict
        BY <3>2, <3>4, WordAddsOne DEF Word
      <4> QED
        BY <2>1, <3>1, <4>1 DEF KeepsWords
    <3> QED
      BY <3>3, <3>4
  <2>3. CASE TokenAt(c) # "NORMAL"
    <3>1. /\ TokenAt(c) \in {"STATEMENT_END", "START_BLOCK", "END_BLOCK", "COMMENT"}
          /\ scan \in {"initial", "comment"}
      BY <1>2, <2>3 DEF ParseToken, TokenAt, Punctuation, NoChar
    <3>2. InScanner = 0 /\ InScanner' = 0
      BY <2>1, <3>1 DEF InScanner
    <3>3. TokensInTree' = TokensInTree
      BY <1>2, <3>1, OtherTokensAddNone DEF ParseToken
    <3> QED
      BY <2>1, <3>2, <3>3 DEF KeepsWords
  <2> QED
    BY <2>2, <2>3
<1>3. CASE EndOfFile
  <2>1. verdict = "reading" /\ UNCHANGED <<scan, begun>>
    BY <1>3 DEF EndOfFile
  <2>2. TokensInTree' = TokensInTree
    BY <1>3, OtherTokensAddNone DEF EndOfFile, TokenAtEnd
  <2>3. verdict' = "accepted" => scan' \notin {"single", "double"}
    BY <1>3, <2>1 DEF EndOfFile, TokenAtEnd, Consume, Reject
  <2> QED
    BY <2>1, <2>2, <2>3 DEF KeepsWords, InScanner
<1>4. CASE UNCHANGED vars
  BY <1>4, TreeIsSum, TreeIsSumNext DEF vars, KeepsWords, InScanner
<1> QED
  BY <1>1, <1>2, <1>3, <1>4 DEF Next

(* For a file of any length, the tree of an accepted file has every word   *)
(* and quoted string that was begun, but for a word that the end of the    *)
(* file cuts off (config_parser.cc:118-215, 246-261).                      *)
THEOREM TreeKeepsWordsHolds == Spec => []TreeKeepsWords
<1>1. KeepsWords => TreeKeepsWords
  BY DEF KeepsWords, TreeKeepsWords, InScanner
<1>2. Spec => []KeepsWords
  BY IInvHolds, KeepsInit, KeepsNext, PTL DEF Spec
<1> QED
  BY <1>1, <1>2, PTL
=============================================================================
