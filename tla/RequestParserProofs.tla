------------------------- MODULE RequestParserProofs -------------------------
(***************************************************************************)
(* Theorems about RequestParser, for any number of threads and of parses   *)
(* and for every request.                                                  *)
(***************************************************************************)
EXTENDS RequestParser, SequenceTheorems, TLAPS

(* Two threads that split a line at the same time have crossed.            *)
OverlapIsCrossed == \A t, o \in Threads :
  t # o /\ Splitting(t) /\ Splitting(o) => id[t] \in crossed

(* The words so far are the first ones of the thread's own line.           *)
OwnSoFar(t) == /\ Len(words[t]) <= req[t].fields
               /\ \A k \in 1..Len(words[t]) : words[t][k] = <<id[t], k>>

\* Where the next word of the line begins.
Place(t) == [parse |-> id[t], word |-> Len(words[t]) + 1]

(* Where an uncrossed parse is, and what it has found by then.             *)
UncrossedParse(t) ==
  /\ pc[t] = "first" => words[t] = <<>>
  /\ pc[t] \in {"again", "loaded"} => OwnSoFar(t) /\ cursor = Place(t)
  /\ pc[t] = "loaded" => loaded[t] = Place(t)
  /\ pc[t] = "split" => OwnSoFar(t) /\ Len(words[t]) = 3 /\ req[t].fields = 3

Verdict(t) ==
  outcome[t] # "none" =>
    /\ outcome[t] = "request" => words[t] = OwnWords(t) /\ req[t].head
    /\ req[t].line /\ req[t].fields = 3 /\ req[t].head /\ req[t].headers = <<>>
         => outcome[t] = "request"

IInv == /\ TypeOK
        /\ OverlapIsCrossed
        /\ \A t \in Threads : pc[t] # "idle" => outcome[t] = "none"
        /\ \A t \in Threads : id[t] \notin crossed => UncrossedParse(t) /\ Verdict(t)

LEMMA RequestFields ==
  ASSUME NEW r \in Requests
  PROVE  r.fields \in Nat /\ r.line \in BOOLEAN /\ r.head \in BOOLEAN
BY RequestsAssumption DEF RequestType

LEMMA HeadersOutcomeType ==
  ASSUME NEW hs
  PROVE  /\ HeadersOutcome(hs) \in {"request", "null", "throw"}
         /\ hs = <<>> => HeadersOutcome(hs) = "request"
BY DEF HeadersOutcome

LEMMA IInit == Init => IInv
<1> SUFFICES ASSUME Init
             PROVE  IInv
  OBVIOUS
<1>1. TypeOK
  BY DEF Init, TypeOK, Nowhere, Pointer
<1>2. OverlapIsCrossed
  BY DEF Init, OverlapIsCrossed, Splitting
<1>3. \A t \in Threads : UncrossedParse(t) /\ Verdict(t) /\ outcome[t] = "none"
  BY DEF Init, UncrossedParse, Verdict
<1> QED
  BY <1>1, <1>2, <1>3 DEF IInv

-----------------------------------------------------------------------------
LEMMA FoundType ==
  ASSUME TypeOK, NEW t \in Threads, NEW p \in Pointer, Found(t, p)
  PROVE  /\ words' \in [Threads -> Seq(Nat \X Nat)]
         /\ cursor' \in Pointer
         /\ pc' \in [Threads -> {"idle", "first", "again", "loaded", "split"}]
         /\ outcome' = outcome
<1>1. Append(words[t], <<p.parse, p.word>>) \in Seq(Nat \X Nat)
  BY DEF TypeOK, Pointer
<1>2. cursor' \in Pointer
  BY DEF Found, Pointer
<1> QED
  BY <1>1, <1>2 DEF Found, TypeOK

LEMMA NotFoundType ==
  ASSUME TypeOK, NEW t \in Threads, NEW p \in Pointer, NotFound(t, p)
  PROVE  /\ words' = words
         /\ cursor' \in Pointer
         /\ pc' \in [Threads -> {"idle", "first", "again", "loaded", "split"}]
         /\ outcome' \in [Threads -> {"none", "request", "null", "throw"}]
BY DEF NotFound, AfterLine, Return, TypeOK

LEMMA TypeNext == TypeOK /\ [Next]_vars => TypeOK'
<1> SUFFICES ASSUME TypeOK, [Next]_vars
             PROVE  TypeOK'
  OBVIOUS
<1>1. ASSUME NEW t \in Threads, NEW r \in Requests, Begin(t, r)
      PROVE  TypeOK'
  <2> DEFINE ids == {id[o] : o \in {x \in Threads : Splitting(x)}}
  <2>0. crossed' \in {crossed, crossed \cup (ids \cup {made + 1})}
    BY <1>1 DEF Begin
  <2>1. made + 1 \in Nat /\ crossed' \subseteq Nat
    <3>1. ids \subseteq Nat /\ made + 1 \in Nat /\ crossed \subseteq Nat
      BY DEF TypeOK
    <3> HIDE DEF ids
    <3> QED
      BY <2>0, <3>1
  <2>2. <<>> \in Seq(Nat \X Nat)
    OBVIOUS
  <2>3. /\ pc' \in [Threads -> {"idle", "first", "again", "loaded", "split"}]
        /\ outcome' \in [Threads -> {"none", "request", "null", "throw"}]
    BY <1>1 DEF Begin, Return, TypeOK
  <2>4. /\ made' = made + 1 /\ id' = [id EXCEPT ![t] = made + 1]
        /\ req' = [req EXCEPT ![t] = r] /\ words' = [words EXCEPT ![t] = <<>>]
        /\ UNCHANGED <<loaded, cursor>>
    BY <1>1 DEF Begin
  <2> QED
    BY <2>1, <2>2, <2>3, <2>4 DEF TypeOK
<1>2. ASSUME NEW t \in Threads, FirstWord(t)
      PROVE  TypeOK'
  <2> DEFINE p == [parse |-> id[t], word |-> 1]
  <2>1. p \in Pointer
    BY DEF TypeOK, Pointer
  <2>2. Found(t, p) \/ NotFound(t, p)
    BY <1>2 DEF FirstWord
  <2>3. UNCHANGED <<id, req, loaded, made, crossed>>
    BY <1>2 DEF FirstWord
  <2> HIDE DEF p
  <2> QED
    BY <2>1, <2>2, <2>3, FoundType, NotFoundType DEF TypeOK
<1>3. ASSUME NEW t \in Threads, LoadCursor(t)
      PROVE  TypeOK'
  BY <1>3 DEF LoadCursor, TypeOK
<1>4. ASSUME NEW t \in Threads, NextWord(t)
      PROVE  TypeOK'
  <2> DEFINE p == loaded[t]
  <2>1. p \in Pointer
    BY DEF TypeOK
  <2>2. \/ Found(t, p) \/ NotFound(t, p)
        \/ /\ words' = [words EXCEPT ![t] = Append(@, Garbage)]
           /\ pc' = [pc EXCEPT ![t] = "again"]
           /\ UNCHANGED <<cursor, outcome>>
    BY <1>4 DEF NextWord
  <2>3. UNCHANGED <<id, req, loaded, made, crossed>>
    BY <1>4 DEF NextWord
  <2>4. Append(words[t], Garbage) \in Seq(Nat \X Nat)
    BY DEF TypeOK, Garbage
  <2> HIDE DEF p
  <2> QED
    BY <2>1, <2>2, <2>3, <2>4, FoundType, NotFoundType DEF TypeOK
<1>5. ASSUME NEW t \in Threads, Finish(t)
      PROVE  TypeOK'
  BY <1>5, HeadersOutcomeType DEF Finish, Return, TypeOK
<1>6. CASE UNCHANGED vars
  BY <1>6 DEF vars, TypeOK
<1> QED
  BY <1>1, <1>2, <1>3, <1>4, <1>5, <1>6 DEF Next
-----------------------------------------------------------------------------
(* Whoever begins to split a line while another does crosses with it.      *)
LEMMA OverlapNext == IInv /\ [Next]_vars => OverlapIsCrossed'
<1> SUFFICES ASSUME IInv, [Next]_vars
             PROVE  OverlapIsCrossed'
  OBVIOUS
<1>0. TypeOK /\ OverlapIsCrossed
  BY DEF IInv
<1> USE <1>0 DEF TypeOK
<1>1. ASSUME NEW t \in Threads, NEW r \in Requests, Begin(t, r)
      PROVE  OverlapIsCrossed'
  <2>1. CASE ~r.line
    <3>1. \A o \in Threads : Splitting(o)' => Splitting(o) /\ id'[o] = id[o] /\ o # t
      BY <1>1, <2>1 DEF Begin, Return, Splitting
    <3> QED
      BY <1>1, <2>1, <3>1 DEF Begin, OverlapIsCrossed
  <2>2. CASE r.line
    <3>1. ~Splitting(t)
      BY <1>1 DEF Begin, Splitting
    <3>2. \A o \in Threads \ {t} : (Splitting(o)' <=> Splitting(o)) /\ id'[o] = id[o]
      BY <1>1, <2>2 DEF Begin, Splitting
    <3>3. id'[t] = made + 1
      BY <1>1 DEF Begin
    <3>4. \A o \in Threads : Splitting(o) => id[o] \in crossed' /\ made + 1 \in crossed'
      BY <1>1, <2>2 DEF Begin
    <3> QED
      BY <3>1, <3>2, <3>3, <3>4 DEF OverlapIsCrossed
  <2> QED
    BY <2>1, <2>2
<1>2. ASSUME NEW t \in Threads, Splitting(t), UNCHANGED <<id, crossed>>,
             \A o \in Threads \ {t} : pc'[o] = pc[o]
      PROVE  OverlapIsCrossed'
  BY <1>2 DEF OverlapIsCrossed, Splitting
<1>3. ASSUME NEW t \in Threads, FirstWord(t) \/ LoadCursor(t) \/ NextWord(t)
      PROVE  OverlapIsCrossed'
  <2>1. Splitting(t) /\ UNCHANGED <<id, crossed>>
    BY <1>3 DEF FirstWord, LoadCursor, NextWord, Splitting
  <2>2. \A o \in Threads \ {t} : pc'[o] = pc[o]
    BY <1>3 DEF FirstWord, LoadCursor, NextWord, Found, NotFound, AfterLine, Return
  <2> QED
    BY <1>2, <2>1, <2>2
<1>4. ASSUME NEW t \in Threads, Finish(t)
      PROVE  OverlapIsCrossed'
  BY <1>4 DEF Finish, Return, OverlapIsCrossed, Splitting
<1>5. CASE UNCHANGED vars
  BY <1>5 DEF vars, OverlapIsCrossed, Splitting
<1> QED
  BY <1>1, <1>3, <1>4, <1>5 DEF Next

LEMMA OutcomeNext ==
  IInv /\ [Next]_vars => (\A t \in Threads : pc[t] # "idle" => outcome[t] = "none")'
<1> SUFFICES ASSUME IInv, [Next]_vars
             PROVE  (\A t \in Threads : pc[t] # "idle" => outcome[t] = "none")'
  OBVIOUS
<1>0. TypeOK /\ \A t \in Threads : pc[t] # "idle" => outcome[t] = "none"
  BY DEF IInv
<1> USE <1>0 DEF TypeOK
<1>1. ASSUME NEW t \in Threads, \E r \in Requests : Begin(t, r)
      PROVE  \A o \in Threads : pc'[o] # "idle" => outcome'[o] = "none"
  BY <1>1 DEF Begin, Return
<1>2. ASSUME NEW t \in Threads, FirstWord(t) \/ NextWord(t)
      PROVE  \A o \in Threads : pc'[o] # "idle" => outcome'[o] = "none"
  BY <1>2 DEF FirstWord, NextWord, Found, NotFound, AfterLine, Return
<1>3. ASSUME NEW t \in Threads, LoadCursor(t) \/ Finish(t)
      PROVE  \A o \in Threads : pc'[o] # "idle" => outcome'[o] = "none"
  BY <1>3 DEF LoadCursor, Finish, Return
<1>4. CASE UNCHANGED vars
  BY <1>4 DEF vars
<1> QED
  BY <1>1, <1>2, <1>3, <1>4 DEF Next

-----------------------------------------------------------------------------
(* A thread whose own variables stay, and whose parse is uncrossed while   *)
(* another thread steps, keeps what is known of it.                        *)
LEMMA OthersKeep ==
  ASSUME IInv, [Next]_vars, NEW t \in Threads, NEW o \in Threads \ {t},
         UNCHANGED <<pc[o], id[o], req[o], words[o], loaded[o], outcome[o]>>,
         crossed \subseteq crossed', id[o] \notin crossed',
         cursor' # cursor => Splitting(t)
  PROVE  UncrossedParse(o)' /\ Verdict(o)'
<1>1. UncrossedParse(o) /\ Verdict(o)
  BY DEF IInv
<1>2. pc[o] \in {"again", "loaded"} => cursor' = cursor
  BY DEF IInv, OverlapIsCrossed, Splitting
<1>3. OwnSoFar(o)' = OwnSoFar(o) /\ Place(o)' = Place(o) /\ OwnWords(o)' = OwnWords(o)
  BY DEF OwnSoFar, Place, OwnWords
<1>4. Verdict(o)'
  BY <1>1, <1>3 DEF Verdict
<1> QED
  BY <1>1, <1>2, <1>3, <1>4 DEF UncrossedParse

(* One more word of the line.                                              *)
LEMMA FoundOwn ==
  ASSUME TypeOK, NEW t \in Threads, OwnSoFar(t), Len(words[t]) + 1 <= req[t].fields,
         Found(t, Place(t)), UNCHANGED <<id, req>>
  PROVE  OwnSoFar(t)' /\ cursor' = Place(t)' /\ pc'[t] = "again"
<1> DEFINE n == Len(words[t])
           w == <<id[t], n + 1>>
<1>1. words[t] \in Seq(Nat \X Nat) /\ n \in Nat /\ w \in Nat \X Nat
  BY DEF TypeOK
<1>0. \A k \in 1..n : words[t][k] = <<id[t], k>>
  BY DEF OwnSoFar
<1>2. words'[t] = Append(words[t], w)
  BY DEF Found, TypeOK, Place
<1>3. Len(words'[t]) = n + 1
  BY <1>1, <1>2
<1>4. \A k \in 1..(n + 1) : words'[t][k] = IF k <= n THEN words[t][k] ELSE w
  BY <1>1, <1>2
<1>5. \A k \in 1..(n + 1) : words'[t][k] = <<id[t], k>>
  <2> TAKE k \in 1..(n + 1)
  <2>1. CASE k \in 1..n
    <3>1. words'[t][k] = words[t][k]
      BY <1>1, <1>4, <2>1
    <3> QED
      BY <1>0, <2>1, <3>1
  <2>2. CASE k = n + 1
    BY <1>1, <1>4, <2>2
  <2> QED
    BY <1>1, <2>1, <2>2
<1>6. OwnSoFar(t)'
  BY <1>3, <1>5 DEF OwnSoFar
<1>7. cursor' = [parse |-> id[t], word |-> n + 1 + 1]
  BY DEF Found, Place
<1>8. Place(t)' = [parse |-> id[t], word |-> n + 1 + 1]
  BY <1>3 DEF Place
<1> QED
  BY <1>6, <1>7, <1>8 DEF Found, TypeOK

(* The end of the line: three words pass, another number is rejected.      *)
LEMMA NotFoundOwn ==
  ASSUME TypeOK, NEW t \in Threads, OwnSoFar(t), Len(words[t]) >= req[t].fields,
         req[t].fields \in Nat, outcome[t] = "none",
         NEW p, NotFound(t, p), UNCHANGED <<id, req>>
  PROVE  UncrossedParse(t)' /\ Verdict(t)'
<1>1. Len(words[t]) = req[t].fields /\ words' = words
  BY DEF OwnSoFar, NotFound, TypeOK
<1>2. CASE req[t].fields = 3
  <2>1. pc'[t] = "split" /\ outcome'[t] = "none"
    BY <1>1, <1>2 DEF NotFound, AfterLine, TypeOK
  <2> QED
    BY <1>1, <1>2, <2>1 DEF UncrossedParse, Verdict, OwnSoFar
<1>3. CASE req[t].fields # 3
  <2>1. pc'[t] = "idle" /\ outcome'[t] = "null"
    BY <1>1, <1>3 DEF NotFound, AfterLine, Return, TypeOK
  <2> QED
    BY <1>3, <2>1 DEF UncrossedParse, Verdict
<1> QED
  BY <1>2, <1>3

(* Where an uncrossed parse looks is its own line.                         *)
LEMMA OwnLine ==
  ASSUME IInv, NEW t \in Threads, Splitting(t), id[t] \notin crossed,
         NEW p, p.parse = id[t]
  PROVE  Alive(p) /\ Fields(p) = req[t].fields
<1>1. \A o \in Threads : Splitting(o) /\ id[o] = p.parse => o = t
  BY DEF IInv, OverlapIsCrossed
<1>2. (CHOOSE o \in Threads : Splitting(o) /\ id[o] = p.parse) = t
  BY <1>1
<1> QED
  BY <1>2 DEF Alive, Fields

LEMMA ThreeOwnWords ==
  ASSUME TypeOK, NEW t \in Threads, OwnSoFar(t), Len(words[t]) = 3
  PROVE  words[t] = OwnWords(t)
<1>1. words[t] \in Seq(Nat \X Nat)
  BY DEF TypeOK
<1>2. /\ words[t][1] = <<id[t], 1>>
      /\ words[t][2] = <<id[t], 2>>
      /\ words[t][3] = <<id[t], 3>>
  BY DEF OwnSoFar
<1> QED
  BY <1>1, <1>2 DEF OwnWords

-----------------------------------------------------------------------------
(* One step of the thread's own parse.                                     *)
LEMMA FirstWordOwn ==
  ASSUME IInv, NEW t \in Threads, id[t] \notin crossed, FirstWord(t)
  PROVE  UncrossedParse(t)' /\ Verdict(t)'
<1> DEFINE p == [parse |-> id[t], word |-> 1]
<1>1. TypeOK /\ outcome[t] = "none" /\ words[t] = <<>> /\ req[t] \in Requests
  BY DEF IInv, UncrossedParse, FirstWord, TypeOK
<1>2. OwnSoFar(t) /\ Place(t) = p /\ Len(words[t]) = 0
  BY <1>1, RequestFields DEF OwnSoFar, Place
<1>3. UNCHANGED <<id, req>>
  BY DEF FirstWord
<1>4. CASE req[t].fields >= 1
  <2>1. Found(t, Place(t))
    BY <1>2, <1>4 DEF FirstWord
  <2>2. OwnSoFar(t)' /\ cursor' = Place(t)' /\ pc'[t] = "again"
    BY <1>1, <1>2, <1>3, <1>4, <2>1, FoundOwn
  <2>3. outcome' = outcome
    BY <2>1 DEF Found
  <2> QED
    BY <1>1, <2>2, <2>3 DEF UncrossedParse, Verdict
<1>5. CASE ~(req[t].fields >= 1)
  <2>1. NotFound(t, p)
    BY <1>5 DEF FirstWord
  <2>2. Len(words[t]) >= req[t].fields
    BY <1>1, <1>2, <1>5, RequestFields
  <2> HIDE DEF p
  <2> QED
    BY <1>1, <1>2, <1>3, <2>1, <2>2, RequestFields, NotFoundOwn
<1> QED
  BY <1>4, <1>5

LEMMA NextWordOwn ==
  ASSUME IInv, NEW t \in Threads, id[t] \notin crossed, NextWord(t)
  PROVE  UncrossedParse(t)' /\ Verdict(t)'
<1> DEFINE p == Place(t)
<1>1. /\ TypeOK /\ outcome[t] = "none" /\ req[t] \in Requests
      /\ OwnSoFar(t) /\ loaded[t] = p /\ Splitting(t)
  BY DEF IInv, UncrossedParse, NextWord, TypeOK, Splitting
<1>2. p.parse = id[t] /\ p.word = Len(words[t]) + 1
  BY DEF Place
<1>3. Alive(p) /\ Fields(p) = req[t].fields
  BY <1>1, <1>2, OwnLine
<1>4. UNCHANGED <<id, req>>
  BY DEF NextWord
<1>5. Len(words[t]) \in Nat /\ req[t].fields \in Nat
  BY <1>1, RequestFields DEF TypeOK
<1>6. CASE p.word <= Fields(p)
  <2>1. Found(t, Place(t))
    BY <1>1, <1>3, <1>6 DEF NextWord
  <2>2. Len(words[t]) + 1 <= req[t].fields
    BY <1>2, <1>3, <1>6
  <2>3. OwnSoFar(t)' /\ cursor' = Place(t)' /\ pc'[t] = "again"
    BY <1>1, <1>4, <2>1, <2>2, FoundOwn
  <2>4. outcome' = outcome
    BY <2>1 DEF Found
  <2> QED
    BY <1>1, <2>3, <2>4 DEF UncrossedParse, Verdict
<1>7. CASE ~(p.word <= Fields(p))
  <2>1. NotFound(t, p)
    BY <1>1, <1>3, <1>7 DEF NextWord
  <2>2. Len(words[t]) >= req[t].fields
    BY <1>2, <1>3, <1>5, <1>7
  <2> HIDE DEF p
  <2> QED
    BY <1>1, <1>4, <1>5, <2>1, <2>2, NotFoundOwn
<1> QED
  BY <1>6, <1>7

LEMMA ParseNext ==
  ASSUME IInv, [Next]_vars, NEW o \in Threads, id'[o] \notin crossed'
  PROVE  UncrossedParse(o)' /\ Verdict(o)'
<1>0. TypeOK
  BY DEF IInv
<1> USE <1>0
<1>1. ASSUME NEW t \in Threads, NEW r \in Requests, Begin(t, r)
      PROVE  UncrossedParse(o)' /\ Verdict(o)'
  <2>1. CASE o = t
    <3>1. words'[t] = <<>> /\ req'[t] = r
      BY <1>1 DEF Begin, TypeOK
    <3>2. \/ r.line /\ pc'[t] = "first" /\ outcome'[t] = "none"
          \/ ~r.line /\ pc'[t] = "idle" /\ outcome'[t] = "null"
      BY <1>1 DEF Begin, Return, TypeOK
    <3> QED
      BY <2>1, <3>1, <3>2 DEF UncrossedParse, Verdict
  <2>2. CASE o # t
    <3>1. /\ UNCHANGED <<pc[o], id[o], req[o], words[o], loaded[o], outcome[o], cursor>>
          /\ crossed \subseteq crossed'
      BY <1>1, <2>2 DEF Begin, Return, TypeOK
    <3> QED
      BY <2>2, <3>1, OthersKeep
  <2> QED
    BY <2>1, <2>2
<1>2. ASSUME NEW t \in Threads, FirstWord(t) \/ LoadCursor(t) \/ NextWord(t) \/ Finish(t), o # t
      PROVE  UncrossedParse(o)' /\ Verdict(o)'
  <2>1. /\ UNCHANGED <<pc[o], id[o], req[o], words[o], loaded[o], outcome[o], crossed>>
        /\ cursor' # cursor => Splitting(t)
    BY <1>2 DEF FirstWord, LoadCursor, NextWord, Finish, Found, NotFound, AfterLine, Return,
                TypeOK, Splitting
  <2> QED
    BY <1>2, <2>1, OthersKeep
<1>3. ASSUME FirstWord(o) \/ NextWord(o)
      PROVE  UncrossedParse(o)' /\ Verdict(o)'
  <2>1. id[o] \notin crossed
    BY <1>3 DEF FirstWord, NextWord
  <2> QED
    BY <1>3, <2>1, FirstWordOwn, NextWordOwn
<1>4. ASSUME LoadCursor(o)
      PROVE  UncrossedParse(o)' /\ Verdict(o)'
  <2>1. id[o] \notin crossed /\ outcome'[o] = "none"
    BY <1>4 DEF LoadCursor, IInv
  <2>2. OwnSoFar(o) /\ cursor = Place(o)
    BY <1>4, <2>1 DEF LoadCursor, IInv, UncrossedParse
  <2>3. OwnSoFar(o)' /\ cursor' = Place(o)' /\ loaded'[o] = Place(o)' /\ pc'[o] = "loaded"
    BY <1>4, <2>2 DEF LoadCursor, OwnSoFar, Place, TypeOK
  <2> QED
    BY <2>1, <2>3 DEF UncrossedParse, Verdict
<1>5. ASSUME Finish(o)
      PROVE  UncrossedParse(o)' /\ Verdict(o)'
  <2>1. id[o] \notin crossed /\ UNCHANGED <<id, req, words>>
    BY <1>5 DEF Finish
  <2>2. OwnSoFar(o) /\ Len(words[o]) = 3
    BY <1>5, <2>1 DEF Finish, IInv, UncrossedParse
  <2>3. words'[o] = OwnWords(o)'
    BY <2>1, <2>2, ThreeOwnWords DEF OwnWords
  <2>4. pc'[o] = "idle" /\ outcome'[o] = IF req[o].head THEN HeadersOutcome(req[o].headers) ELSE "null"
    BY <1>5 DEF Finish, Return, TypeOK
  <2> QED
    BY <2>1, <2>3, <2>4, HeadersOutcomeType DEF UncrossedParse, Verdict
<1>6. CASE UNCHANGED vars
  BY <1>6 DEF vars, IInv, UncrossedParse, Verdict, OwnSoFar, Place, OwnWords
<1> QED
  BY <1>1, <1>2, <1>3, <1>4, <1>5, <1>6 DEF Next

LEMMA IInvHolds == Spec => []IInv
<1>1. IInv /\ [Next]_vars => IInv'
  <2> SUFFICES ASSUME IInv, [Next]_vars
               PROVE  IInv'
    OBVIOUS
  <2>1. TypeOK'
    BY TypeNext DEF IInv
  <2>2. \A t \in Threads : id'[t] \notin crossed' => UncrossedParse(t)' /\ Verdict(t)'
    BY ParseNext
  <2> QED
    BY <2>1, <2>2, OverlapNext, OutcomeNext DEF IInv
<1> QED
  BY IInit, <1>1, PTL DEF Spec

-----------------------------------------------------------------------------
(* The locals of each parse and strtok's pointer keep their type, however  *)
(* the parses overlap (httpRequest.cc:23-51).                              *)
THEOREM TypeCorrect == Spec => []TypeOK
<1>1. IInv => TypeOK
  BY DEF IInv
<1> QED
  BY IInvHolds, <1>1, PTL

(* For any number of threads and of words in a line, a parse that no other *)
(* crosses understands its own request and no other, whatever is in        *)
(* strtok's pointer when it begins (httpRequest.cc:23-51).                 *)
THEOREM UncrossedIsFaithfulHolds == Spec => []UncrossedIsFaithful
<1>1. IInv => UncrossedIsFaithful
  BY DEF IInv, UncrossedIsFaithful, Verdict
<1> QED
  BY IInvHolds, <1>1, PTL

(* For any number of threads, a parse that no other crosses never follows  *)
(* strtok's pointer out of its own line (httpRequest.cc:34-40).            *)
THEOREM UncrossedStaysInBufferHolds == Spec => []UncrossedStaysInBuffer
<1>1. IInv => UncrossedStaysInBuffer
  <2>1. \A t \in Threads : Place(t).parse = id[t]
    BY DEF Place
  <2> QED
    BY <2>1 DEF IInv, UncrossedStaysInBuffer, UncrossedParse
<1> QED
  BY IInvHolds, <1>1, PTL
=============================================================================
