--------------------------- MODULE RequestParser ---------------------------
(***************************************************************************)
(* Request::Parse (http/httpRequest.cc) as the threads of the server run   *)
(* it.  Its only shared state is inside strtok, which keeps the place to   *)
(* go on from in one static pointer of the C library; every thread that    *)
(* splits a request line reads and writes that pointer.                    *)
(*                                                                         *)
(* The request line of the parse with number p is a buffer whose words are *)
(* <<p, 1>>, <<p, 2>>, ...; the buffer is a local of processRequestLine    *)
(* and dies when that function returns.                                    *)
(***************************************************************************)
EXTENDS Naturals, Sequences

CONSTANTS Threads,    \* the threads that parse
          Requests,   \* the requests that arrive
          MaxParses   \* bound on the number of parses

\* Of a request the parser tells apart: whether there is a CRLF at all, how
\* many words the request line has, whether an empty line ends the head, and
\* of each header line whether it has no colon ("none"), ends with its colon
\* ("bare"), or has something behind it ("pair").
RequestType == [line : BOOLEAN, fields : Nat, head : BOOLEAN,
                headers : Seq({"none", "bare", "pair"})]

ASSUME RequestsAssumption == /\ Requests \subseteq RequestType
                             /\ MaxParses \in Nat

VARIABLES pc,       \* where each thread is in Parse
          id,       \* the number of the parse on each thread
          req,      \* the request it parses
          words,    \* request_fields
          loaded,   \* the pointer a strtok call has read
          cursor,   \* the static pointer of strtok
          outcome,  \* what Parse returned last: a request, null, or a throw
          made,     \* how many parses have begun
          crossed   \* ghost: the parses during which another thread split a line

vars == <<pc, id, req, words, loaded, cursor, outcome, made, crossed>>

Splitting(t) == pc[t] \in {"first", "again", "loaded"}

\* The buffer a pointer points into still exists.
Alive(pointer) == \E t \in Threads : Splitting(t) /\ id[t] = pointer.parse

Fields(pointer) == LET t == CHOOSE t \in Threads : Splitting(t) /\ id[t] = pointer.parse
                   IN  req[t].fields

Nowhere == [parse |-> 0, word |-> 1]

Garbage == <<0, 0>>

\* Beyond so many words a request line is rejected whatever follows.
MaxWords == 4

Init == /\ pc = [t \in Threads |-> "idle"]
        /\ id = [t \in Threads |-> 0]
        /\ req \in [Threads -> Requests]
        /\ words = [t \in Threads |-> <<>>]
        /\ loaded = [t \in Threads |-> Nowhere]
        /\ cursor = Nowhere
        /\ outcome = [t \in Threads |-> "none"]
        /\ made = 0
        /\ crossed = {}

Return(t, result) == /\ outcome' = [outcome EXCEPT ![t] = result]
                     /\ pc' = [pc EXCEPT ![t] = "idle"]

Begin(t, r) ==
  /\ pc[t] = "idle" /\ made < MaxParses
  /\ made' = made + 1
  /\ id' = [id EXCEPT ![t] = made + 1]
  /\ req' = [req EXCEPT ![t] = r]
  /\ words' = [words EXCEPT ![t] = <<>>]
  /\ IF r.line
       THEN /\ pc' = [pc EXCEPT ![t] = "first"]
            /\ crossed' = crossed \cup
                 (IF \E o \in Threads : Splitting(o)
                  THEN {id[o] : o \in {x \in Threads : Splitting(x)}} \cup {made + 1} ELSE {})
            /\ outcome' = [outcome EXCEPT ![t] = "none"]
       ELSE Return(t, "null") /\ UNCHANGED crossed
  /\ UNCHANGED <<loaded, cursor>>

\* Slip: more than three words pass.
AfterLineAtLeast(t) ==
  IF Len(words[t]) >= 3 THEN /\ pc' = [pc EXCEPT ![t] = "split"]
                             /\ UNCHANGED outcome
                        ELSE Return(t, "null")

\* strtok returned NULL: the loop ends.
AfterLine(t) ==
  IF Len(words[t]) = 3 THEN /\ pc' = [pc EXCEPT ![t] = "split"]
                            /\ UNCHANGED outcome
                       ELSE Return(t, "null")

\* strtok found a word behind p, and moves the pointer behind it, or it found
\* none and leaves the pointer at the end of the buffer.
Found(t, p) == /\ words' = [words EXCEPT ![t] = Append(@, <<p.parse, p.word>>)]
               /\ cursor' = [p EXCEPT !.word = @ + 1]
               /\ pc' = [pc EXCEPT ![t] = "again"]
               /\ UNCHANGED outcome

NotFound(t, p) == cursor' = p /\ AfterLine(t) /\ UNCHANGED words

\* Slip: the first call goes on where the last line was left.
FirstWordContinues(t) ==
  LET p == cursor
  IN  /\ pc[t] = "first"
      /\ IF req[t].fields >= 1 THEN Found(t, p) ELSE NotFound(t, p)
      /\ UNCHANGED <<id, req, loaded, made, crossed>>

\* strtok(&request_line[0], " ")
FirstWord(t) ==
  LET p == [parse |-> id[t], word |-> 1]
  IN  /\ pc[t] = "first"
      /\ IF req[t].fields >= 1 THEN Found(t, p) ELSE NotFound(t, p)
      /\ UNCHANGED <<id, req, loaded, made, crossed>>

\* strtok(NULL, " ") first reads the pointer ...
LoadCursor(t) ==
  /\ pc[t] = "again"
  /\ loaded' = [loaded EXCEPT ![t] = cursor]
  /\ pc' = [pc EXCEPT ![t] = "loaded"]
  /\ UNCHANGED <<id, req, words, cursor, outcome, made, crossed>>

\* ... and then scans from there, in whichever buffer that is; a buffer that
\* is gone may hold anything.
NextWord(t) ==
  LET p == loaded[t]
  IN  /\ pc[t] = "loaded"
      /\ IF Alive(p)
           THEN IF p.word <= Fields(p) THEN Found(t, p) ELSE NotFound(t, p)
           ELSE \/ NotFound(t, p)
                \/ /\ Len(words[t]) < MaxWords
                   /\ words' = [words EXCEPT ![t] = Append(@, Garbage)]
                   /\ pc' = [pc EXCEPT ![t] = "again"]
                   /\ UNCHANGED <<cursor, outcome>>
      /\ UNCHANGED <<id, req, loaded, made, crossed>>

\* Slip: what is wrong with the header is returned for the verdict.
HeadersOutcomeRaw(hs) ==
  IF \A i \in 1..Len(hs) : hs[i] = "pair" THEN "request"
  ELSE hs[CHOOSE i \in 1..Len(hs) : hs[i] # "pair"]

\* processMessageBody and processHeaders, which work on locals: a head that
\* does not end is rejected, and the first header line that is not a pair
\* decides; substr throws on one that ends with its colon.
HeadersOutcome(hs) ==
  IF \A i \in 1..Len(hs) : hs[i] = "pair" THEN "request"
  ELSE LET i == CHOOSE i \in 1..Len(hs) : hs[i] # "pair" /\ \A j \in 1..(i - 1) : hs[j] = "pair"
       IN  IF hs[i] = "none" THEN "null" ELSE "throw"

Finish(t) ==
  /\ pc[t] = "split"
  /\ Return(t, IF req[t].head THEN HeadersOutcome(req[t].headers) ELSE "null")
  /\ UNCHANGED <<id, req, words, loaded, cursor, made, crossed>>

Next == \E t \in Threads : \/ \E r \in Requests : Begin(t, r)
                           \/ FirstWord(t) \/ LoadCursor(t) \/ NextWord(t) \/ Finish(t)

Spec == Init /\ [][Next]_vars
-----------------------------------------------------------------------------
Pointer == [parse : Nat, word : Nat]

(* The locals of each parse and the static pointer.                        *)
TypeOK == /\ pc \in [Threads -> {"idle", "first", "again", "loaded", "split"}]
          /\ id \in [Threads -> Nat]
          /\ req \in [Threads -> Requests]
          /\ words \in [Threads -> Seq(Nat \X Nat)]
          /\ loaded \in [Threads -> Pointer]
          /\ cursor \in Pointer
          /\ outcome \in [Threads -> {"none", "request", "null", "throw"}]
          /\ made \in Nat
          /\ crossed \subseteq Nat

OwnWords(t) == <<<<id[t], 1>>, <<id[t], 2>>, <<id[t], 3>>>>

(* A parse during which no other thread split a line understands its own   *)
(* request: it yields method, URI and version of this very request, and it *)
(* yields them exactly when the line has three words, whatever the parses  *)
(* before it left in strtok's pointer (httpRequest.cc:23-51).              *)
UncrossedIsFaithful ==
  \A t \in Threads :
    id[t] \notin crossed /\ outcome[t] # "none" =>
      /\ outcome[t] = "request" => words[t] = OwnWords(t) /\ req[t].head
      /\ req[t].line /\ req[t].fields = 3 /\ req[t].head /\ req[t].headers = <<>>
           => outcome[t] = "request"

(* Only a parse that ran beside another follows strtok's pointer into a    *)
(* request line that no longer exists (httpRequest.cc:34-40).              *)
UncrossedStaysInBuffer ==
  \A t \in Threads : pc[t] = "loaded" /\ id[t] \notin crossed => loaded[t].parse = id[t]

(* httpRequest_test.cc:22-34: the fields of a parsed request are those of  *)
(* the text it was parsed from.                                            *)
FieldsAreOwn == \A t \in Threads : outcome[t] = "request" => words[t] = OwnWords(t)
=============================================================================
