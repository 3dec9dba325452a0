---------------------------- MODULE ServerProofs ----------------------------
(***************************************************************************)
(* Theorems about Server, for every pool, every set of clients, every mix  *)
(* of requests and every limit on descriptors.                             *)
(***************************************************************************)
EXTENDS Server, TLAPS

(* How the stage of a session, what is known of its request and whether it *)
(* has been counted go together.                                           *)
SessionData == \A c \in Clients :
  /\ stage[c] \in Running \cup {"ready", "closed", "leaked"} => asked[c] \in Kinds
  /\ stage[c] \in {"handling", "logging", "counting", "writing", "closed"} /\ c \notin clobbered =>
       got[c] = asked[c]
  /\ stage[c] \in {"logging", "counting", "writing", "closed"} =>
       got[c] \in DOMAIN Result /\ reply[c] = StatusSent(got[c])
  /\ c \in logged <=> stage[c] \in {"writing", "closed"}

IInv == TypeOK /\ SessionOnOneThread /\ SessionData

LEMMA ResultDomain == DOMAIN Result = {"status", "page", "missing", "refused", "unready"}
  BY DEF Result

LEMMA StatusSentType == \A r \in DOMAIN Result : StatusSent(r) \in Nat
  BY DEF StatusSent, Result, Unset

LEMMA IInit == Init => IInv
<1> SUFFICES ASSUME Init
             PROVE  IInv
  OBVIOUS
<1>1. TypeOK
  BY DEF Init, TypeOK, Stages
<1>2. SessionOnOneThread
  BY ServerAssumption DEF Init, SessionOnOneThread, Running
<1>3. SessionData
  BY DEF Init, SessionData, Running
<1> QED
  BY <1>1, <1>2, <1>3 DEF IInv

LEMMA TypeNext == IInv /\ [Next]_vars => TypeOK'
<1> SUFFICES ASSUME IInv, [Next]_vars
             PROVE  TypeOK'
  OBVIOUS
<1> USE ServerAssumption DEF IInv, TypeOK
<1>1. ASSUME NEW c \in Clients, Connect(c) \/ HangUp(c) \/ CompleteAccept(c)
      PROVE  TypeOK'
  BY <1>1 DEF Connect, HangUp, CompleteAccept, statistics, Stages
<1>2. ASSUME NEW c \in Clients, NEW r \in Kinds, Arrive(c, r)
      PROVE  TypeOK'
  BY <1>2 DEF Arrive, statistics, Stages
<1>3. ASSUME NEW t \in Threads, DoAccept(t)
      PROVE  TypeOK'
  BY <1>3 DEF DoAccept, statistics, Stages
<1>4. ASSUME NEW t \in Threads, NEW c \in Clients, BeginRead(t, c)
      PROVE  TypeOK'
  BY <1>4 DEF BeginRead, statistics, Stages, Running, Parsing
<1>5. ASSUME NEW t \in Threads, EndParse(t)
      PROVE  TypeOK'
  <2>1. run[t] \in Clients
    BY <1>5 DEF EndParse, Waiting
  <2>2. asked[run[t]] \in Kinds /\ Malformed \in Kinds
    BY <1>5, <2>1 DEF EndParse, SessionData, Running, Kinds
  <2>3. PICK r \in IF run[t] \in clobbered THEN Requests \cup {Malformed} ELSE {asked[run[t]]} :
          /\ got' = [got EXCEPT ![run[t]] = r]
          /\ stage' = [stage EXCEPT ![run[t]] = IF r = Malformed THEN "leaked" ELSE "handling"]
          /\ run' = IF r = Malformed THEN [run EXCEPT ![t] = None] ELSE run
    BY <1>5 DEF EndParse
  <2>4. r \in Kinds
    BY <2>2, <2>3
  <2> QED
    BY <1>5, <2>1, <2>3, <2>4 DEF EndParse, Stages, Running, statistics
<1>6. ASSUME NEW t \in Threads, Handle(t)
      PROVE  TypeOK'
  <2>1. PICK part \in SUBSET Unsettled :
          seen' = [seen EXCEPT ![run[t]] =
                     IF got[run[t]] = Status THEN (counted \ Unsettled) \cup part ELSE {}]
    BY <1>6 DEF Handle
  <2>2. part \subseteq Clients
    BY DEF Unsettled, Counting
  <2> QED
    BY <1>6, <2>1, <2>2, StatusSentType DEF Handle, Waiting, Stages, Running, statistics
<1>7. ASSUME NEW t \in Threads, Throw(t) \/ DoWrite(t) \/ \E o \in Threads : TornMap(t, o)
      PROVE  TypeOK'
  BY <1>7 DEF Throw, TornMap, DoWrite, Waiting, Stages, Running, statistics
<1>8. CASE Exit
  BY <1>8 DEF Exit, statistics
<1>9. CASE UNCHANGED vars
  BY <1>9 DEF vars
<1>10. Malformed \in Kinds
  BY DEF Kinds
<1>11. ASSUME NEW t \in Threads, BeginLog(t) \/ EndLog(t)
       PROVE  TypeOK'
  BY <1>11 DEF BeginLog, EndLog, Waiting, Stages, Running, Counting
<1> QED
  BY <1>1, <1>2, <1>3, <1>4, <1>5, <1>6, <1>7, <1>8, <1>9, <1>10, <1>11
     DEF Next, ThreadStep, Send, EndOfInput

-----------------------------------------------------------------------------
(* A session enters do_read on the thread that took its handler and leaves *)
(* it with that thread.                                                    *)
LEMMA OwnerNext == IInv /\ [Next]_vars => SessionOnOneThread'
<1> SUFFICES ASSUME IInv, [Next]_vars
             PROVE  SessionOnOneThread'
  OBVIOUS
<1>0. TypeOK' /\ TypeOK /\ SessionOnOneThread
  BY TypeNext DEF IInv
<1> USE <1>0, ServerAssumption DEF TypeOK, SessionOnOneThread
<1>1. ASSUME run' = run,
             \A c \in Clients : stage'[c] \in Running <=> stage[c] \in Running
      PROVE  SessionOnOneThread'
  BY <1>1
<1>2. ASSUME NEW c \in Clients, Connect(c) \/ HangUp(c) \/ CompleteAccept(c)
      PROVE  SessionOnOneThread'
  BY <1>1, <1>2 DEF Connect, HangUp, CompleteAccept, statistics, Running
<1>3. ASSUME NEW c \in Clients, NEW r \in Kinds, Arrive(c, r)
      PROVE  SessionOnOneThread'
  BY <1>1, <1>3 DEF Arrive, statistics, Running
<1>4. ASSUME NEW t \in Threads, DoAccept(t)
      PROVE  SessionOnOneThread'
  BY <1>1, <1>4 DEF DoAccept, statistics, Running
<1>5. ASSUME NEW t \in Threads,
             \/ Handle(t) \/ Throw(t) \/ BeginLog(t) \/ EndLog(t)
             \/ \E o \in Threads : TornMap(t, o)
      PROVE  SessionOnOneThread'
  BY <1>1, <1>5 DEF Handle, Throw, BeginLog, EndLog, TornMap, Waiting, Running
<1>6. ASSUME NEW t \in Threads, NEW c \in Clients, BeginRead(t, c)
      PROVE  SessionOnOneThread'
  <2>1. \A o \in Threads : run[o] # c
    BY <1>6 DEF BeginRead, statistics, Running
  <2>2. \A x \in Clients \ {c} : stage'[x] = stage[x]
    BY <1>6 DEF BeginRead, statistics
  <2>3. \A o \in Threads : run'[o] = IF o = t THEN c ELSE run[o]
    BY <1>6 DEF BeginRead, statistics
  <2>4. stage'[c] \in Running
    BY <1>6 DEF BeginRead, statistics, Running
  <2>5. run[t] = None
    BY <1>6 DEF BeginRead, statistics, Waiting
  <2> QED
    BY <2>1, <2>2, <2>3, <2>4, <2>5
<1>7. ASSUME NEW t \in Threads, ~Waiting(t),
             run' = [run EXCEPT ![t] = None],
             NEW s \in Stages \ Running, stage' = [stage EXCEPT ![run[t]] = s]
      PROVE  SessionOnOneThread'
  <2>1. run[t] \in Clients
    BY <1>7 DEF Waiting
  <2>2. \A o \in Threads \ {t} : run[o] # run[t] /\ run'[o] = run[o]
    BY <1>7, <2>1
  <2>3. run'[t] = None
    BY <1>7
  <2>4. \A x \in Clients \ {run[t]} : stage'[x] = stage[x]
    BY <1>7
  <2>5. stage'[run[t]] \notin Running
    BY <1>7, <2>1
  <2> QED
    BY <2>1, <2>2, <2>3, <2>4, <2>5
<1>8. ASSUME NEW t \in Threads, EndParse(t)
      PROVE  SessionOnOneThread'
  <2>1. PICK r : /\ stage' = [stage EXCEPT ![run[t]] = IF r = Malformed THEN "leaked" ELSE "handling"]
                 /\ run' = IF r = Malformed THEN [run EXCEPT ![t] = None] ELSE run
    BY <1>8 DEF EndParse
  <2>2. CASE r = Malformed
    BY <1>7, <1>8, <2>1, <2>2 DEF EndParse, Stages, Running
  <2>3. CASE r # Malformed
    BY <1>1, <1>8, <2>1, <2>3 DEF EndParse, Running
  <2> QED
    BY <2>2, <2>3
<1>9. ASSUME NEW t \in Threads, DoWrite(t)
      PROVE  SessionOnOneThread'
  BY <1>7, <1>9 DEF DoWrite, Stages, Running
<1>10. CASE Exit \/ UNCHANGED vars
  BY <1>1, <1>10 DEF Exit, vars, statistics
<1>11. Malformed \in Kinds
  BY DEF Kinds
<1> QED
  BY <1>2, <1>3, <1>4, <1>5, <1>6, <1>8, <1>9, <1>10, <1>11
     DEF Next, ThreadStep, Send, EndOfInput

-----------------------------------------------------------------------------
(* What is known of a session's request only grows as it moves on.         *)
LEMMA DataNext == IInv /\ [Next]_vars => SessionData'
<1> SUFFICES ASSUME IInv, [Next]_vars
             PROVE  SessionData'
  OBVIOUS
<1>0. TypeOK /\ SessionOnOneThread /\ SessionData
  BY DEF IInv
<1> USE <1>0 DEF TypeOK
<1>1. ASSUME NEW c \in Clients, Connect(c) \/ HangUp(c) \/ CompleteAccept(c)
      PROVE  SessionData'
  BY <1>1 DEF Connect, HangUp, CompleteAccept, statistics, SessionData, Running
<1>2. ASSUME NEW c \in Clients, NEW r \in Kinds, Arrive(c, r)
      PROVE  SessionData'
  BY <1>2 DEF Arrive, statistics, SessionData, Running
<1>3. ASSUME NEW t \in Threads, DoAccept(t)
      PROVE  SessionData'
  BY <1>3 DEF DoAccept, statistics, SessionData, Running
<1>4. ASSUME NEW t \in Threads, NEW c \in Clients, BeginRead(t, c)
      PROVE  SessionData'
  BY <1>4 DEF BeginRead, statistics, SessionData, Running, Parsing
<1>5. ASSUME NEW t \in Threads, EndParse(t)
      PROVE  SessionData'
  <2>1. run[t] \in Clients /\ asked[run[t]] \in Kinds
    BY <1>5 DEF EndParse, Waiting, SessionData, Running
  <2>2. PICK r \in IF run[t] \in clobbered THEN Requests \cup {Malformed} ELSE {asked[run[t]]} :
          /\ got' = [got EXCEPT ![run[t]] = r]
          /\ stage' = [stage EXCEPT ![run[t]] = IF r = Malformed THEN "leaked" ELSE "handling"]
    BY <1>5 DEF EndParse
  <2>3. stage[run[t]] = "parsing" /\ UNCHANGED <<asked, reply, clobbered, logged>>
    BY <1>5 DEF EndParse, statistics
  <2> QED
    BY <2>1, <2>2, <2>3 DEF SessionData, Running
<1>6. ASSUME NEW t \in Threads, Handle(t)
      PROVE  SessionData'
  <2>1. run[t] \in Clients
    BY <1>6 DEF Handle, Waiting
  <2> QED
    BY <1>6, <2>1 DEF Handle, SessionData, Running, statistics
<1>7. ASSUME NEW t \in Threads, BeginLog(t) \/ EndLog(t) \/ DoWrite(t)
      PROVE  SessionData'
  <2>1. run[t] \in Clients
    BY <1>7 DEF BeginLog, EndLog, DoWrite, Waiting
  <2> QED
    BY <1>7, <2>1 DEF BeginLog, EndLog, DoWrite, SessionData, Running, statistics
<1>8. ASSUME NEW t \in Threads, Throw(t) \/ \E o \in Threads : TornMap(t, o)
      PROVE  SessionData'
  BY <1>8 DEF Throw, TornMap, SessionData, statistics
<1>9. CASE Exit \/ UNCHANGED vars
  BY <1>9 DEF Exit, vars, statistics, SessionData
<1>10. Malformed \in Kinds
  BY DEF Kinds
<1> QED
  BY <1>1, <1>2, <1>3, <1>4, <1>5, <1>6, <1>7, <1>8, <1>9, <1>10, ServerAssumption
     DEF Next, ThreadStep, Send, EndOfInput

LEMMA IInvHolds == Spec => []IInv
<1>1. IInv /\ [Next]_vars => IInv'
  BY TypeNext, OwnerNext, DataNext DEF IInv
<1> QED
  BY IInit, <1>1, PTL DEF Spec

(* The state of the server keeps its type (server.h:21-58).                *)
THEOREM TypeCorrect == Spec => []TypeOK
<1>1. IInv => TypeOK
  BY DEF IInv
<1> QED
  BY IInvHolds, <1>1, PTL

(* For every size of the pool, no two threads ever execute the same        *)
(* session, and a session inside do_read is on a thread                    *)
(* (server.cc:42-97).                                                      *)
THEOREM SessionOnOneThreadHolds == Spec => []SessionOnOneThread
<1>1. IInv => SessionOnOneThread
  BY DEF IInv
<1> QED
  BY IInvHolds, <1>1, PTL

(* For every mix of requests, pool and set of clients, a client whose      *)
(* parse ran beside no other and that has been answered asked for          *)
(* something that has an answer, and got the status it is owed             *)
(* (server.cc:47-97).                                                      *)
THEOREM AnswerFitsRequestHolds == Spec => []AnswerFitsRequest
<1>1. \A r \in DOMAIN Result : \/ r \in DOMAIN Owed /\ StatusSent(r) = Owed[r]
                               \/ r = "unready" /\ StatusSent(r) = Unset
  <2>1. DOMAIN Owed = {"status", "page", "missing", "refused"}
    BY DEF Owed
  <2> QED
    BY <2>1, ResultDomain DEF StatusSent, Result, Owed
<1>2. IInv => AnswerFitsRequest
  BY <1>1 DEF IInv, SessionData, AnswerFitsRequest
<1> QED
  BY IInvHolds, <1>2, PTL

-----------------------------------------------------------------------------
(* What the counters hold: a session whose LogIncomingRequest has returned *)
(* without having run beside another's is in them, and whoever counts now  *)
(* has found it there.                                                     *)
CountsInv ==
  /\ counted \subseteq logged
  /\ logged \ raced \subseteq counted
  /\ \A t \in Threads : run[t] \in Counting => logged \ raced \subseteq noted[t]
  /\ \A c, d \in Counting : c # d => c \in raced

(* What a status page must show has been logged; what it shows was counted *)
(* before it, and whatever was counted beside no other count is there.     *)
PageData == \A c \in Clients :
  /\ due[c] \subseteq logged
  /\ got[c] = Status /\ stage[c] \in {"logging", "counting", "writing", "closed"} =>
       c \notin seen[c] /\ due[c] \ raced \subseteq seen[c]

JInv == IInv /\ CountsInv /\ PageData

LEMMA JInit == Init => JInv
<1> SUFFICES ASSUME Init
             PROVE  JInv
  OBVIOUS
<1>1. CountsInv /\ PageData
  BY ServerAssumption DEF Init, CountsInv, PageData, Counting
<1> QED
  BY <1>1, IInit DEF JInv

(* A step that counts nobody: nobody enters or leaves LogIncomingRequest.  *)
LEMMA CountsStay ==
  ASSUME TypeOK, CountsInv, UNCHANGED statistics,
         \A c \in Clients : stage'[c] = "counting" <=> stage[c] = "counting",
         \A t \in Threads : run'[t] \in Counting => run'[t] = run[t]
  PROVE  CountsInv'
<1>1. Counting' = Counting
  BY DEF Counting
<1> QED
  BY <1>1 DEF CountsInv, statistics

LEMMA CountsNext == IInv /\ CountsInv /\ [Next]_vars => CountsInv'
<1> SUFFICES ASSUME IInv, CountsInv, [Next]_vars
             PROVE  CountsInv'
  OBVIOUS
<1>0. TypeOK /\ SessionOnOneThread /\ SessionData
  BY DEF IInv
<1> USE <1>0 DEF TypeOK
<1>1. ASSUME NEW c \in Clients, Connect(c) \/ HangUp(c) \/ CompleteAccept(c)
      PROVE  CountsInv'
  BY <1>1, CountsStay DEF Connect, HangUp, CompleteAccept
<1>2. ASSUME NEW c \in Clients, NEW r \in Kinds, Arrive(c, r)
      PROVE  CountsInv'
  BY <1>2, CountsStay DEF Arrive
<1>3. ASSUME NEW t \in Threads, DoAccept(t)
      PROVE  CountsInv'
  BY <1>3, CountsStay DEF DoAccept
<1>4. ASSUME NEW t \in Threads, NEW c \in Clients, BeginRead(t, c)
      PROVE  CountsInv'
  BY <1>4, CountsStay DEF BeginRead, Counting
<1>5. ASSUME NEW t \in Threads, EndParse(t) \/ Handle(t) \/ DoWrite(t)
      PROVE  CountsInv'
  <2>1. /\ run[t] \in Clients /\ stage[run[t]] \in {"parsing", "handling", "writing"}
        /\ UNCHANGED statistics
    BY <1>5 DEF EndParse, Handle, DoWrite, Waiting
  <2>2. PICK s \in {"leaked", "handling", "logging", "closed"} : stage' = [stage EXCEPT ![run[t]] = s]
    BY <1>5 DEF EndParse, Handle, DoWrite
  <2>3. run' = run \/ run' = [run EXCEPT ![t] = None]
    BY <1>5 DEF EndParse, Handle, DoWrite
  <2> QED
    BY <2>1, <2>2, <2>3, CountsStay, ServerAssumption DEF Counting
<1>6. ASSUME NEW t \in Threads, BeginLog(t)
      PROVE  CountsInv'
  <2>1. run[t] \in Clients /\ run' = run
    BY <1>6 DEF BeginLog, Waiting
  <2>2. Counting' = Counting \cup {run[t]}
    BY <1>6, <2>1 DEF BeginLog, Counting
  <2>3. /\ raced' = raced \cup (IF Counting = {} THEN {} ELSE Counting \cup {run[t]})
        /\ noted' = [noted EXCEPT ![t] = counted]
        /\ UNCHANGED <<logged, counted>>
    BY <1>6 DEF BeginLog
  <2>4. \A o \in Threads : run'[o] \in Counting' => logged' \ raced' \subseteq noted'[o]
    <3> SUFFICES ASSUME NEW o \in Threads, run[o] \in Counting'
                 PROVE  logged \ raced \subseteq noted'[o]
      BY <2>1, <2>3
    <3>1. CASE o = t
      BY <2>3, <3>1 DEF CountsInv
    <3>2. CASE o # t
      <4>1. run[o] # run[t]
        BY <2>1, <3>2, ServerAssumption DEF SessionOnOneThread
      <4> QED
        BY <2>2, <2>3, <3>2, <4>1 DEF CountsInv
    <3> QED
      BY <3>1, <3>2
  <2> QED
    BY <2>1, <2>2, <2>3, <2>4 DEF CountsInv
<1>7. ASSUME NEW t \in Threads, EndLog(t)
      PROVE  CountsInv'
  <2>1. run[t] \in Clients /\ run' = run /\ run[t] \in Counting
    BY <1>7 DEF EndLog, Waiting, Counting
  <2>2. Counting' = Counting \ {run[t]}
    BY <1>7, <2>1 DEF EndLog, Counting
  <2>3. PICK lost \in SUBSET ((counted \ noted[t]) \cup (raced \cap {run[t]})) :
          counted' = (counted \cup {run[t]}) \ lost
    BY <1>7 DEF EndLog
  <2>4. /\ noted' = [noted EXCEPT ![t] = {}]
        /\ logged' = logged \cup {run[t]}
        /\ raced' = raced
    BY <1>7 DEF EndLog
  <2>5. lost \cap ((logged \cup {run[t]}) \ raced) = {}
    BY <2>1, <2>3 DEF CountsInv
  <2>6. counted' \subseteq logged' /\ logged' \ raced' \subseteq counted'
    BY <2>3, <2>4, <2>5 DEF CountsInv
  <2>7. \A o \in Threads : run'[o] \in Counting' => logged' \ raced' \subseteq noted'[o]
    <3> SUFFICES ASSUME NEW o \in Threads, run[o] \in Counting, run[o] # run[t]
                 PROVE  (logged \cup {run[t]}) \ raced \subseteq noted'[o]
      BY <2>1, <2>2, <2>4
    <3>1. run[t] \in raced
      BY <2>1 DEF CountsInv
    <3>2. noted'[o] = noted[o]
      BY <2>4
    <3> QED
      BY <3>1, <3>2 DEF CountsInv
  <2> QED
    BY <2>2, <2>4, <2>6, <2>7 DEF CountsInv
<1>8. ASSUME UNCHANGED <<stage, run, statistics>>
      PROVE  CountsInv'
  BY <1>8, CountsStay
<1>9. ASSUME NEW t \in Threads, Throw(t) \/ \E o \in Threads : TornMap(t, o)
      PROVE  CountsInv'
  BY <1>8, <1>9 DEF Throw, TornMap
<1>10. CASE Exit \/ UNCHANGED vars
  BY <1>8, <1>10 DEF Exit, vars, statistics
<1>11. Malformed \in Kinds
  BY DEF Kinds
<1> QED
  BY <1>1, <1>2, <1>3, <1>4, <1>5, <1>6, <1>7, <1>9, <1>10, <1>11, ServerAssumption
     DEF Next, ThreadStep, Send, EndOfInput

(* The page is made from what is counted before its own request is, and    *)
(* whatever is closed has been logged.                                     *)
LEMMA PageNext == IInv /\ CountsInv /\ PageData /\ [Next]_vars => PageData'
<1> SUFFICES ASSUME IInv, CountsInv, PageData, [Next]_vars
             PROVE  PageData'
  OBVIOUS
<1>0. TypeOK /\ SessionOnOneThread /\ SessionData
  BY DEF IInv
<1> USE <1>0 DEF TypeOK
<1>1. ASSUME NEW c \in Clients, Connect(c) \/ HangUp(c) \/ CompleteAccept(c)
      PROVE  PageData'
  BY <1>1 DEF Connect, HangUp, CompleteAccept, statistics, PageData
<1>2. ASSUME NEW c \in Clients, NEW r \in Kinds, Arrive(c, r)
      PROVE  PageData'
  <2>1. {x \in Clients : stage[x] = "closed"} \subseteq logged
    BY DEF SessionData
  <2>2. \A x \in Clients : due'[x] \subseteq logged
    BY <1>2, <2>1 DEF Arrive, PageData
  <2>3. \A x \in Clients : /\ stage'[x] = IF x = c THEN "ready" ELSE stage[x]
                           /\ x # c => due'[x] = due[x]
    BY <1>2 DEF Arrive
  <2>4. UNCHANGED <<got, seen, logged, raced>>
    BY <1>2 DEF Arrive, statistics
  <2>5. \A x \in Clients : due'[x] \subseteq logged'
    BY <2>2, <2>4
  <2>6. ASSUME NEW x \in Clients, got[x]' = Status,
               stage'[x] \in {"logging", "counting", "writing", "closed"}
        PROVE  x \notin seen'[x] /\ due'[x] \ raced' \subseteq seen'[x]
    BY <2>3, <2>4, <2>6 DEF PageData
  <2> QED
    BY <2>5, <2>6 DEF PageData
<1>3. ASSUME NEW t \in Threads, DoAccept(t)
      PROVE  PageData'
  BY <1>3 DEF DoAccept, statistics, PageData
<1>4. ASSUME NEW t \in Threads, NEW c \in Clients, BeginRead(t, c)
      PROVE  PageData'
  BY <1>4 DEF BeginRead, statistics, PageData
<1>5. ASSUME NEW t \in Threads, EndParse(t)
      PROVE  PageData'
  <2>1. run[t] \in Clients
    BY <1>5 DEF EndParse, Waiting
  <2>2. PICK r : /\ got' = [got EXCEPT ![run[t]] = r]
                 /\ stage' = [stage EXCEPT ![run[t]] = IF r = Malformed THEN "leaked" ELSE "handling"]
    BY <1>5 DEF EndParse
  <2>3. UNCHANGED <<due, seen, logged, raced>>
    BY <1>5 DEF EndParse, statistics
  <2> QED
    BY <2>1, <2>2, <2>3 DEF PageData
<1>6. ASSUME NEW t \in Threads, Handle(t)
      PROVE  PageData'
  <2>1. run[t] \in Clients /\ stage[run[t]] = "handling"
    BY <1>6 DEF Handle, Waiting
  <2>2. run[t] \notin logged /\ run[t] \notin Counting
    BY <2>1 DEF SessionData, Counting
  <2>3. PICK part \in SUBSET Unsettled :
          seen' = [seen EXCEPT ![run[t]] =
                     IF got[run[t]] = Status THEN (counted \ Unsettled) \cup part ELSE {}]
    BY <1>6 DEF Handle
  <2>4. logged \ raced \subseteq counted \ Unsettled
    <3>1. (logged \ raced) \cap Counting = {}
      BY DEF SessionData, Counting
    <3> QED
      BY <3>1 DEF CountsInv, Unsettled
  <2>5. run[t] \notin (counted \ Unsettled) \cup part
    BY <2>2 DEF CountsInv, Unsettled
  <2>6. UNCHANGED <<got, due, logged, raced>>
    BY <1>6 DEF Handle, statistics
  <2>7. ASSUME NEW x \in Clients, got[x] = Status,
               stage'[x] \in {"logging", "counting", "writing", "closed"}
        PROVE  x \notin seen'[x] /\ due[x] \ raced \subseteq seen'[x]
    <3>1. CASE x = run[t]
      BY <2>3, <2>4, <2>5, <2>7, <3>1 DEF PageData
    <3>2. CASE x # run[t]
      BY <1>6, <2>3, <2>7, <3>2 DEF Handle, PageData
    <3> QED
      BY <3>1, <3>2
  <2> QED
    BY <2>6, <2>7 DEF PageData
<1>7. ASSUME NEW t \in Threads, BeginLog(t) \/ EndLog(t) \/ DoWrite(t)
      PROVE  PageData'
  <2>1. run[t] \in Clients /\ stage[run[t]] \in {"logging", "counting", "writing"}
    BY <1>7 DEF BeginLog, EndLog, DoWrite, Waiting
  <2>2. logged \subseteq logged' /\ raced \subseteq raced' /\ UNCHANGED <<due, seen, got>>
    BY <1>7 DEF BeginLog, EndLog, DoWrite, statistics
  <2>3. \A x \in Clients : x # run[t] => stage'[x] = stage[x]
    BY <1>7 DEF BeginLog, EndLog, DoWrite
  <2> QED
    BY <2>1, <2>2, <2>3 DEF PageData
<1>8. ASSUME NEW t \in Threads, Throw(t) \/ \E o \in Threads : TornMap(t, o)
      PROVE  PageData'
  BY <1>8 DEF Throw, TornMap, statistics, PageData
<1>9. CASE Exit \/ UNCHANGED vars
  BY <1>9 DEF Exit, vars, statistics, PageData
<1>10. Malformed \in Kinds
  BY DEF Kinds
<1> QED
  BY <1>1, <1>2, <1>3, <1>4, <1>5, <1>6, <1>7, <1>8, <1>9, <1>10, ServerAssumption
     DEF Next, ThreadStep, Send, EndOfInput

LEMMA JInvHolds == Spec => []JInv
<1>1. JInv /\ [Next]_vars => JInv'
  BY TypeNext, OwnerNext, DataNext, CountsNext, PageNext DEF JInv, IInv
<1> QED
  BY JInit, <1>1, PTL DEF Spec

(* However the threads interleave in the unlocked counters, while they     *)
(* change and while they are copied, a status page counts every client     *)
(* that had its answer when the page was asked for, except one whose       *)
(* LogIncomingRequest ran beside another's, and never the page's own       *)
(* request (server.cc:75-95, 154-170).                                     *)
THEOREM StatusCountsTheAnsweredHolds == Spec => []StatusCountsTheAnswered
<1>1. JInv => StatusCountsTheAnswered
  BY DEF JInv, PageData, StatusCountsTheAnswered
<1> QED
  BY JInvHolds, <1>1, PTL

-----------------------------------------------------------------------------
LEMMA PromiseInit == Init => Promise!Init
<1> SUFFICES ASSUME Init
             PROVE  Promise!Init
  OBVIOUS
<1>1. \A c \in Clients : PhaseOf(c) = "away"
  BY DEF Init, PhaseOf
<1> QED
  BY <1>1 DEF Init, Promise!Init

(* A step that changes no phase, no entry of the statistics and not the    *)
(* process is a stutter of Service.                                        *)
LEMMA PromiseStutter ==
  ASSUME \A c \in Clients : PhaseOf(c)' = PhaseOf(c),
         UNCHANGED logged, (proc = "up")' = (proc = "up")
  PROVE  UNCHANGED Promise!vars
BY DEF Promise!vars

LEMMA PromiseMoves ==
  ASSUME NEW c \in Clients, TypeOK, NEW s \in Stages,
         stage' = [stage EXCEPT ![c] = s]
  PROVE  [x \in Clients |-> PhaseOf(x)]' =
           [[x \in Clients |-> PhaseOf(x)] EXCEPT ![c] = PhaseOf(c)']
<1>1. \A x \in Clients \ {c} : PhaseOf(x)' = PhaseOf(x)
  BY DEF TypeOK, PhaseOf
<1> QED
  BY <1>1

LEMMA PromiseNext == IInv /\ [Next]_vars => [Promise!Next]_Promise!vars
<1> SUFFICES ASSUME IInv, [Next]_vars
             PROVE  [Promise!Next]_Promise!vars
  OBVIOUS
<1>0. TypeOK /\ SessionOnOneThread /\ SessionData
  BY DEF IInv
<1> USE <1>0 DEF TypeOK
<1>1. ASSUME NEW c \in Clients, Connect(c)
      PROVE  Promise!Connect(c)
  <2>1. "backlog" \in Stages
    BY DEF Stages
  <2>2. PhaseOf(c) = "away" /\ PhaseOf(c)' = "waiting"
    BY <1>1 DEF Connect, PhaseOf
  <2> QED
    BY <1>1, <2>1, <2>2, PromiseMoves DEF Connect, statistics, Promise!Connect
<1>2. ASSUME NEW c \in Clients, HangUp(c) \/ CompleteAccept(c)
      PROVE  UNCHANGED Promise!vars
  <2>1. \A x \in Clients : PhaseOf(x)' = PhaseOf(x)
    BY <1>2 DEF HangUp, CompleteAccept, PhaseOf
  <2> QED
    BY <1>2, <2>1, PromiseStutter DEF HangUp, CompleteAccept, statistics
<1>3. ASSUME NEW c \in Clients, NEW r \in Kinds, Arrive(c, r)
      PROVE  UNCHANGED Promise!vars
  <2>1. \A x \in Clients : PhaseOf(x)' = PhaseOf(x)
    BY <1>3 DEF Arrive, statistics, PhaseOf
  <2> QED
    BY <1>3, <2>1, PromiseStutter DEF Arrive, statistics
<1>4. ASSUME NEW t \in Threads,
             \/ DoAccept(t) \/ Handle(t) \/ BeginLog(t)
             \/ \E c \in Clients : BeginRead(t, c)
      PROVE  UNCHANGED Promise!vars
  <2>1. \A x \in Clients : PhaseOf(x)' = PhaseOf(x)
    BY <1>4 DEF DoAccept, Handle, BeginLog, BeginRead, PhaseOf, Waiting
  <2> QED
    BY <1>4, <2>1, PromiseStutter DEF DoAccept, Handle, BeginLog, BeginRead, statistics
<1>5. ASSUME NEW t \in Threads, NEW c \in Clients, c = run[t], EndParse(t)
      PROVE  UNCHANGED Promise!vars \/ Promise!Abandon(c)
  <2>1. PICK r : stage' = [stage EXCEPT ![c] = IF r = Malformed THEN "leaked" ELSE "handling"]
    BY <1>5 DEF EndParse
  <2>2. stage[c] = "parsing"
    BY <1>5 DEF EndParse
  <2>3. CASE r = Malformed
    <3>1. "leaked" \in Stages /\ PhaseOf(c) = "waiting" /\ PhaseOf(c)' = "abandoned"
      BY <2>1, <2>2, <2>3 DEF PhaseOf, Stages
    <3>2. c \notin logged
      BY <2>2 DEF SessionData
    <3> QED
      BY <1>5, <2>1, <2>3, <3>1, <3>2, PromiseMoves DEF EndParse, statistics, Promise!Abandon
  <2>4. CASE r # Malformed
    <3>1. \A x \in Clients : PhaseOf(x)' = PhaseOf(x)
      BY <2>1, <2>2, <2>4 DEF PhaseOf
    <3> QED
      BY <1>5, <3>1, PromiseStutter DEF EndParse, statistics
  <2> QED
    BY <2>3, <2>4
<1>6. ASSUME NEW t \in Threads, NEW c \in Clients, c = run[t], EndLog(t)
      PROVE  Promise!Record(c)
  <2>1. \A x \in Clients : PhaseOf(x)' = PhaseOf(x)
    BY <1>6 DEF EndLog, PhaseOf
  <2>2. c \notin logged /\ PhaseOf(c) = "waiting"
    BY <1>6 DEF EndLog, SessionData, PhaseOf
  <2> QED
    BY <1>6, <2>1, <2>2 DEF EndLog, Promise!Record
<1>7. ASSUME NEW t \in Threads, NEW c \in Clients, c = run[t], DoWrite(t)
      PROVE  Promise!Answer(c)
  <2>1. "closed" \in Stages /\ PhaseOf(c) = "waiting" /\ PhaseOf(c)' = "answered"
    BY <1>7 DEF DoWrite, PhaseOf, Stages
  <2>2. c \in logged
    BY <1>7 DEF DoWrite, SessionData
  <2> QED
    BY <1>7, <2>1, <2>2, PromiseMoves DEF DoWrite, statistics, Promise!Answer
<1>8. ASSUME Exit \/ \E t \in Threads : Throw(t) \/ \E o \in Threads : TornMap(t, o)
      PROVE  Promise!Stop
  <2>1. \A x \in Clients : PhaseOf(x)' = PhaseOf(x)
    BY <1>8 DEF Exit, Throw, TornMap, PhaseOf
  <2> QED
    BY <1>8, <2>1 DEF Exit, Throw, TornMap, statistics, Promise!Stop
<1>9. CASE UNCHANGED vars
  <2>1. \A x \in Clients : PhaseOf(x)' = PhaseOf(x)
    BY <1>9 DEF vars, PhaseOf
  <2> QED
    BY <1>9, <2>1, PromiseStutter DEF vars
<1>10. Malformed \in Kinds
  BY DEF Kinds
<1>11. ASSUME NEW t \in Threads, ThreadStep(t)
       PROVE  [Promise!Next]_Promise!vars
  <2>2. CASE EndParse(t) \/ EndLog(t) \/ DoWrite(t)
    <3>1. PICK c \in Clients : c = run[t]
      BY <2>2 DEF EndParse, EndLog, DoWrite, Waiting
    <3> QED
      BY <1>5, <1>6, <1>7, <2>2, <3>1 DEF Promise!Next
  <2> QED
    BY <1>4, <1>8, <1>11, <2>2 DEF ThreadStep, Promise!Next
<1>12. ASSUME NEW c \in Clients,
              \/ Connect(c) \/ HangUp(c) \/ EndOfInput(c) \/ CompleteAccept(c)
              \/ \E r \in Requests : Send(c, r)
       PROVE  [Promise!Next]_Promise!vars
  BY <1>1, <1>2, <1>3, <1>10, <1>12, ServerAssumption DEF Send, EndOfInput, Promise!Next
<1> QED
  BY <1>8, <1>9, <1>11, <1>12 DEF Next, Promise!Next

(* The server with its threads, sessions and queues implements Service:    *)
(* whatever the interleaving, each connection is answered at most once,    *)
(* after it was counted, and a dropped one is neither (server.cc:47-110).  *)
THEOREM KeepsPromiseHolds == Spec => KeepsPromise
<1> QED
  BY IInvHolds, PromiseInit, PromiseNext, PTL DEF Spec, KeepsPromise, Promise!Spec
=============================================================================
