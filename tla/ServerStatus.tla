---------------------------- MODULE ServerStatus ----------------------------
(***************************************************************************)
(* The statistics behind the status page (server/server.h, class           *)
(* ServerStatus).  Every thread that runs io_service::run calls            *)
(* LogIncomingRequest after it has handled a request, and StatusHandler    *)
(* calls GetStatus; neither takes a lock.  The two maps and the int        *)
(* requests_ are one family of counters here: a key that is absent from    *)
(* its map has the count 0.                                                *)
(*                                                                         *)
(* A counter is updated by a look-up and, later, a store, and GetStatus    *)
(* copies counter by counter, so that every overlap of two threads on the  *)
(* unsynchronised object is a behaviour of this module.                    *)
(***************************************************************************)
EXTENDS Integers, Sequences, FiniteSets

CONSTANTS Threads,   \* the threads that run io_service::run
          Urls,      \* the keys of RequestCountByURL_
          Codes,     \* the keys of ResponseCountByCode_
          Total,     \* the counter requests_
          MaxCalls   \* bound on the calls of LogIncomingRequest

ASSUME CountersAssumption ==
  /\ Urls \cap Codes = {}
  /\ Total \notin Urls \cup Codes
  /\ MaxCalls \in Nat

\* What the sums of a status page run over.
ASSUME KeysAssumption == IsFiniteSet(Urls) /\ IsFiniteSet(Codes)

VARIABLES count,       \* the value of each counter
          plan,        \* the counters the call on a thread has yet to update
          held,        \* what a thread has read of the counter it updates
          page,        \* the copy of the counters a thread makes or made last
          left,        \* the counters GetStatus has yet to copy
          up,          \* FALSE once the process has died of a torn map
          begun,       \* the number of calls of LogIncomingRequest
          stored,      \* ghost: how many updates of each counter have ended
          overlapped   \* ghost: two threads have used the object at once

vars == <<count, plan, held, page, left, up, begun, stored, overlapped>>

Counters == Urls \cup Codes \cup {Total}

MapOf(c) == IF c \in Codes THEN Codes ELSE IF c \in Urls THEN Urls ELSE {Total}

\* The members of Status in the order its copy constructor copies them.
CopiedBefore(c) == IF c \in Urls THEN {}
                   ELSE IF c \in Codes THEN Urls ELSE Urls \cup Codes

NothingRead == [value |-> -1, keys |-> {}]

HasRead(t) == held[t].value # -1

Idle(t) == plan[t] = <<>> /\ left[t] = {}

Alone(t) == \A o \in Threads \ {t} : Idle(o)

\* t is about to link a new node into the map that holds c.
Inserting(t, c) == /\ plan[t] # <<>>
                   /\ HasRead(t)
                   /\ held[t].value = 0
                   /\ c # Total
                   /\ Head(plan[t]) \in MapOf(c)

\* The keys other threads have inserted since t looked for its own: a node
\* linked at the place found then can displace theirs.
RacedInserts(t) ==
  LET c == Head(plan[t])
  IN  {k \in MapOf(c) \ {c} : Inserting(t, c) /\ count[k] # 0 /\ k \notin held[t].keys}

-----------------------------------------------------------------------------
Init == /\ count = [c \in Counters |-> 0]
        /\ plan = [t \in Threads |-> <<>>]
        /\ held = [t \in Threads |-> NothingRead]
        /\ page = [t \in Threads |-> [c \in Counters |-> 0]]
        /\ left = [t \in Threads |-> {}]
        /\ up = TRUE
        /\ begun = 0
        /\ stored = [c \in Counters |-> 0]
        /\ overlapped = FALSE

\* Slip: the update of the URL's count is forgotten.
UpdatesWithoutUrl(url, code) == <<code, Total>>

\* The order of the three statements of LogIncomingRequest.
Updates(url, code) == <<code, url, Total>>

LogIncomingRequest(t, url, code) ==
  /\ up /\ Idle(t) /\ begun < MaxCalls
  /\ begun' = begun + 1
  /\ plan' = [plan EXCEPT ![t] = Updates(url, code)]
  /\ overlapped' = (overlapped \/ ~Alone(t))
  /\ UNCHANGED <<count, held, page, left, up, stored>>

\* The search of insert, or the load of requests_++.
Load(t) ==
  /\ up /\ plan[t] # <<>> /\ ~HasRead(t)
  /\ held' = [held EXCEPT ![t] = [value |-> count[Head(plan[t])],
                                  keys  |-> {k \in Counters : count[k] # 0}]]
  /\ UNCHANGED <<count, plan, page, left, up, begun, stored, overlapped>>

\* Slip: the counter is incremented without the test that insert found it.
BumpedTwice(n) == IF n = 0 THEN 2 ELSE n + 1

\* Slip: a key that is there already is not incremented.
BumpedOnce(n) == 1

\* The value stored for a counter that was read as n: a new key starts at 1.
Bumped(n) == n + 1

Store(t) ==
  LET c == Head(plan[t])
  IN  /\ up /\ plan[t] # <<>> /\ HasRead(t)
      /\ \E gone \in SUBSET RacedInserts(t) :
           count' = [k \in Counters |-> IF k = c THEN Bumped(held[t].value)
                                        ELSE IF k \in gone THEN 0 ELSE count[k]]
      /\ stored' = [stored EXCEPT ![c] = @ + 1]
      /\ plan' = [plan EXCEPT ![t] = Tail(@)]
      /\ held' = [held EXCEPT ![t] = NothingRead]
      /\ UNCHANGED <<page, left, up, begun, overlapped>>

GetStatus(t) ==
  /\ up /\ Idle(t)
  /\ left' = [left EXCEPT ![t] = Counters]
  /\ overlapped' = (overlapped \/ ~Alone(t))
  /\ UNCHANGED <<count, plan, held, page, up, begun, stored>>

Copy(t, c) ==
  /\ up /\ c \in left[t]
  /\ CopiedBefore(c) \cap left[t] = {}
  /\ page' = [page EXCEPT ![t][c] = count[c]]
  /\ left' = [left EXCEPT ![t] = @ \ {c}]
  /\ UNCHANGED <<count, plan, held, up, begun, stored, overlapped>>

\* Two threads change the shape of one map, or one changes it while the other
\* walks it: the red-black tree is torn and the process may fault.
Fault(t, o, c) ==
  /\ up /\ t # o
  /\ Inserting(t, c)
  /\ Inserting(o, c) \/ (left[o] \cap MapOf(c) # {} /\ left[o] # Counters)
  /\ up' = FALSE
  /\ UNCHANGED <<count, plan, held, page, left, begun, stored, overlapped>>

Next == \/ \E t \in Threads, url \in Urls, code \in Codes : LogIncomingRequest(t, url, code)
        \/ \E t \in Threads : Load(t) \/ Store(t) \/ GetStatus(t)
        \/ \E t \in Threads, c \in Counters : Copy(t, c)
        \/ \E t, o \in Threads, c \in Codes \cup Urls : Fault(t, o, c)

Spec == Init /\ [][Next]_vars
-----------------------------------------------------------------------------
(* The state of the two maps, of requests_ and of the calls in progress.   *)
TypeOK ==
  /\ count \in [Counters -> Nat]
  /\ plan \in [Threads -> Seq(Counters)]
  /\ held \in [Threads -> [value : Nat \cup {-1}, keys : SUBSET Counters]]
  /\ page \in [Threads -> [Counters -> Nat]]
  /\ left \in [Threads -> SUBSET Counters]
  /\ up \in BOOLEAN
  /\ begun \in Nat
  /\ stored \in [Counters -> Nat]
  /\ overlapped \in BOOLEAN

(* However the calls of LogIncomingRequest and GetStatus overlap, neither  *)
(* the counters nor a status page ever shows more requests than have been  *)
(* logged: the races of server.cc:158-170 lose updates and never invent    *)
(* one.                                                                    *)
NeverOvercounted == \A c \in Counters : /\ count[c] <= stored[c]
                                        /\ \A t \in Threads : page[t][c] <= stored[c]

(* As long as the calls have never overlapped, whichever threads made      *)
(* them, every counter is exact; this is what server_test.cc:12-36 tests   *)
(* on one thread.                                                          *)
SerialExact == ~overlapped => count = stored

SumOf(f, S) == LET sum[T \in SUBSET S] ==
                     IF T = {} THEN 0
                     ELSE LET x == CHOOSE x \in T : TRUE IN f[x] + sum[T \ {x}]
               IN  sum[S]

(* As long as the calls have never overlapped, a finished status page is   *)
(* consistent: the per-URL counts, the per-code counts and the total it    *)
(* prints (status_handler.cc:59-73) all add up to the same number.         *)
SerialPageAgrees ==
  ~overlapped => \A t \in Threads : left[t] = {} =>
    /\ SumOf(page[t], Urls) = page[t][Total]
    /\ SumOf(page[t], Codes) = page[t][Total]
=============================================================================
