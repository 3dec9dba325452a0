------------------------------- MODULE Server -------------------------------
(***************************************************************************)
(* The running server (server/server.cc, classes Server and Session): one  *)
(* acceptor, one Session per accepted connection, and the threads of       *)
(* Server::run, which all execute the completion handlers of one           *)
(* io_service.  A handler runs to its end on the thread that took it; the  *)
(* steps of do_read at which other threads can come in between are actions *)
(* of their own.                                                           *)
(*                                                                         *)
(* A request is one of a few kinds, named for what its handler does with   *)
(* it.  The order in which queued handlers are taken is left open.         *)
(***************************************************************************)
EXTENDS Naturals, FiniteSets

CONSTANTS Threads,    \* the threads of the pool (NUM_OF_THREADS, server.h:51)
          Clients,    \* the connections that clients may open
          MaxFds,     \* how many accepted sockets the process may have open
          Requests,   \* the kinds of request that clients send
          None        \* no session: the thread is waiting inside run()

Malformed == "malformed"  \* Request::Parse returns null
Endless   == "endless"    \* the handler never returns (BlockingHandler)
Throwing  == "throwing"   \* parsing or handling throws
Status    == "status"     \* answered by StatusHandler

\* What the handlers return, and the status code they put into the response;
\* StatusHandler without an InitStatus leaves the response as constructed.
Unset == 0
Result == [ status  |-> [returns |-> "OK", code |-> 200],
            page    |-> [returns |-> "OK", code |-> 200],
            missing |-> [returns |-> "FILE_NOT_FOUND", code |-> 404],
            refused |-> [returns |-> "BAD_REQUEST", code |-> 400],
            unready |-> [returns |-> "MISCONFIGURED_HANDLER", code |-> Unset] ]

Kinds == DOMAIN Result \cup {Malformed, Endless, Throwing}

ASSUME ServerAssumption ==
  /\ Threads # {} /\ Clients # {}
  /\ IsFiniteSet(Clients)
  /\ MaxFds \in Nat
  /\ Requests \subseteq Kinds /\ Requests # {}
  /\ None \notin Clients

VARIABLES proc,       \* the process: "up", "crashed" or "exited"
          acceptor,   \* "armed", "accepted", "failed" or "off"
          stage,      \* how far the session of each connection has come
          asked,      \* the request the client has sent
          got,        \* the request as the parser understood it
          reply,      \* the status code of the response
          run,        \* the session whose handler each thread executes
          gone,       \* the clients that have hung up
          clobbered,  \* the sessions whose parse ran beside another one
          logged,     \* the sessions whose LogIncomingRequest has returned
          counted,    \* those of them that every counter still has
          noted,      \* what a thread found counted when it began to count
          raced,      \* the sessions whose counting ran beside another one's
          due,        \* ghost: the answers delivered before a request was sent
          seen        \* the sessions counted on the status page

vars == <<proc, acceptor, stage, asked, got, reply, run, gone, clobbered,
          logged, counted, noted, raced, due, seen>>

statistics == <<logged, counted, noted, raced>>

Running == {"parsing", "handling", "logging", "counting", "writing"}

Stages == {"away", "backlog", "accepted", "reading", "ready", "closed", "leaked"}
            \cup Running

\* Sockets are closed by do_write only.
HoldsFd(c) == stage[c] \in Running \cup {"accepted", "reading", "ready", "leaked"}

OpenFds == {c \in Clients : HoldsFd(c)}

Waiting(t) == run[t] = None

\* The work io_service still knows of besides accepting: pending reads, queued
\* handlers and handlers in execution.
Work == {c \in Clients : stage[c] \in Running \cup {"reading", "ready"}}

Init == /\ proc = "up"
        /\ acceptor = "armed"
        /\ stage = [c \in Clients |-> "away"]
        /\ asked = [c \in Clients |-> None]
        /\ got = [c \in Clients |-> None]
        /\ reply = [c \in Clients |-> None]
        /\ run = [t \in Threads |-> None]
        /\ gone = {}
        /\ clobbered = {}
        /\ logged = {}
        /\ counted = {}
        /\ noted = [t \in Threads |-> {}]
        /\ raced = {}
        /\ due = [c \in Clients |-> {}]
        /\ seen = [c \in Clients |-> {}]
-----------------------------------------------------------------------------
(* The clients and the kernel.                                             *)

Connect(c) ==
  /\ proc = "up" /\ stage[c] = "away"
  /\ stage' = [stage EXCEPT ![c] = "backlog"]
  /\ UNCHANGED <<proc, acceptor, asked, got, reply, run, gone, clobbered, statistics, due, seen>>

\* The head of a request is complete, or the input has ended: async_read_until
\* completes.  do_read is bound without the error code and runs in both cases;
\* without "\r\n\r\n" in the buffer the parser rejects what there is.
Arrive(c, r) ==
  /\ proc = "up" /\ stage[c] = "reading"
  /\ stage' = [stage EXCEPT ![c] = "ready"]
  /\ asked' = [asked EXCEPT ![c] = r]
  /\ due' = [due EXCEPT ![c] = IF r = Status THEN {x \in Clients : stage[x] = "closed"} ELSE {}]
  /\ UNCHANGED <<proc, acceptor, got, reply, run, gone, clobbered, statistics, seen>>

Send(c, r) == c \notin gone /\ Arrive(c, r)

EndOfInput(c) == c \in gone /\ Arrive(c, Malformed)

\* Only a pending read and a write notice that a client has hung up; if it does
\* so at another time, it might as well have waited for the next of these.
HangUp(c) ==
  /\ proc = "up" /\ c \notin gone
  /\ stage[c] \in {"reading", "writing"}
  /\ gone' = gone \cup {c}
  /\ UNCHANGED <<proc, acceptor, stage, asked, got, reply, run, clobbered, statistics, due, seen>>

\* The reactor, run by a thread that has nothing else to do, completes the
\* pending accept; out of descriptors, it completes with an error and the
\* connection stays in the listen queue.
CompleteAccept(c) ==
  /\ proc = "up" /\ acceptor = "armed" /\ stage[c] = "backlog"
  /\ \E t \in Threads : Waiting(t)
  /\ IF Cardinality(OpenFds) < MaxFds
       THEN acceptor' = "accepted" /\ stage' = [stage EXCEPT ![c] = "accepted"]
       ELSE acceptor' = "failed" /\ UNCHANGED stage
  /\ UNCHANGED <<proc, asked, got, reply, run, gone, clobbered, statistics, due, seen>>
-----------------------------------------------------------------------------
(* The completion handlers.                                                *)

\* Slip: do_accept forgets to arm the next accept.
DoAcceptOnce(t) ==
  /\ proc = "up" /\ Waiting(t)
  /\ acceptor = "accepted"
  /\ stage' = [c \in Clients |-> IF stage[c] = "accepted" THEN "reading" ELSE stage[c]]
  /\ UNCHANGED <<proc, acceptor, asked, got, reply, run, gone, clobbered, statistics, due, seen>>

\* do_accept starts the session and arms the next accept, or, after an error,
\* deletes the session and arms nothing.
DoAccept(t) ==
  /\ proc = "up" /\ Waiting(t)
  /\ \/ /\ acceptor = "accepted"
        /\ acceptor' = "armed"
        /\ stage' = [c \in Clients |-> IF stage[c] = "accepted" THEN "reading" ELSE stage[c]]
     \/ /\ acceptor = "failed"
        /\ acceptor' = "off"
        /\ UNCHANGED stage
  /\ UNCHANGED <<proc, asked, got, reply, run, gone, clobbered, statistics, due, seen>>

Parsing == {c \in Clients : stage[c] = "parsing"}

\* Slip: the read handler is queued a second time.
BeginReadTwice(t, c) ==
  /\ proc = "up" /\ Waiting(t) /\ stage[c] \in {"ready", "parsing"}
  /\ run' = [run EXCEPT ![t] = c]
  /\ stage' = [stage EXCEPT ![c] = "parsing"]
  /\ UNCHANGED <<proc, acceptor, asked, got, reply, gone, clobbered, statistics, due, seen>>

\* do_read begins: from here Request::Parse is in strtok, whose one static
\* pointer all threads share.
BeginRead(t, c) ==
  /\ proc = "up" /\ Waiting(t) /\ stage[c] = "ready"
  /\ run' = [run EXCEPT ![t] = c]
  /\ stage' = [stage EXCEPT ![c] = "parsing"]
  /\ clobbered' = clobbered \cup (IF Parsing = {} THEN {} ELSE Parsing \cup {c})
  /\ UNCHANGED <<proc, acceptor, asked, got, reply, gone, statistics, due, seen>>

\* Slip: no return after a rejected request, whose error page is sent unlogged.
EndParseNoReturn(t) ==
  /\ proc = "up" /\ ~Waiting(t) /\ stage[run[t]] = "parsing"
  /\ got' = [got EXCEPT ![run[t]] = asked[run[t]]]
  /\ stage' = [stage EXCEPT ![run[t]] = IF asked[run[t]] = Malformed THEN "writing" ELSE "handling"]
  /\ UNCHANGED <<proc, acceptor, asked, reply, run, gone, clobbered, statistics, due, seen>>

\* The end of Request::Parse.  A parse that ran beside another may have found
\* any request at all.  After a rejected one do_read returns at once: nothing
\* is sent, the socket stays open and the Session is never deleted.
EndParse(t) ==
  /\ proc = "up" /\ ~Waiting(t) /\ stage[run[t]] = "parsing"
  /\ \E r \in IF run[t] \in clobbered THEN Requests \cup {Malformed} ELSE {asked[run[t]]} :
       /\ got' = [got EXCEPT ![run[t]] = r]
       /\ stage' = [stage EXCEPT ![run[t]] = IF r = Malformed THEN "leaked" ELSE "handling"]
       /\ run' = IF r = Malformed THEN [run EXCEPT ![t] = None] ELSE run
  /\ UNCHANGED <<proc, acceptor, asked, reply, gone, clobbered, statistics, due, seen>>

\* Slip: do_read sends what the handler has filled in, whatever it returns.
StatusFilledIn(r) == Result[r].code

\* What do_read makes of a handler's result.
StatusSent(r) == IF Result[r].returns = "BAD_REQUEST" THEN 500 ELSE Result[r].code

Counting == {c \in Clients : stage[c] = "counting"}

\* What the calls of LogIncomingRequest under way may still change: what they
\* count themselves, and what has been counted since they began.
Unsettled == Counting \cup {c \in counted : \E t \in Threads : /\ run[t] \in Counting
                                                              /\ c \notin noted[t]}

\* The handler runs; a status page has a copy of the counters, which may be
\* made beside the calls that change them.
Handle(t) ==
  /\ proc = "up" /\ ~Waiting(t) /\ stage[run[t]] = "handling"
  /\ got[run[t]] \in DOMAIN Result
  /\ reply' = [reply EXCEPT ![run[t]] = StatusSent(got[run[t]])]
  /\ \E part \in SUBSET Unsettled :
       seen' = [seen EXCEPT ![run[t]] =
                  IF got[run[t]] = Status THEN (counted \ Unsettled) \cup part ELSE {}]
  /\ stage' = [stage EXCEPT ![run[t]] = "logging"]
  /\ UNCHANGED <<proc, acceptor, asked, got, run, gone, clobbered, statistics, due>>

\* An exception leaves do_read and io_service::run; nothing on the thread
\* catches it, so std::terminate ends the process.
Throw(t) ==
  /\ proc = "up" /\ ~Waiting(t)
  /\ \/ stage[run[t]] = "handling" /\ got[run[t]] = Throwing
     \/ stage[run[t]] = "writing" /\ run[t] \in gone
  /\ proc' = "crashed"
  /\ UNCHANGED <<acceptor, stage, asked, got, reply, run, gone, clobbered, statistics, due, seen>>

\* LogIncomingRequest begins: it takes no lock, and what it finds in the
\* counters is what it will add to.
BeginLog(t) ==
  /\ proc = "up" /\ ~Waiting(t) /\ stage[run[t]] = "logging"
  /\ noted' = [noted EXCEPT ![t] = counted]
  /\ raced' = raced \cup (IF Counting = {} THEN {} ELSE Counting \cup {run[t]})
  /\ stage' = [stage EXCEPT ![run[t]] = "counting"]
  /\ UNCHANGED <<proc, acceptor, asked, got, reply, run, gone, clobbered, logged, counted, due, seen>>

\* Slip: only successful requests are counted.
EndLogSuccess(t) ==
  /\ proc = "up" /\ ~Waiting(t) /\ stage[run[t]] = "counting"
  /\ counted' = IF reply[run[t]] = 200 THEN counted \cup {run[t]} ELSE counted
  /\ noted' = [noted EXCEPT ![t] = {}]
  /\ logged' = logged \cup {run[t]}
  /\ stage' = [stage EXCEPT ![run[t]] = "writing"]
  /\ UNCHANGED <<proc, acceptor, asked, got, reply, run, gone, clobbered, raced, due, seen>>

\* Its stores undo what others have counted since its loads, and theirs may
\* have undone its own; ServerStatus has each load and store.
EndLog(t) ==
  /\ proc = "up" /\ ~Waiting(t) /\ stage[run[t]] = "counting"
  /\ \E lost \in SUBSET ((counted \ noted[t]) \cup (raced \cap {run[t]})) :
       counted' = (counted \cup {run[t]}) \ lost
  /\ noted' = [noted EXCEPT ![t] = {}]
  /\ logged' = logged \cup {run[t]}
  /\ stage' = [stage EXCEPT ![run[t]] = "writing"]
  /\ UNCHANGED <<proc, acceptor, asked, got, reply, run, gone, clobbered, raced, due, seen>>

\* Two threads insert into one map, or one inserts while another copies it.
TornMap(t, o) ==
  /\ proc = "up" /\ t # o /\ ~Waiting(t) /\ ~Waiting(o)
  /\ stage[run[t]] = "counting"
  /\ \/ stage[run[o]] = "counting"
     \/ stage[run[o]] = "handling" /\ got[run[o]] = Status
  /\ proc' = "crashed"
  /\ UNCHANGED <<acceptor, stage, asked, got, reply, run, gone, clobbered, statistics, due, seen>>

\* Slip: the handler does not return after the last write.
DoWriteStays(t) ==
  /\ proc = "up" /\ ~Waiting(t) /\ stage[run[t]] = "writing"
  /\ stage' = [stage EXCEPT ![run[t]] = "closed"]
  /\ UNCHANGED <<proc, acceptor, asked, got, reply, run, gone, clobbered, statistics, due, seen>>

\* do_write sends the response, shuts the socket down and closes it.  Writing
\* to a client that has hung up may still succeed; see Throw for when it fails.
DoWrite(t) ==
  /\ proc = "up" /\ ~Waiting(t) /\ stage[run[t]] = "writing"
  /\ stage' = [stage EXCEPT ![run[t]] = "closed"]
  /\ run' = [run EXCEPT ![t] = None]
  /\ UNCHANGED <<proc, acceptor, asked, got, reply, gone, clobbered, statistics, due, seen>>

\* Slip: the pool also waits until every socket is closed.
ExitWhenClosed ==
  /\ proc = "up" /\ acceptor = "off" /\ Work = {} /\ OpenFds = {}
  /\ \A t \in Threads : Waiting(t)
  /\ proc' = "exited"
  /\ UNCHANGED <<acceptor, stage, asked, got, reply, run, gone, clobbered, statistics, due, seen>>

\* io_service::run returns on every thread once no work is left; Server::run
\* joins the threads and main returns.
Exit ==
  /\ proc = "up" /\ acceptor = "off" /\ Work = {}
  /\ \A t \in Threads : Waiting(t)
  /\ proc' = "exited"
  /\ UNCHANGED <<acceptor, stage, asked, got, reply, run, gone, clobbered, statistics, due, seen>>

ThreadStep(t) == \/ DoAccept(t) \/ EndParse(t) \/ Handle(t)
                 \/ Throw(t) \/ BeginLog(t) \/ EndLog(t) \/ DoWrite(t)
                 \/ \E c \in Clients : BeginRead(t, c)
                 \/ \E o \in Threads : TornMap(t, o)

Next == \/ \E c \in Clients : \/ Connect(c) \/ HangUp(c) \/ EndOfInput(c) \/ CompleteAccept(c)
                              \/ \E r \in Requests : Send(c, r)
        \/ \E t \in Threads : ThreadStep(t)
        \/ Exit

Spec == Init /\ [][Next]_vars

\* The scheduler runs every thread, the kernel reports what is pending; the
\* clients owe nothing.
Fairness == /\ \A t \in Threads : WF_vars(ThreadStep(t))
            /\ WF_vars(\E c \in Clients : CompleteAccept(c))
            /\ \A c \in Clients : WF_vars(EndOfInput(c))
            /\ WF_vars(Exit)

FairSpec == Spec /\ Fairness
-----------------------------------------------------------------------------
(* The state of the acceptor, of the sessions and of the pool.             *)
TypeOK ==
  /\ proc \in {"up", "crashed", "exited"}
  /\ acceptor \in {"armed", "accepted", "failed", "off"}
  /\ stage \in [Clients -> Stages]
  /\ asked \in [Clients -> Kinds \cup {None}]
  /\ got \in [Clients -> Kinds \cup {None}]
  /\ reply \in [Clients -> Nat \cup {None}]
  /\ run \in [Threads -> Clients \cup {None}]
  /\ gone \subseteq Clients
  /\ clobbered \subseteq Clients
  /\ logged \subseteq Clients
  /\ counted \subseteq Clients
  /\ noted \in [Threads -> SUBSET Clients]
  /\ raced \subseteq Clients
  /\ due \in [Clients -> SUBSET Clients]
  /\ seen \in [Clients -> SUBSET Clients]

(* A Session has no lock: what keeps stream_buffer_ and socket_ safe is    *)
(* that at most one thread ever executes do_read of a given session, and   *)
(* that a session in the middle of do_read is on some thread               *)
(* (server.cc:42-97).                                                      *)
SessionOnOneThread ==
  /\ \A t, o \in Threads : t # o /\ run[t] # None => run[t] # run[o]
  /\ \A c \in Clients : stage[c] \in Running <=> \E t \in Threads : run[t] = c

\* The status that a client must find in the answer to each kind of request
\* that gets one; an unready handler fills in none.
Owed == [status |-> 200, page |-> 200, missing |-> 404, refused |-> 500]

(* A client whose parse ran beside no other gets the answer to the request *)
(* it sent, whatever the other sessions do meanwhile: the page, the        *)
(* handler's own 404, or a 500 in place of a response to a bad request. It *)
(* is never one to a request that throws, blocks or is malformed           *)
(* (server.cc:47-97).                                                      *)
AnswerFitsRequest ==
  \A c \in Clients : stage[c] = "closed" /\ c \notin clobbered =>
    \/ asked[c] \in DOMAIN Owed /\ reply[c] = Owed[asked[c]]
    \/ asked[c] = "unready" /\ reply[c] = Unset

(* The status page counts every request whose answer had been delivered    *)
(* before the page was asked for, unless its LogIncomingRequest ran beside *)
(* another one, and does not count the request for the page itself:        *)
(* LogIncomingRequest comes before do_write (server.cc:75-95) and after    *)
(* HandleRequest, and its unlocked stores (server.cc:158-170) undo only    *)
(* those that they overlap with, even while the page is being copied.      *)
StatusCountsTheAnswered ==
  \A c \in Clients : got[c] = Status /\ stage[c] \in {"logging", "counting", "writing", "closed"} =>
    /\ c \notin seen[c]
    /\ due[c] \ raced \subseteq seen[c]

(* Every thread of the pool is inside a handler that never returns.        *)
PoolStuck == \A t \in Threads : /\ ~Waiting(t)
                                /\ stage[run[t]] = "handling"
                                /\ got[run[t]] = Endless

(* As long as one thread of the pool is left, a request whose handler      *)
(* returns is answered, even while other requests block for ever; this is  *)
(* the multithreading test of integration_test.py:50-73.                   *)
EventuallyAnswered ==
  \A c \in Clients :
    (stage[c] = "ready" /\ asked[c] \in DOMAIN Result)
      ~> (stage[c] = "closed" \/ c \in clobbered \/ proc # "up" \/ PoolStuck)

(* As long as one thread is left and no accept has failed, every client    *)
(* that connects is accepted: do_accept re-arms (server.cc:124-137).       *)
EventuallyAccepted ==
  \A c \in Clients :
    stage[c] = "backlog"
      ~> (stage[c] # "backlog" \/ acceptor = "off" \/ proc # "up" \/ PoolStuck)

(* A server that can accept no more, since one accept has failed, does not *)
(* stay up for ever accepting nobody: it ends on its own, sessions that it *)
(* has leaked notwithstanding, unless a client keeps a read pending or a   *)
(* handler never returns (server.cc:124-148).                              *)
FailedAcceptEndsServer ==
  acceptor = "off" ~> \/ proc # "up"
                      \/ \E c \in Clients : stage[c] = "reading" /\ c \notin gone
                      \/ \E c \in Clients : stage[c] = "handling" /\ got[c] = Endless

(* A connection as a client sees it.                                       *)
PhaseOf(c) == CASE stage[c] = "away" -> "away"
                [] stage[c] = "closed" -> "answered"
                [] stage[c] = "leaked" -> "abandoned"
                [] OTHER -> "waiting"

Promise == INSTANCE Service
             WITH phase <- [c \in Clients |-> PhaseOf(c)],
                  journal <- logged,
                  serving <- (proc = "up")

(* The threaded server implements the service it is for: each connection   *)
(* is answered at most once, after LogIncomingRequest has returned for it, *)
(* and for one that is dropped neither happens (server.cc:47-110).         *)
KeepsPromise == Promise!Spec
=============================================================================
