-------------------------------- MODULE Site --------------------------------
(***************************************************************************)
(* From the configuration file to the handler of a request: NginxConfig's  *)
(* find and findAll turn the file's statements into what WebServer starts  *)
(* from, and once the server listens, each request goes through Dispatch   *)
(* over the table that WebServer has filled.                               *)
(*                                                                         *)
(* After start-up nothing writes the table, and the loop's variables are   *)
(* locals of the thread: one thread that serves one request after another  *)
(* stands for all.                                                         *)
(***************************************************************************)
EXTENDS WebServer

CONSTANTS Char,  \* the characters of paths and URIs
          Nul,   \* the character a std::string has behind its last one
          Uris   \* the URIs that are requested

ASSUME SiteAssumption == /\ Nul \notin Char
                         /\ Paths \cup Uris \subseteq Seq(Char) \ {<<>>}

VARIABLES uri, todo, key, matched, best, handler,  \* as in Dispatch
          step                                     \* Dispatch's pc, or "idle"

lookup == <<uri, todo, key, matched, best, handler, step>>

\* The keys of HandlerMapping_.RequestHandlers.
Registered == {p \in Paths : table[p] # 0}

D == INSTANCE Dispatch WITH Strings <- Paths \cup Uris, table <- Registered, pc <- step
-----------------------------------------------------------------------------
(* A statement is [tokens, number, accepted]: what atoi makes of its       *)
(* second token, and whether the handler's Init accepts its block.         *)

FindAll(statements, word) == SelectSeq(statements, LAMBDA s : s.tokens[1] = word)

NotFound == [tokens |-> <<>>, number |-> 0, accepted |-> FALSE]

Find(statements, word) == IF FindAll(statements, word) = <<>> THEN NotFound
                          ELSE FindAll(statements, word)[1]

BlockOf(s) ==
  [tokens |-> Len(s.tokens), accepted |-> s.accepted,
   path  |-> IF Len(s.tokens) > 1 THEN s.tokens[2] ELSE CHOOSE p \in Paths : TRUE,
   class |-> IF Len(s.tokens) > 2 /\ s.tokens[3] \in Registry THEN s.tokens[3] ELSE Unknown]

\* What WebServer::Init asks of the root of the configuration.
ConfigOf(statements) ==
  LET port     == Find(statements, "port")
      paths    == FindAll(statements, "path")
      fallback == Find(statements, "default")
  IN  [syntax |-> TRUE, portTokens |-> Len(port.tokens), number |-> port.number,
       blocks |-> [i \in 1..Len(paths) |-> BlockOf(paths[i])],
       defaultTokens |-> Len(fallback.tokens),
       default |-> IF Len(fallback.tokens) > 1 /\ fallback.tokens[2] \in Registry
                     THEN fallback.tokens[2] ELSE Unknown]
-----------------------------------------------------------------------------
SiteInit == /\ Init
            /\ uri \in Uris
            /\ todo = {} /\ key = <<>> /\ matched = 0 /\ best = <<>>
            /\ handler = D!Default
            /\ step = "idle"

\* main, up to the moment when the server listens, and its end.
Start == Next /\ UNCHANGED lookup

\* Slip: best_key is a member that keeps the last request's key.
ReadRequestKeepsBest == /\ pc = "serving" /\ step \in {"idle", "done"}
                        /\ uri' \in Uris
                        /\ todo' = Registered
                        /\ key' = <<>> /\ matched' = 0
                        /\ handler' = D!Default
                        /\ step' = "next"
                        /\ UNCHANGED <<vars, best>>

\* do_read calls FindLongestHandlerKey with the URI of the parsed request.
ReadRequest == /\ pc = "serving" /\ step \in {"idle", "done"}
               /\ uri' \in Uris
               /\ todo' = Registered
               /\ key' = <<>> /\ matched' = 0 /\ best' = <<>>
               /\ handler' = D!Default
               /\ step' = "next"
               /\ UNCHANGED vars

Lookup == pc = "serving" /\ UNCHANGED vars /\ D!Next

SiteNext == Start \/ ReadRequest \/ Lookup

SiteSpec == SiteInit /\ [][SiteNext]_<<vars, lookup>>
-----------------------------------------------------------------------------
(* The request goes to the handler of the longest path in the table that   *)
(* is a prefix of its URI (request_handler.cc:18-30).                      *)
LongestPrefixServes == D!LongestPrefixServes

(* The comparison never looks beyond the URI's terminating NUL             *)
(* (request_handler.cc:21).                                                *)
StopsAtNul == D!StopsAtNul

ClassOf(h) == IF h = D!Default THEN default ELSE config.blocks[table[h]].class

Listed == {p \in Paths : names[p] # Unknown}

(* Who reads the status page knows who serves: the class named there for   *)
(* the longest listed path that the URI begins with, and the default class *)
(* if there is none, is the class of the handler that gets the request     *)
(* (webserver.cc:23-51 and 107, request_handler.cc:18-30, server.cc:59-72).*)
(* Only the default handler answers without an Init of its own.            *)
ServedAsListed ==
  step = "done" =>
    LET fitting == {p \in Listed : D!IsPrefixOf(p, uri)}
    IN  IF fitting = {} THEN ClassOf(handler) = default /\ default \in Registry
        ELSE \E p \in fitting : /\ \A q \in fitting : Len(q) <= Len(p)
                                /\ ClassOf(handler) = names[p]
                                /\ config.blocks[table[p]].accepted
=============================================================================
