----------------------------- MODULE WebServer -----------------------------
(***************************************************************************)
(* How the program starts (main.cc and server/webserver.cc): it reads the  *)
(* configuration, creates a handler for each path block and one for the    *)
(* rest, tries the port, gives it back, and binds it again to serve.  Each *)
(* stage may end the program.  Other programs take and give up ports at    *)
(* any time.                                                               *)
(***************************************************************************)
EXTENDS Integers, Sequences

CONSTANTS Paths,      \* the paths that blocks are for
          Registry,   \* the names under which handler classes are registered
          Unknown,    \* a name that is not registered
          Configs,    \* the configuration files
          Ephemeral   \* the port the kernel picks for port 0

\* Of a path block it matters how many tokens it has, whether its class is
\* registered, and whether the handler's Init accepts it; of a port or default
\* statement, also whether there is one (0 tokens: there is none).  number is
\* what atoi makes of the port, 0 for a word.
Block == [tokens : Nat, path : Paths, class : Registry \cup {Unknown}, accepted : BOOLEAN]

ConfigType == [syntax : BOOLEAN, portTokens : Nat, number : Int, blocks : Seq(Block),
               defaultTokens : Nat, default : Registry \cup {Unknown}]

MaxPort == 65535

ASSUME WebServerAssumption == /\ Configs \subseteq ConfigType
                              /\ Unknown \notin Registry
                              /\ Ephemeral \in 1..MaxPort

VARIABLES config,    \* the parsed file
          pc,        \* the stage of main the program is in
          next,      \* the path block to be added next
          table,     \* HandlerMapping_.RequestHandlers: the block of each path, or 0
          names,     \* status_.RequestHandlers_: the name shown for each path
          default,   \* the class of HandlerMapping_.DefaultHandler
          bound,     \* the port Server listens on
          other,     \* another program listens on the configured port
          code,      \* the exit status of main
          served     \* ghost: the server has begun to listen

vars == <<config, pc, next, table, names, default, bound, other, code, served>>

NoPort == -1

Init == /\ config \in Configs
        /\ pc = "parse"
        /\ next = 1
        /\ table = [p \in Paths |-> 0]
        /\ names = [p \in Paths |-> Unknown]
        /\ default = Unknown
        /\ bound = NoPort
        /\ other \in BOOLEAN
        /\ code = -1
        /\ served = FALSE

Return(status) == pc' = "exited" /\ code' = status

GoTo(stage) == pc' = stage /\ UNCHANGED code

ParseFile == /\ pc = "parse"
             /\ IF config.syntax THEN GoTo("port") ELSE Return(1)
             /\ UNCHANGED <<config, next, table, names, default, bound, other, served>>

CheckPort ==
  /\ pc = "port"
  /\ IF config.portTokens = 2 /\ config.number <= MaxPort THEN GoTo("blocks") ELSE Return(1)
  /\ UNCHANGED <<config, next, table, names, default, bound, other, served>>
-----------------------------------------------------------------------------
Usable(b) == b.class \in Registry /\ b.accepted

\* Slip: a later block for the same path replaces the earlier one.
RegisterLast(b, i) ==
  /\ table' = IF Usable(b) THEN [table EXCEPT ![b.path] = i] ELSE table
  /\ names' = IF Usable(b) THEN [names EXCEPT ![b.path] = b.class] ELSE names

\* Slip: the name is listed before the handler has accepted its block.
RegisterNameFirst(b, i) ==
  /\ table' = IF Usable(b) /\ table[b.path] = 0 THEN [table EXCEPT ![b.path] = i] ELSE table
  /\ names' = IF b.class \in Registry /\ names[b.path] = Unknown
                THEN [names EXCEPT ![b.path] = b.class] ELSE names

\* AddHandler: a block that is not usable, or whose path is taken, is passed
\* over; do_read and the status page learn of the others.
Register(b, i) ==
  /\ table' = IF Usable(b) /\ table[b.path] = 0 THEN [table EXCEPT ![b.path] = i] ELSE table
  /\ names' = IF Usable(b) /\ table[b.path] = 0 THEN [names EXCEPT ![b.path] = b.class] ELSE names

AddHandler ==
  /\ pc = "blocks" /\ next <= Len(config.blocks)
  /\ IF config.blocks[next].tokens = 3
       THEN /\ Register(config.blocks[next], next)
            /\ next' = next + 1
            /\ UNCHANGED <<pc, code>>
       ELSE Return(1) /\ UNCHANGED <<next, table, names>>
  /\ UNCHANGED <<config, default, bound, other, served>>

\* The default handler is created, and that is all: neither Init nor
\* InitStatus is called on it.
CreateDefault ==
  /\ pc = "blocks" /\ next > Len(config.blocks)
  /\ IF config.defaultTokens = 2 /\ config.default \in Registry
       THEN GoTo("probe") /\ default' = config.default
       ELSE Return(1) /\ UNCHANGED default
  /\ UNCHANGED <<config, next, table, names, bound, other, served>>
-----------------------------------------------------------------------------
\* (unsigned short)port_
Port == config.number % (MaxPort + 1)

Taken == other /\ Port # 0

\* port_valid binds the port and gives it back before Init returns.
PortValid == /\ pc = "probe"
             /\ IF Taken THEN Return(1) ELSE GoTo("run")
             /\ UNCHANGED <<config, next, table, names, default, bound, other, served>>

\* Slip: run_server reports success after an exception.
RunServerSwallows ==
  /\ pc = "run"
  /\ IF Taken THEN Return(0) /\ UNCHANGED <<bound, served>>
              ELSE /\ GoTo("serving") /\ served' = TRUE
                   /\ bound' = IF Port = 0 THEN Ephemeral ELSE Port
  /\ UNCHANGED <<config, next, table, names, default, other>>

\* The constructor of Server binds and listens, or throws; run_server catches
\* what it throws.
RunServer ==
  /\ pc = "run"
  /\ IF Taken THEN Return(1) /\ UNCHANGED <<bound, served>>
              ELSE /\ GoTo("serving") /\ served' = TRUE
                   /\ bound' = IF Port = 0 THEN Ephemeral ELSE Port
  /\ UNCHANGED <<config, next, table, names, default, other>>

\* Server::run returns (see Exit in Server).  When an exception on a thread of
\* the pool ends the process (Throw in Server), main does not return.
ServerEnds == /\ pc = "serving"
              /\ Return(0)
              /\ bound' = NoPort
              /\ UNCHANGED <<config, next, table, names, default, other, served>>

OtherProgram == /\ bound = NoPort
                /\ other' = ~other
                /\ UNCHANGED <<config, pc, next, table, names, default, bound, code, served>>

Next == \/ ParseFile \/ CheckPort \/ AddHandler \/ CreateDefault
        \/ PortValid \/ RunServer \/ ServerEnds \/ OtherProgram

Spec == Init /\ [][Next]_vars
-----------------------------------------------------------------------------
(* The members of WebServer and the stage of main.                         *)
TypeOK == /\ config \in ConfigType
          /\ pc \in {"parse", "port", "blocks", "probe", "run", "serving", "exited"}
          /\ next \in 1..(Len(config.blocks) + 1)
          /\ table \in [Paths -> 0..Len(config.blocks)]
          /\ names \in [Paths -> Registry \cup {Unknown}]
          /\ default \in Registry \cup {Unknown}
          /\ bound \in {NoPort} \cup 1..MaxPort
          /\ other \in BOOLEAN
          /\ code \in {-1, 0, 1}
          /\ served \in BOOLEAN

UsableFor(p, n) == {i \in 1..n : Usable(config.blocks[i]) /\ config.blocks[i].path = p}

(* When the server listens, each path has the handler of the first block   *)
(* for it that names a known class and that its Init accepted; the other   *)
(* blocks have left no trace.  "If the handler is not found, the block is  *)
(* ignored", README.md:53; webserver.cc:23-51 and 88-98.                   *)
FirstUsableBlockServes ==
  pc = "serving" =>
    \A p \in Paths : LET found == UsableFor(p, Len(config.blocks))
                     IN  IF found = {} THEN table[p] = 0
                         ELSE table[p] \in found /\ \A i \in found : table[p] <= i

(* The status page lists for every path the class that serves it, and no   *)
(* path that is not served: status_.RequestHandlers_ is kept apart from    *)
(* the table that do_read uses (webserver.cc:43-48).                       *)
StatusPageAgrees ==
  \A p \in Paths : names[p] = IF table[p] = 0 THEN Unknown ELSE config.blocks[table[p]].class

(* Whatever goes wrong at start-up, and also when another program takes    *)
(* the port after port_valid has found it free, the exit status says so:   *)
(* main returns 0 exactly after it has served (main.cc:17-28,              *)
(* webserver.cc:126-137).                                                  *)
FailureIsReported == pc = "exited" => code = IF served THEN 0 ELSE 1
=============================================================================
