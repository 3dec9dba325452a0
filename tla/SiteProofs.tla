----------------------------- MODULE SiteProofs -----------------------------
(***************************************************************************)
(* Theorems about WebServer, for every set of configurations and classes,  *)
(* and about Site, which puts Dispatch on top of it, for every alphabet,   *)
(* every set of paths and every URI.                                       *)
(***************************************************************************)
EXTENDS Site, TLAPS

(* What the blocks before next have left in the table.                     *)
TableOfPrefix ==
  \A p \in Paths : /\ table[p] # 0 => table[p] \in UsableFor(p, next - 1)
                   /\ \A i \in UsableFor(p, next - 1) : table[p] # 0 /\ table[p] <= i

(* From the creation of the default handler on, all blocks were seen.      *)
AllBlocksSeen == pc \in {"probe", "run", "serving"} => next = Len(config.blocks) + 1

CodeSoFar == /\ served <=> (pc = "serving" \/ (pc = "exited" /\ code = 0))
             /\ pc = "exited" => code \in {0, 1}

IInv == TypeOK /\ TableOfPrefix /\ AllBlocksSeen /\ StatusPageAgrees /\ CodeSoFar

LEMMA ConfigShape == ASSUME TypeOK
                     PROVE  /\ config.blocks \in Seq(Block)
                            /\ Len(config.blocks) \in Nat
                            /\ config.number \in Int
BY DEF TypeOK, ConfigType

LEMMA BlockAt == ASSUME NEW bs \in Seq(Block), NEW i \in 1..Len(bs)
                 PROVE  bs[i] \in Block
OBVIOUS

LEMMA BlockShape == ASSUME NEW b \in Block
                    PROVE  b.path \in Paths /\ b.class \in Registry \cup {Unknown}
BY DEF Block

LEMMA IInit == Init => IInv
<1> SUFFICES ASSUME Init
             PROVE  IInv
  OBVIOUS
<1>1. config \in ConfigType
  BY WebServerAssumption DEF Init
<1>2. config.blocks \in Seq(Block) /\ Len(config.blocks) \in Nat
  BY <1>1 DEF ConfigType
<1>3. TypeOK
  <2>1. 1 \in 1..(Len(config.blocks) + 1) /\ 0 \in 0..Len(config.blocks)
    BY <1>2
  <2> QED
    BY <1>1, <2>1 DEF Init, TypeOK
<1>4. \A p \in Paths : UsableFor(p, next - 1) = {}
  <2>1. 1..(next - 1) = {}
    BY DEF Init
  <2> QED
    BY <2>1 DEF UsableFor
<1> QED
  BY <1>3, <1>4 DEF Init, IInv, TableOfPrefix, AllBlocksSeen, StatusPageAgrees, CodeSoFar

LEMMA AddHandlerKeeps == ASSUME IInv, AddHandler
                         PROVE  IInv'
<1>0. TypeOK /\ TableOfPrefix /\ StatusPageAgrees /\ CodeSoFar
  BY DEF IInv
<1>1. /\ pc = "blocks" /\ next <= Len(config.blocks)
      /\ UNCHANGED <<config, default, bound, other, served>>
  BY DEF AddHandler
<1>2. /\ config.blocks \in Seq(Block) /\ Len(config.blocks) \in Nat
      /\ next \in 1..Len(config.blocks) /\ next \in Nat \ {0}
  BY <1>0, <1>1, ConfigShape DEF TypeOK
<1>3. PICK b \in Block : b = config.blocks[next]
  BY <1>2, BlockAt
<1>3a. b.path \in Paths /\ b.class \in Registry \cup {Unknown}
  BY BlockShape
<1>4. CASE b.tokens # 3
  <2>1. /\ pc' = "exited" /\ code' = 1
        /\ UNCHANGED <<config, next, table, names, default, bound, other, served>>
    BY <1>1, <1>3, <1>4 DEF AddHandler, Return
  <2>2. TypeOK'
    BY <1>0, <2>1 DEF TypeOK
  <2>3. TableOfPrefix' /\ StatusPageAgrees'
    BY <1>0, <2>1 DEF TableOfPrefix, StatusPageAgrees, UsableFor
  <2>4. AllBlocksSeen' /\ CodeSoFar'
    BY <1>0, <1>1, <2>1 DEF AllBlocksSeen, CodeSoFar
  <2> QED
    BY <2>2, <2>3, <2>4 DEF IInv
<1>5. CASE b.tokens = 3
  <2>1. /\ Register(b, next) /\ next' = next + 1
        /\ UNCHANGED <<config, pc, default, bound, other, code, served>>
    BY <1>1, <1>3, <1>5 DEF AddHandler
  <2>2. \A p \in Paths : UsableFor(p, next - 1)' =
          UsableFor(p, next - 1) \cup (IF Usable(b) /\ b.path = p THEN {next} ELSE {})
    <3>1. 1..(next' - 1) = 1..(next - 1) \cup {next}
      BY <1>2, <2>1
    <3> QED
      BY <1>2, <1>3, <2>1, <3>1 DEF UsableFor
  <2>3. \A p \in Paths : \A i \in UsableFor(p, next - 1) : i \in 1..(next - 1)
    BY DEF UsableFor
  <2>4. TypeOK'
    <3>1. table' \in [Paths -> 0..Len(config.blocks)]
      BY <1>0, <1>2, <1>3a, <2>1 DEF TypeOK, Register
    <3>2. names' \in [Paths -> Registry \cup {Unknown}]
      BY <1>0, <1>2, <1>3a, <2>1 DEF TypeOK, Register
    <3> QED
      BY <1>0, <1>2, <2>1, <3>1, <3>2 DEF TypeOK
  <2>5. TableOfPrefix'
    <3> SUFFICES ASSUME NEW p \in Paths
                 PROVE  /\ table'[p] # 0 => table'[p] \in UsableFor(p, next - 1)'
                        /\ \A i \in UsableFor(p, next - 1)' :
                             table'[p] # 0 /\ table'[p] <= i
      BY DEF TableOfPrefix
    <3>0. /\ table[p] # 0 => table[p] \in UsableFor(p, next - 1)
          /\ \A i \in UsableFor(p, next - 1) : table[p] # 0 /\ table[p] <= i
          /\ table[p] \in Nat
      BY <1>0, <1>2 DEF TableOfPrefix, TypeOK
    <3>1. CASE Usable(b) /\ b.path = p
      <4>1. table'[p] = IF table[p] = 0 THEN next ELSE table[p]
        BY <1>0, <1>3a, <2>1, <3>1 DEF Register, TypeOK
      <4>2. UsableFor(p, next - 1)' = UsableFor(p, next - 1) \cup {next}
        BY <2>2, <3>1
      <4>3. table[p] # 0 => table[p] <= next
        BY <1>2, <2>3, <3>0
      <4> QED
        BY <1>2, <3>0, <4>1, <4>2, <4>3
    <3>2. CASE ~(Usable(b) /\ b.path = p)
      <4>1. table'[p] = table[p]
        BY <1>0, <1>3a, <2>1, <3>2 DEF Register, TypeOK
      <4>2. UsableFor(p, next - 1)' = UsableFor(p, next - 1)
        BY <2>2, <3>2
      <4> QED
        BY <3>0, <4>1, <4>2
    <3> QED
      BY <3>1, <3>2
  <2>6. StatusPageAgrees'
    <3> SUFFICES ASSUME NEW p \in Paths
                 PROVE  names'[p] = IF table'[p] = 0 THEN Unknown
                                    ELSE config.blocks[table'[p]].class
      BY <2>1 DEF StatusPageAgrees
    <3>1. names[p] = IF table[p] = 0 THEN Unknown ELSE config.blocks[table[p]].class
      BY <1>0 DEF StatusPageAgrees
    <3>2. CASE Usable(b) /\ b.path = p /\ table[p] = 0
      BY <1>0, <1>2, <1>3, <1>3a, <2>1, <3>2 DEF Register, TypeOK
    <3>3. CASE ~(Usable(b) /\ b.path = p /\ table[p] = 0)
      BY <1>0, <1>3a, <2>1, <3>1, <3>3 DEF Register, TypeOK
    <3> QED
      BY <3>2, <3>3
  <2>7. AllBlocksSeen' /\ CodeSoFar'
    BY <1>0, <1>1, <2>1 DEF AllBlocksSeen, CodeSoFar
  <2> QED
    BY <2>4, <2>5, <2>6, <2>7 DEF IInv
<1> QED
  BY <1>4, <1>5

(* The steps that add no handler leave the table and the names alone.      *)
LEMMA TableKept == ASSUME IInv, UNCHANGED <<config, next, table, names>>
                   PROVE  TableOfPrefix' /\ StatusPageAgrees'
<1>1. TableOfPrefix'
  BY DEF IInv, TableOfPrefix, UsableFor
<1>2. StatusPageAgrees'
  BY DEF IInv, StatusPageAgrees
<1> QED
  BY <1>1, <1>2

LEMMA PortRange == ASSUME TypeOK
                   PROVE  Port \in 0..MaxPort
<1>1. config.number \in Int
  BY ConfigShape
<1>2. \A n \in Int : \A m \in Nat : n % (m + 1) \in 0..m
  OBVIOUS
<1>3. MaxPort \in Nat
  BY DEF MaxPort
<1> QED
  BY <1>1, <1>2, <1>3 DEF Port

LEMMA IInvNext == IInv /\ [Next]_vars => IInv'
<1> SUFFICES ASSUME IInv, [Next]_vars
             PROVE  IInv'
  OBVIOUS
<1>0. TypeOK /\ AllBlocksSeen /\ CodeSoFar
  BY DEF IInv
<1>1. CASE ParseFile \/ CheckPort
  <2>1. /\ UNCHANGED <<config, next, table, names, default, bound, other, served>>
        /\ pc \in {"parse", "port"}
        /\ \/ pc' \in {"port", "blocks"} /\ code' = code
           \/ pc' = "exited" /\ code' = 1
    BY <1>1 DEF ParseFile, CheckPort, GoTo, Return
  <2>2. TypeOK'
    BY <1>0, <2>1 DEF TypeOK
  <2>3. AllBlocksSeen' /\ CodeSoFar'
    BY <1>0, <2>1 DEF AllBlocksSeen, CodeSoFar
  <2> QED
    BY <2>1, <2>2, <2>3, TableKept DEF IInv
<1>2. CASE AddHandler
  BY <1>2, AddHandlerKeeps
<1>3. CASE CreateDefault
  <2>1. /\ UNCHANGED <<config, next, table, names, bound, other, served>>
        /\ pc = "blocks" /\ next > Len(config.blocks)
        /\ default' \in Registry \cup {Unknown}
        /\ \/ pc' = "probe" /\ code' = code
           \/ pc' = "exited" /\ code' = 1
    BY <1>0, <1>3 DEF CreateDefault, GoTo, Return, TypeOK
  <2>2. TypeOK'
    BY <1>0, <2>1 DEF TypeOK
  <2>3. next = Len(config.blocks) + 1
    BY <1>0, <2>1, ConfigShape DEF TypeOK
  <2>4. AllBlocksSeen' /\ CodeSoFar'
    BY <1>0, <2>1, <2>3 DEF AllBlocksSeen, CodeSoFar
  <2> QED
    BY <2>1, <2>2, <2>4, TableKept DEF IInv
<1>4. CASE PortValid
  <2>1. /\ UNCHANGED <<config, next, table, names, default, bound, other, served>>
        /\ pc = "probe"
        /\ \/ pc' = "run" /\ code' = code
           \/ pc' = "exited" /\ code' = 1
    BY <1>4 DEF PortValid, GoTo, Return
  <2>2. TypeOK'
    BY <1>0, <2>1 DEF TypeOK
  <2>3. AllBlocksSeen' /\ CodeSoFar'
    BY <1>0, <2>1 DEF AllBlocksSeen, CodeSoFar
  <2> QED
    BY <2>1, <2>2, <2>3, TableKept DEF IInv
<1>5. CASE RunServer
  <2>1. /\ UNCHANGED <<config, next, table, names, default, other>>
        /\ pc = "run"
        /\ \/ /\ pc' = "serving" /\ code' = code /\ served' = TRUE
              /\ bound' = IF Port = 0 THEN Ephemeral ELSE Port
           \/ pc' = "exited" /\ code' = 1 /\ UNCHANGED <<bound, served>>
    BY <1>5 DEF RunServer, GoTo, Return
  <2>2. bound' \in {NoPort} \cup 1..MaxPort
    BY <1>0, <2>1, PortRange, WebServerAssumption DEF TypeOK
  <2>3. TypeOK'
    BY <1>0, <2>1, <2>2 DEF TypeOK
  <2>4. AllBlocksSeen' /\ CodeSoFar'
    BY <1>0, <2>1 DEF AllBlocksSeen, CodeSoFar
  <2> QED
    BY <2>1, <2>3, <2>4, TableKept DEF IInv
<1>6. CASE ServerEnds
  <2>1. /\ UNCHANGED <<config, next, table, names, default, other, served>>
        /\ pc = "serving" /\ pc' = "exited" /\ code' = 0 /\ bound' = NoPort
    BY <1>6 DEF ServerEnds, Return
  <2>2. TypeOK'
    BY <1>0, <2>1 DEF TypeOK
  <2>3. AllBlocksSeen' /\ CodeSoFar'
    BY <1>0, <2>1 DEF AllBlocksSeen, CodeSoFar
  <2> QED
    BY <2>1, <2>2, <2>3, TableKept DEF IInv
<1>7. CASE OtherProgram \/ UNCHANGED vars
  <2>1. /\ UNCHANGED <<config, pc, next, table, names, default, bound, code, served>>
        /\ other' \in BOOLEAN
    BY <1>0, <1>7 DEF OtherProgram, vars, TypeOK
  <2>2. TypeOK'
    BY <1>0, <2>1 DEF TypeOK
  <2>3. AllBlocksSeen' /\ CodeSoFar'
    BY <1>0, <2>1 DEF AllBlocksSeen, CodeSoFar
  <2> QED
    BY <2>1, <2>2, <2>3, TableKept DEF IInv
<1> QED
  BY <1>1, <1>2, <1>3, <1>4, <1>5, <1>6, <1>7 DEF Next

LEMMA IInvHolds == Spec => []IInv
  BY IInit, IInvNext, PTL DEF Spec

(* The members of WebServer keep their type (webserver.h:19-34).           *)
THEOREM TypeCorrect == Spec => []TypeOK
<1>1. IInv => TypeOK
  BY DEF IInv
<1> QED
  BY IInvHolds, <1>1, PTL

(* For every configuration, each path is served by the first usable block  *)
(* for it (webserver.cc:23-51 and 88-98).                                  *)
THEOREM FirstUsableBlockServesHolds == Spec => []FirstUsableBlockServes
<1>1. IInv => FirstUsableBlockServes
  <2> SUFFICES ASSUME IInv, pc = "serving", NEW p \in Paths
               PROVE  IF UsableFor(p, Len(config.blocks)) = {} THEN table[p] = 0
                      ELSE /\ table[p] \in UsableFor(p, Len(config.blocks))
                           /\ \A i \in UsableFor(p, Len(config.blocks)) : table[p] <= i
    BY DEF FirstUsableBlockServes
  <2>1. next - 1 = Len(config.blocks)
    BY ConfigShape DEF IInv, AllBlocksSeen
  <2> QED
    BY <2>1 DEF IInv, TableOfPrefix
<1> QED
  BY IInvHolds, <1>1, PTL

(* For every configuration, the status page names for each path the class  *)
(* that serves it (webserver.cc:43-48).                                    *)
THEOREM StatusPageAgreesHolds == Spec => []StatusPageAgrees
<1>1. IInv => StatusPageAgrees
  BY DEF IInv
<1> QED
  BY IInvHolds, <1>1, PTL

(* main returns 0 exactly after it has served, whatever other programs do  *)
(* with the port meanwhile (main.cc:17-28).                                *)
THEOREM FailureIsReportedHolds == Spec => []FailureIsReported
<1>1. IInv => FailureIsReported
  BY DEF IInv, CodeSoFar, FailureIsReported
<1> QED
  BY IInvHolds, <1>1, PTL
-----------------------------------------------------------------------------
(* Site, the loop of Dispatch first: it runs on a table that stands still  *)
(* once requests are read.                                                 *)

\* The keys that have been compared to the end.
Compared(k) == k \in Registered /\ k \notin todo /\ (step = "compare" => k # key)

(* The part of the key behind the cursor equals the URI; best_key is a     *)
(* matching path no shorter than any other that has been compared.         *)
LoopSoFar == /\ step = "compare" => key \in Registered
             /\ step = "compare" => matched <= Len(uri)
             /\ step = "compare" => \A i \in 1..matched : key[i] = uri[i]
             /\ best # <<>> => best \in Registered /\ D!IsPrefixOf(best, uri)
             /\ \A k \in Registered : Compared(k) /\ D!IsPrefixOf(k, uri) => Len(k) <= Len(best)
             /\ step = "done" => todo = {} /\ handler = best

LoopInv == D!TypeOK /\ LoopSoFar

LEMMA UriIsSeq == ASSUME D!TypeOK
                  PROVE  uri \in Seq(Char) /\ Registered \subseteq Seq(Char)
  BY SiteAssumption DEF D!TypeOK

LEMMA LoopNext == ASSUME LoopInv, [D!Next]_(D!vars)
                 PROVE  LoopInv'
<1>0. D!TypeOK /\ LoopSoFar /\ uri \in Seq(Char) /\ Registered \subseteq Seq(Char)
  BY UriIsSeq DEF LoopInv
<1> USE <1>0 DEF D!TypeOK
<1>1. ASSUME NEW k \in Paths \cup Uris, D!Visit(k)
      PROVE  LoopInv'
  <2>1. k \in Registered /\ k \in Seq(Char)
    BY <1>1 DEF D!Visit
  <2>2. D!TypeOK'
    BY <1>1, <2>1 DEF D!Visit
  <2>3. \A x \in Registered : Compared(x)' => Compared(x)
    BY <1>1, <2>1 DEF D!Visit, Compared
  <2>4. LoopSoFar'
    BY <1>1, <2>1, <2>3 DEF D!Visit, LoopSoFar, D!IsPrefixOf
  <2> QED
    BY <2>2, <2>4 DEF LoopInv
<1>2. CASE D!Match
  <2>1. key[matched + 1] \in Char
    BY <1>2 DEF D!Match
  <2>2. matched + 1 <= Len(uri) /\ key[matched + 1] = uri[matched + 1]
    BY <1>2, <2>1, SiteAssumption DEF D!Match, D!UriAt
  <2>3. D!TypeOK'
    BY <1>2 DEF D!Match
  <2>4. \A i \in 1..matched' : key[i] = uri[i]
    BY <1>2, <2>2 DEF D!Match, LoopSoFar
  <2>5. \A x \in Registered : Compared(x)' = Compared(x)
    BY <1>2 DEF D!Match, Compared
  <2>6. LoopSoFar'
    BY <1>2, <2>2, <2>4, <2>5 DEF D!Match, LoopSoFar, D!IsPrefixOf
  <2> QED
    BY <2>3, <2>6 DEF LoopInv
<1>3. CASE D!Mismatch
  <2>1. ~D!IsPrefixOf(key, uri)
    BY <1>3 DEF D!Mismatch, D!IsPrefixOf, D!UriAt
  <2>2. \A x \in Registered : Compared(x)' => Compared(x) \/ x = key
    BY <1>3 DEF D!Mismatch, Compared
  <2>3. LoopSoFar'
    BY <1>3, <2>1, <2>2 DEF D!Mismatch, LoopSoFar, D!IsPrefixOf
  <2>4. D!TypeOK'
    BY <1>3 DEF D!Mismatch
  <2> QED
    BY <2>3, <2>4 DEF LoopInv
<1>4. CASE D!WholeKey
  <2>1. key \in Registered /\ D!IsPrefixOf(key, uri)
    BY <1>4 DEF D!WholeKey, LoopSoFar, D!IsPrefixOf
  <2>2. Len(best) <= Len(best') /\ Len(key) <= Len(best') /\ best' \in {key, best}
    BY <1>4 DEF D!WholeKey, D!Longer
  <2>3. \A x \in Registered : Compared(x)' => Compared(x) \/ x = key
    BY <1>4 DEF D!WholeKey, Compared
  <2>4. \A x \in Registered : Compared(x)' /\ D!IsPrefixOf(x, uri) => Len(x) <= Len(best')
    <3> SUFFICES ASSUME NEW x \in Registered, Compared(x)', D!IsPrefixOf(x, uri)
                 PROVE  Len(x) <= Len(best')
      OBVIOUS
    <3>1. x = key \/ Len(x) <= Len(best)
      BY <2>3 DEF LoopSoFar
    <3>2. Len(x) \in Nat /\ Len(best) \in Nat /\ Len(best') \in Nat
      BY <2>2
    <3> QED
      BY <2>2, <3>1, <3>2
  <2>5. LoopSoFar'
    BY <1>4, <2>1, <2>2, <2>4 DEF D!WholeKey, LoopSoFar, D!IsPrefixOf
  <2>6. D!TypeOK'
    BY <1>4, <2>2 DEF D!WholeKey
  <2> QED
    BY <2>5, <2>6 DEF LoopInv
<1>5. CASE D!Dispatched
  <2>1. handler' = best
    BY <1>5 DEF D!Dispatched, D!Default
  <2>2. \A x \in Registered : Compared(x)' = Compared(x)
    BY <1>5 DEF D!Dispatched, Compared
  <2>3. LoopSoFar'
    BY <1>5, <2>1, <2>2 DEF D!Dispatched, LoopSoFar, D!IsPrefixOf
  <2>4. D!TypeOK'
    BY <1>5, <2>1 DEF D!Dispatched
  <2> QED
    BY <2>3, <2>4 DEF LoopInv
<1>6. CASE UNCHANGED D!vars
  <2>1. \A x \in Registered : Compared(x)' = Compared(x)
    BY <1>6 DEF D!vars, Compared
  <2> QED
    BY <1>6, <2>1 DEF D!vars, LoopInv, LoopSoFar, D!IsPrefixOf
<1> QED
  BY <1>1, <1>2, <1>3, <1>4, <1>5, <1>6 DEF D!Next

RequestsAfterStart == step # "idle" => pc \in {"serving", "exited"}

DefaultRegistered == pc \in {"probe", "run", "serving"} \/ step # "idle" => default \in Registry

LookupInv == uri \in Uris /\ (step # "idle" => LoopInv)

SInv == IInv /\ RequestsAfterStart /\ DefaultRegistered /\ LookupInv

LEMMA SInit == SiteInit => SInv
BY IInit DEF SiteInit, SInv, Init, RequestsAfterStart, DefaultRegistered, LookupInv

\* A step of main leaves the loop alone; once there are requests, the table too.
LEMMA StartKeeps == ASSUME SInv, Start
                    PROVE  SInv'
<1>1. IInv'
  BY IInvNext DEF Start, SInv
<1>2. ASSUME step # "idle"
      PROVE  UNCHANGED <<table, default>> /\ pc' \in {"serving", "exited"}
  <2>1. pc \in {"serving", "exited"}
    BY <1>2 DEF SInv, RequestsAfterStart
  <2> QED
    BY <2>1 DEF Start, Next, ParseFile, CheckPort, AddHandler, CreateDefault, PortValid,
                RunServer, ServerEnds, OtherProgram, Return
<1>3. RequestsAfterStart'
  BY <1>2 DEF Start, lookup, RequestsAfterStart
<1>4. DefaultRegistered'
  <2>1. CASE step # "idle"
    BY <1>2, <2>1 DEF SInv, DefaultRegistered
  <2>2. CASE step = "idle"
    BY <2>2 DEF SInv, DefaultRegistered, Start, lookup, Next, ParseFile, CheckPort, AddHandler,
                CreateDefault, PortValid, RunServer, ServerEnds, OtherProgram, Return, GoTo
  <2> QED
    BY <2>1, <2>2
<1>5. LookupInv'
  <2>1. CASE step = "idle"
    BY <2>1 DEF SInv, LookupInv, Start, lookup
  <2>2. CASE step # "idle"
    <3>1. UNCHANGED D!vars
      BY <1>2, <2>2 DEF Start, lookup, Registered, D!vars
    <3>2. LoopInv'
      BY <2>2, <3>1, LoopNext DEF SInv, LookupInv
    <3> QED
      BY <3>2 DEF SInv, LookupInv, Start, lookup
  <2> QED
    BY <2>1, <2>2
<1> QED
  BY <1>1, <1>3, <1>4, <1>5 DEF SInv

LEMMA ReadKeeps == ASSUME SInv, ReadRequest
                   PROVE  SInv'
<1>1. IInv'
  BY IInvNext DEF ReadRequest, SInv
<1>2. UNCHANGED Registered
  BY DEF ReadRequest, vars, Registered
<1>3. D!TypeOK'
  <2>1. <<>> \in Seq(Char) /\ Len(<<>>) = 0
    OBVIOUS
  <2> QED
    BY <1>2, <2>1 DEF ReadRequest, D!TypeOK, D!Default, Registered
<1>4. LoopInv'
  BY <1>2, <1>3 DEF ReadRequest, LoopInv, LoopSoFar, Compared
<1> QED
  BY <1>1, <1>4 DEF ReadRequest, vars, SInv, RequestsAfterStart, DefaultRegistered, LookupInv

LEMMA LookupKeeps == ASSUME SInv, Lookup
                     PROVE  SInv'
<1>1. IInv'
  BY IInvNext DEF Lookup, SInv
<1>2. step # "idle" /\ step' # "idle" /\ uri' = uri
  BY DEF Lookup, D!Next, D!Visit, D!Match, D!Mismatch, D!WholeKey, D!Dispatched
<1>3. LoopInv'
  <2>1. D!Next
    BY DEF Lookup
  <2> QED
    BY <1>2, <2>1, LoopNext DEF SInv, LookupInv
<1> QED
  BY <1>1, <1>2, <1>3 DEF Lookup, vars, SInv, RequestsAfterStart, DefaultRegistered, LookupInv

LEMMA SInvHolds == SiteSpec => []SInv
<1>1. SInv /\ [SiteNext]_<<vars, lookup>> => SInv'
  <2>1. SInv /\ UNCHANGED <<vars, lookup>> => SInv'
    <3> SUFFICES ASSUME SInv, UNCHANGED <<vars, lookup>>
                 PROVE  SInv'
      OBVIOUS
    <3>1. IInv'
      BY IInvNext DEF SInv
    <3>2. step # "idle" => LoopInv'
      <4>1. UNCHANGED D!vars
        BY DEF vars, lookup, Registered, D!vars
      <4> QED
        BY <4>1, LoopNext DEF SInv, LookupInv
    <3> QED
      BY <3>1, <3>2 DEF vars, lookup, SInv, RequestsAfterStart, DefaultRegistered, LookupInv
  <2> QED
    BY <2>1, StartKeeps, ReadKeeps, LookupKeeps DEF SiteNext
<1> QED
  BY <1>1, SInit, PTL DEF SiteSpec

(* Requests change nothing that main works on: what is proved of WebServer *)
(* above holds of Site (do_read only reads the table, server.cc:59-72).    *)
THEOREM SiteIsWebServer == SiteSpec => Spec
<1>1. SiteInit => Init
  BY DEF SiteInit
<1>2. [SiteNext]_<<vars, lookup>> => [Next]_vars
  BY DEF SiteNext, Start, ReadRequest, Lookup, vars
<1> QED
  BY <1>1, <1>2, PTL DEF SiteSpec, Spec

(* Whatever the configuration and the URI, the handler of the longest path *)
(* in the table that is a prefix of the URI gets the request, and the      *)
(* default handler if there is none (request_handler.cc:18-30).            *)
THEOREM LongestPathServesHolds == SiteSpec => []LongestPrefixServes
<1>1. SInv => LongestPrefixServes
  <2> SUFFICES ASSUME SInv, step = "done"
               PROVE  /\ handler # D!Default => handler \in Registered /\ D!IsPrefixOf(handler, uri)
                      /\ \A k \in Registered : D!IsPrefixOf(k, uri) => Len(k) <= Len(handler)
    BY DEF LongestPrefixServes, D!LongestPrefixServes
  <2>1. LoopInv
    BY DEF SInv, LookupInv
  <2>2. \A k \in Registered : Compared(k)
    BY <2>1 DEF LoopInv, LoopSoFar, Compared
  <2> QED
    BY <2>1, <2>2 DEF LoopInv, LoopSoFar, D!Default, D!IsPrefixOf
<1> QED
  BY <1>1, SInvHolds, PTL

(* Whatever the configuration and the URI, std::mismatch stops at the      *)
(* URI's terminating NUL (request_handler.cc:21).                          *)
THEOREM ComparisonStopsHolds == SiteSpec => []StopsAtNul
<1>1. SInv => StopsAtNul
  BY DEF SInv, LookupInv, LoopInv, LoopSoFar, StopsAtNul, D!StopsAtNul
<1> QED
  BY <1>1, SInvHolds, PTL

(* Whatever the configuration and the URI, do_read finds best_key in the   *)
(* map when it looks it up without a test (server.cc:69-71).               *)
THEOREM BestIsRegisteredHolds == SiteSpec => [](step # "idle" => D!BestIsRegistered)
<1>1. SInv => (step # "idle" => D!BestIsRegistered)
  BY DEF SInv, LookupInv, LoopInv, LoopSoFar, D!BestIsRegistered
<1> QED
  BY <1>1, SInvHolds, PTL

(* Whatever the configuration and the URI, the class that the status page  *)
(* names for the longest listed prefix of the URI, or else the default     *)
(* class, serves the request (webserver.cc:23-51, server.cc:59-72).        *)
THEOREM ServedAsListedHolds == SiteSpec => []ServedAsListed
<1>1. SInv /\ LongestPrefixServes => ServedAsListed
  <2> SUFFICES ASSUME SInv, LongestPrefixServes, step = "done"
               PROVE  LET fitting == {p \in Listed : D!IsPrefixOf(p, uri)}
                      IN  IF fitting = {} THEN ClassOf(handler) = default /\ default \in Registry
                          ELSE \E p \in fitting :
                                 /\ \A q \in fitting : Len(q) <= Len(p)
                                 /\ ClassOf(handler) = names[p]
                                 /\ config.blocks[table[p]].accepted
    BY DEF ServedAsListed
  <2> DEFINE fitting == {p \in Listed : D!IsPrefixOf(p, uri)}
  <2>1. /\ handler # D!Default => handler \in Registered /\ D!IsPrefixOf(handler, uri)
        /\ \A k \in Registered : D!IsPrefixOf(k, uri) => Len(k) <= Len(handler)
    BY DEF LongestPrefixServes, D!LongestPrefixServes
  <2>2. \A p \in Registered : Usable(config.blocks[table[p]])
    BY DEF SInv, IInv, TableOfPrefix, UsableFor, Registered
  <2>3. Listed = Registered /\ \A p \in Registered : names[p] = config.blocks[table[p]].class
    BY <2>2, WebServerAssumption DEF SInv, IInv, StatusPageAgrees, Listed, Registered, Usable
  <2>4. CASE fitting = {}
    <3>1. handler = D!Default
      BY <2>1, <2>3, <2>4
    <3> QED
      BY <2>4, <3>1 DEF ClassOf, SInv, DefaultRegistered
  <2>5. CASE fitting # {}
    <3>1. PICK q \in fitting : TRUE
      BY <2>5
    <3>2. q \in Seq(Char) /\ q # <<>> /\ Len(q) <= Len(handler)
      BY <2>1, <2>3, <3>1, SiteAssumption DEF Registered
    <3>3. handler # D!Default
      BY <3>2 DEF D!Default
    <3>4. handler \in fitting /\ ClassOf(handler) = names[handler]
      BY <2>1, <2>3, <3>3 DEF ClassOf
    <3> QED
      BY <2>1, <2>2, <2>3, <2>5, <3>4 DEF Usable
  <2> QED
    BY <2>4, <2>5
<1> QED
  BY <1>1, SInvHolds, LongestPathServesHolds, PTL
=============================================================================
