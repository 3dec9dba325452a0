-------------------------- MODULE ServerStatusProofs --------------------------
(***************************************************************************)
(* Theorems about ServerStatus, for any set of threads, any URLs and codes *)
(* and any number of calls.                                                *)
(***************************************************************************)
EXTENDS ServerStatus, FiniteSetTheorems, TLAPS

(* A thread that has read the counter it updates has read a value that was *)
(* true then, and the number of ended updates has not gone down since.     *)
HeldIsOld == \A t \in Threads :
  HasRead(t) => /\ plan[t] # <<>>
                /\ held[t].value \in Nat
                /\ held[t].value <= stored[Head(plan[t])]

BoundInv == TypeOK /\ HeldIsOld /\ NeverOvercounted

LEMMA BoundInit == Init => BoundInv
<1> SUFFICES ASSUME Init
             PROVE  BoundInv
  OBVIOUS
<1>1. NothingRead \in [value : Nat \cup {-1}, keys : SUBSET Counters]
  BY DEF NothingRead
<1>2. TypeOK
  <2>1. plan \in [Threads -> Seq(Counters)]
    BY DEF Init
  <2>2. held \in [Threads -> [value : Nat \cup {-1}, keys : SUBSET Counters]]
    BY <1>1 DEF Init
  <2>3. page \in [Threads -> [Counters -> Nat]] /\ count \in [Counters -> Nat]
    BY DEF Init
  <2>4. left \in [Threads -> SUBSET Counters] /\ stored \in [Counters -> Nat]
    BY DEF Init
  <2>5. up \in BOOLEAN /\ overlapped \in BOOLEAN /\ begun \in Nat
    BY DEF Init
  <2> QED
    BY <2>1, <2>2, <2>3, <2>4, <2>5 DEF TypeOK
<1>3. HeldIsOld
  BY DEF Init, HeldIsOld, HasRead, NothingRead
<1>4. NeverOvercounted
  BY DEF Init, NeverOvercounted
<1> QED
  BY <1>2, <1>3, <1>4 DEF BoundInv

LEMMA TypeNext == TypeOK /\ HeldIsOld /\ [Next]_vars => TypeOK'
<1> SUFFICES ASSUME TypeOK, HeldIsOld, [Next]_vars
             PROVE  TypeOK'
  OBVIOUS
<1> USE CountersAssumption DEF TypeOK
<1>1. ASSUME NEW t \in Threads, NEW url \in Urls, NEW code \in Codes,
             LogIncomingRequest(t, url, code)
      PROVE  TypeOK'
  <2>1. Updates(url, code) \in Seq(Counters)
    BY DEF Updates, Counters
  <2> QED
    BY <1>1, <2>1 DEF LogIncomingRequest
<1>2. ASSUME NEW t \in Threads, Load(t)
      PROVE  TypeOK'
  <2>1. Head(plan[t]) \in Counters
    BY <1>2 DEF Load
  <2>2. [value |-> count[Head(plan[t])], keys |-> {k \in Counters : count[k] # 0}]
          \in [value : Nat \cup {-1}, keys : SUBSET Counters]
    BY <2>1
  <2> QED
    BY <1>2, <2>2 DEF Load
<1>3. ASSUME NEW t \in Threads, Store(t)
      PROVE  TypeOK'
  <2>1. /\ Head(plan[t]) \in Counters
        /\ Tail(plan[t]) \in Seq(Counters)
        /\ held[t].value \in Nat
    BY <1>3 DEF Store, HeldIsOld
  <2>2. PICK gone \in SUBSET RacedInserts(t) :
          count' = [k \in Counters |-> IF k = Head(plan[t]) THEN Bumped(held[t].value)
                                       ELSE IF k \in gone THEN 0 ELSE count[k]]
    BY <1>3 DEF Store
  <2>4. count' \in [Counters -> Nat]
    BY <2>1, <2>2 DEF Bumped
  <2>3. NothingRead \in [value : Nat \cup {-1}, keys : SUBSET Counters]
    BY DEF NothingRead
  <2> QED
    BY <1>3, <2>1, <2>3, <2>4 DEF Store
<1>4. ASSUME NEW t \in Threads, GetStatus(t)
      PROVE  TypeOK'
  BY <1>4 DEF GetStatus
<1>5. ASSUME NEW t \in Threads, NEW c \in Counters, Copy(t, c)
      PROVE  TypeOK'
  BY <1>5 DEF Copy
<1>6. ASSUME NEW t \in Threads, NEW o \in Threads, NEW c \in Codes \cup Urls, Fault(t, o, c)
      PROVE  TypeOK'
  BY <1>6 DEF Fault
<1>7. CASE UNCHANGED vars
  BY <1>7 DEF vars
<1> QED
  BY <1>1, <1>2, <1>3, <1>4, <1>5, <1>6, <1>7 DEF Next

LEMMA BoundNext == BoundInv /\ [Next]_vars => BoundInv'
<1> SUFFICES ASSUME BoundInv, [Next]_vars
             PROVE  HeldIsOld' /\ NeverOvercounted'
  BY TypeNext DEF BoundInv
<1>0. TypeOK'
  BY TypeNext DEF BoundInv
<1> USE CountersAssumption DEF BoundInv, TypeOK, HeldIsOld, NeverOvercounted, HasRead
<1>1. ASSUME NEW t \in Threads, NEW url \in Urls, NEW code \in Codes,
             LogIncomingRequest(t, url, code)
      PROVE  HeldIsOld' /\ NeverOvercounted'
  <2>1. ~HasRead(t)
    BY <1>1 DEF LogIncomingRequest, Idle
  <2> QED
    BY <1>1, <2>1 DEF LogIncomingRequest, Idle
<1>2. ASSUME NEW t \in Threads, Load(t)
      PROVE  HeldIsOld' /\ NeverOvercounted'
  <2>1. Head(plan[t]) \in Counters
    BY <1>2 DEF Load
  <2> QED
    BY <1>2, <2>1 DEF Load
<1>3. ASSUME NEW t \in Threads, Store(t)
      PROVE  HeldIsOld' /\ NeverOvercounted'
  <2> DEFINE c == Head(plan[t])
  <2>1. c \in Counters /\ held[t].value \in Nat /\ held[t].value <= stored[c]
    BY <1>3 DEF Store
  <2>2. \A k \in Counters : stored[k] <= stored'[k]
    BY <1>3, <2>1 DEF Store
  <2>3. stored'[c] = stored[c] + 1
    BY <1>3, <2>1 DEF Store
  <2>4. \A k \in Counters : count'[k] <= stored'[k]
    <3>1. PICK gone \in SUBSET RacedInserts(t) :
            count' = [k \in Counters |-> IF k = c THEN Bumped(held[t].value)
                                         ELSE IF k \in gone THEN 0 ELSE count[k]]
      BY <1>3 DEF Store
    <3>2. \A k \in Counters : stored[k] \in Nat /\ stored'[k] \in Nat
      BY <1>0
    <3> QED
      BY <2>1, <2>2, <2>3, <3>1, <3>2 DEF Bumped
  <2>5. HeldIsOld'
    <3>1. ASSUME NEW o \in Threads, HasRead(o)'
          PROVE  /\ plan'[o] # <<>>
                 /\ held'[o].value \in Nat
                 /\ held'[o].value <= stored'[Head(plan'[o])]
      <4>1. o # t
        BY <1>3, <3>1 DEF Store, NothingRead
      <4>2. held'[o] = held[o] /\ plan'[o] = plan[o]
        BY <1>3, <4>1 DEF Store
      <4>3. plan[o] # <<>> /\ held[o].value \in Nat /\ held[o].value <= stored[Head(plan[o])]
        BY <3>1, <4>2
      <4>4. Head(plan[o]) \in Counters
        BY <4>3
      <4>5. stored[Head(plan[o])] <= stored'[Head(plan[o])]
        BY <2>2, <4>4
      <4>6. stored[Head(plan[o])] \in Nat /\ stored'[Head(plan[o])] \in Nat
        BY <1>0, <4>4
      <4> QED
        BY <4>2, <4>3, <4>5, <4>6
    <3> QED
      BY <3>1
  <2>6. page' = page
    BY <1>3 DEF Store
  <2>7. \A o \in Threads, k \in Counters : page[o][k] \in Nat /\ stored[k] \in Nat /\ stored'[k] \in Nat
    BY <1>0
  <2> QED
    BY <2>2, <2>4, <2>5, <2>6, <2>7
<1>4. ASSUME NEW t \in Threads, GetStatus(t)
      PROVE  HeldIsOld' /\ NeverOvercounted'
  BY <1>4 DEF GetStatus
<1>5. ASSUME NEW t \in Threads, NEW c \in Counters, Copy(t, c)
      PROVE  HeldIsOld' /\ NeverOvercounted'
  BY <1>5 DEF Copy
<1>6. ASSUME NEW t \in Threads, NEW o \in Threads, NEW c \in Codes \cup Urls, Fault(t, o, c)
      PROVE  HeldIsOld' /\ NeverOvercounted'
  BY <1>6 DEF Fault
<1>7. CASE UNCHANGED vars
  BY <1>7 DEF vars
<1> QED
  BY <1>1, <1>2, <1>3, <1>4, <1>5, <1>6, <1>7 DEF Next

(* The state keeps its type: in particular a thread that has read a counter*)
(* is inside a call, whatever the other threads do (server.cc:154-170).    *)
THEOREM TypeCorrect == Spec => []TypeOK
<1>1. BoundInv => TypeOK
  BY DEF BoundInv
<1> QED
  BY BoundInit, BoundNext, <1>1, PTL DEF Spec

(* For every number of threads and calls, however the calls overlap, no    *)
(* counter and no status page shows more than has been logged              *)
(* (server.cc:158-170 and the copy made by GetStatus at server.cc:154-156).*)
THEOREM NeverOvercountedHolds == Spec => []NeverOvercounted
<1>1. BoundInv => NeverOvercounted
  BY DEF BoundInv
<1> QED
  BY BoundInit, BoundNext, <1>1, PTL DEF Spec

-----------------------------------------------------------------------------
(* While no two calls have overlapped, at most one thread is inside the    *)
(* object, and what it has read is the state of the object now.            *)
OneInside == \A t, o \in Threads : t # o => Idle(t) \/ Idle(o)

HeldIsCurrent == \A t \in Threads :
  HasRead(t) => /\ held[t].value = count[Head(plan[t])]
                /\ held[t].keys = {k \in Counters : count[k] # 0}

SerialInv == ~overlapped => (OneInside /\ HeldIsCurrent /\ SerialExact)

LEMMA SerialInit == Init => SerialInv
  BY DEF Init, SerialInv, OneInside, HeldIsCurrent, SerialExact, Idle, HasRead, NothingRead

(* A store displaces no node then.                                         *)
LEMMA StoreAddsOne ==
  ASSUME TypeOK, HeldIsCurrent, NEW t \in Threads, Store(t)
  PROVE  count' = [k \in Counters |-> IF k = Head(plan[t]) THEN count[k] + 1 ELSE count[k]]
<1> DEFINE c == Head(plan[t])
<1>1. c \in Counters /\ held[t].value = count[c]
  BY DEF TypeOK, Store, HeldIsCurrent
<1>2. RacedInserts(t) = {}
  BY <1>1 DEF TypeOK, Store, HeldIsCurrent, RacedInserts, MapOf, Counters
<1>3. PICK gone \in SUBSET RacedInserts(t) :
        count' = [k \in Counters |-> IF k = c THEN Bumped(held[t].value)
                                     ELSE IF k \in gone THEN 0 ELSE count[k]]
  BY DEF Store
<1> QED
  BY <1>1, <1>2, <1>3 DEF Bumped

LEMMA SerialNext == BoundInv /\ SerialInv /\ [Next]_vars => SerialInv'
<1> SUFFICES ASSUME BoundInv, SerialInv, [Next]_vars, ~overlapped'
             PROVE  (OneInside /\ HeldIsCurrent /\ SerialExact)'
  BY DEF SerialInv
<1>0. TypeOK /\ HeldIsOld /\ ~overlapped
  <2>1. overlapped \in BOOLEAN
    BY DEF BoundInv, TypeOK
  <2> QED
    BY <2>1 DEF BoundInv, Next, vars, LogIncomingRequest, Load, Store, GetStatus, Copy, Fault
<1>00. OneInside /\ HeldIsCurrent /\ count = stored
  BY <1>0 DEF SerialInv, SerialExact
<1> USE <1>0, <1>00 DEF TypeOK
<1>1. ASSUME NEW t \in Threads, NEW url \in Urls, NEW code \in Codes,
             LogIncomingRequest(t, url, code)
      PROVE  (OneInside /\ HeldIsCurrent /\ SerialExact)'
  <2>1. \A o \in Threads \ {t} : Idle(o)
    BY <1>1 DEF LogIncomingRequest, Alone
  <2>2. OneInside'
    BY <1>1, <2>1 DEF LogIncomingRequest, OneInside, Idle
  <2>3. HeldIsCurrent'
    <3>1. ~HasRead(t)
      BY <1>1 DEF LogIncomingRequest, Idle, HeldIsOld
    <3> QED
      BY <1>1, <3>1 DEF LogIncomingRequest, HeldIsCurrent, HasRead
  <2> QED
    BY <1>1, <2>2, <2>3 DEF LogIncomingRequest, SerialExact
<1>2. ASSUME NEW t \in Threads, Load(t)
      PROVE  (OneInside /\ HeldIsCurrent /\ SerialExact)'
  BY <1>2 DEF Load, OneInside, Idle, HeldIsCurrent, HasRead, SerialExact
<1>3. ASSUME NEW t \in Threads, Store(t)
      PROVE  (OneInside /\ HeldIsCurrent /\ SerialExact)'
  <2> DEFINE c == Head(plan[t])
  <2>1. \A o \in Threads \ {t} : Idle(o)
    BY <1>3 DEF Store, OneInside, Idle
  <2>2. c \in Counters /\ held[t].value = count[c]
    BY <1>3 DEF Store, HeldIsCurrent
  <2>4. count' = [k \in Counters |-> IF k = c THEN count[c] + 1 ELSE count[k]]
    BY <1>3, StoreAddsOne
  <2>5. count' = stored'
    BY <1>3, <2>2, <2>4 DEF Store
  <2>6. HeldIsCurrent'
    <3>1. \A o \in Threads : ~HasRead(o)'
      BY <1>3, <2>1 DEF Store, HasRead, NothingRead, HeldIsOld, Idle
    <3> QED
      BY <3>1 DEF HeldIsCurrent
  <2>7. OneInside'
    BY <1>3, <2>1 DEF Store, OneInside, Idle
  <2> QED
    BY <2>5, <2>6, <2>7 DEF SerialExact
<1>4. ASSUME NEW t \in Threads, GetStatus(t)
      PROVE  (OneInside /\ HeldIsCurrent /\ SerialExact)'
  <2>1. \A o \in Threads \ {t} : Idle(o)
    BY <1>4 DEF GetStatus, Alone
  <2> QED
    BY <1>4, <2>1 DEF GetStatus, OneInside, Idle, HeldIsCurrent, HasRead, SerialExact
<1>5. ASSUME NEW t \in Threads, NEW c \in Counters, Copy(t, c)
      PROVE  (OneInside /\ HeldIsCurrent /\ SerialExact)'
  BY <1>5 DEF Copy, OneInside, Idle, HeldIsCurrent, HasRead, SerialExact
<1>6. ASSUME NEW t \in Threads, NEW o \in Threads, NEW c \in Codes \cup Urls, Fault(t, o, c)
      PROVE  (OneInside /\ HeldIsCurrent /\ SerialExact)'
  BY <1>6 DEF Fault, OneInside, Idle, HeldIsCurrent, HasRead, SerialExact
<1>7. CASE UNCHANGED vars
  BY <1>7 DEF vars, OneInside, Idle, HeldIsCurrent, HasRead, SerialExact
<1> QED
  BY <1>1, <1>2, <1>3, <1>4, <1>5, <1>6, <1>7 DEF Next

(* As long as no two calls have overlapped, every counter is exact,        *)
(* whichever threads made the calls (what server_test.cc:12-36 tests).     *)
THEOREM SerialExactHolds == Spec => []SerialExact
<1>1. SerialInv => SerialExact
  BY DEF SerialInv, SerialExact
<1> QED
  BY BoundInit, BoundNext, SerialInit, SerialNext, <1>1, PTL DEF Spec
-----------------------------------------------------------------------------
(* Sums over finite sets, by induction: were the claim not true, it would  *)
(* fail for a set none of whose subsets it fails for.                      *)
LEMMA LeastSet ==
  ASSUME NEW S, IsFiniteSet(S), NEW Bad, Bad \subseteq SUBSET S, Bad # {}
  PROVE  \E T \in Bad : \A U \in Bad : U \subseteq T => U = T
<1>1. IsWellFoundedOn(StrictSubsetOrdering(S), SUBSET S)
  BY FS_StrictSubsetOrderingWellFounded, FS_FiniteSubsetsOfFinite
<1>2. PICK T \in Bad : \A U \in Bad : <<U, T>> \notin StrictSubsetOrdering(S)
  BY <1>1, WFMin
<1> QED
  BY <1>2 DEF StrictSubsetOrdering

\* g is the function by which SumOf adds up f over the subsets of S.
IsSum(g, f, S) ==
  g = [T \in SUBSET S |-> IF T = {} THEN 0
                          ELSE LET x == CHOOSE x \in T : TRUE IN f[x] + g[T \ {x}]]

Solved(f, S) == (CHOOSE g : IsSum(g, f, S))[S]

First(T) == CHOOSE x \in T : TRUE

LEMMA FirstIn == ASSUME NEW T, T # {} PROVE First(T) \in T
  BY DEF First

LEMMA SumUnfolds ==
  ASSUME NEW f, NEW S, NEW g, IsSum(g, f, S), NEW T \in SUBSET S
  PROVE  g[T] = IF T = {} THEN 0 ELSE f[First(T)] + g[T \ {First(T)}]
BY DEF IsSum, First

LEMMA SumFolds ==
  ASSUME NEW f, NEW S, NEW g, g = [T \in SUBSET S |-> g[T]],
         \A T \in SUBSET S : g[T] = IF T = {} THEN 0 ELSE f[First(T)] + g[T \ {First(T)}]
  PROVE  IsSum(g, f, S)
BY DEF IsSum, First

SameOn(f, h, S) == \A x \in S : f[x] = h[x]

LEMMA SumsAgree ==
  ASSUME NEW f, NEW h, NEW S, NEW T, NEW W, IsFiniteSet(W), W \subseteq S, W \subseteq T,
         NEW g, NEW k, IsSum(g, f, S), IsSum(k, h, T), SameOn(f, h, W)
  PROVE  g[W] = k[W]
<1> DEFINE Bad == {V \in SUBSET W : g[V] # k[V]}
<1> SUFFICES ASSUME Bad # {}
             PROVE  FALSE
  OBVIOUS
<1>1. PICK V \in Bad : \A U \in Bad : U \subseteq V => U = V
  <2>1. Bad \subseteq SUBSET W
    OBVIOUS
  <2> HIDE DEF Bad
  <2> QED
    BY <2>1, LeastSet
<1>2. /\ g[V] = IF V = {} THEN 0 ELSE f[First(V)] + g[V \ {First(V)}]
      /\ k[V] = IF V = {} THEN 0 ELSE h[First(V)] + k[V \ {First(V)}]
  <2>1. V \in SUBSET S /\ V \in SUBSET T
    OBVIOUS
  <2> QED
    BY <2>1, SumUnfolds
<1>3. V # {}
  BY <1>1, <1>2
<1>4. First(V) \in V
  BY <1>3, FirstIn
<1>5. V \ {First(V)} \notin Bad /\ V \ {First(V)} \in SUBSET W
  BY <1>1, <1>4
<1> QED
  BY <1>1, <1>2, <1>3, <1>4, <1>5 DEF SameOn

LEMMA SumExists ==
  ASSUME NEW f, NEW S, IsFiniteSet(S)
  PROVE  \E g : IsSum(g, f, S)
<1> DEFINE Bad == {T \in SUBSET S : ~\E g : IsSum(g, f, T)}
<1> SUFFICES ASSUME Bad # {}
             PROVE  FALSE
  OBVIOUS
<1>1. PICK T \in Bad : \A U \in Bad : U \subseteq T => U = T
  <2>1. Bad \subseteq SUBSET S
    OBVIOUS
  <2> HIDE DEF Bad
  <2> QED
    BY <2>1, LeastSet
<1>2. ASSUME NEW U \in SUBSET T, U # T
      PROVE  Solved(f, U) = IF U = {} THEN 0
                            ELSE f[First(U)] + Solved(f, U \ {First(U)})
  <2> DEFINE V == U \ {First(U)}
  <2>1. U \in SUBSET S /\ V \in SUBSET S /\ V \in SUBSET U /\ U \notin Bad /\ V \notin Bad
    <3>1. U \notin Bad
      BY <1>1, <1>2
    <3>2. V # T
      BY <1>2
    <3>3. V \subseteq T
      OBVIOUS
    <3>4. V \notin Bad
      BY <1>1, <3>2, <3>3
    <3> QED
      BY <3>1, <3>4
  <2>2. PICK g : IsSum(g, f, U) /\ Solved(f, U) = g[U]
    BY <2>1 DEF Solved
  <2>3. PICK k : IsSum(k, f, V) /\ Solved(f, V) = k[V]
    BY <2>1 DEF Solved
  <2>4. IsFiniteSet(V)
    BY <2>1, FS_Subset
  <2> HIDE DEF V
  <2>5. SameOn(f, f, V) /\ V \subseteq U /\ V \subseteq V
    BY <2>1 DEF SameOn
  <2>6. g[V] = k[V]
    BY <2>2, <2>3, <2>4, <2>5, SumsAgree
  <2>7. g[U] = IF U = {} THEN 0 ELSE f[First(U)] + g[U \ {First(U)}]
    BY <2>2, SumUnfolds
  <2> QED
    BY <2>2, <2>3, <2>6, <2>7 DEF V
<1> DEFINE term(U) == IF U = {} THEN 0 ELSE f[First(U)] + Solved(f, U \ {First(U)})
           k == [U \in SUBSET T |-> term(U)]
<1>3. ASSUME NEW U \in SUBSET T
      PROVE  k[U] = IF U = {} THEN 0 ELSE f[First(U)] + k[U \ {First(U)}]
  <2>1. CASE U = {}
    BY <2>1
  <2>2. CASE U # {}
    <3> DEFINE V == U \ {First(U)}
    <3>1. First(U) \in U
      BY <2>2, FirstIn
    <3>2. V \in SUBSET T /\ V # T
      BY <3>1
    <3>3. k[V] = Solved(f, V)
      BY <1>2, <3>2
    <3>4. k[U] = f[First(U)] + Solved(f, V)
      BY <2>2
    <3> QED
      BY <2>2, <3>3, <3>4
  <2> QED
    BY <2>1, <2>2
<1>4. k = [U \in SUBSET T |-> k[U]]
  OBVIOUS
<1> HIDE DEF k
<1>5. IsSum(k, f, T)
  BY <1>3, <1>4, SumFolds
<1> QED
  BY <1>1, <1>5

LEMMA SumOfIsSum ==
  ASSUME NEW f, NEW S, IsFiniteSet(S)
  PROVE  \E g : IsSum(g, f, S) /\ SumOf(f, S) = g[S]
<1>1. SumOf(f, S) = Solved(f, S)
  BY DEF SumOf, Solved, IsSum
<1> QED
  BY <1>1, SumExists DEF Solved

(* Functions that agree on a set have the same sum over it.                *)
LEMMA SameSum ==
  ASSUME NEW f, NEW h, NEW S, IsFiniteSet(S), SameOn(f, h, S)
  PROVE  SumOf(f, S) = SumOf(h, S)
<1>1. PICK g : IsSum(g, f, S) /\ SumOf(f, S) = g[S]
  BY SumOfIsSum
<1>2. PICK k : IsSum(k, h, S) /\ SumOf(h, S) = k[S]
  BY SumOfIsSum
<1>3. S \subseteq S
  OBVIOUS
<1> QED
  BY <1>1, <1>2, <1>3, SumsAgree

(* A sum of zeros is 0, and a sum of numbers is one.                       *)
LEMMA SumIsNat ==
  ASSUME NEW f, NEW S, IsFiniteSet(S), \A x \in S : f[x] \in Nat
  PROVE  /\ SumOf(f, S) \in Nat
         /\ (\A x \in S : f[x] = 0) => SumOf(f, S) = 0
<1>1. PICK g : IsSum(g, f, S) /\ SumOf(f, S) = g[S]
  BY SumOfIsSum
<1> DEFINE Good(V) == g[V] \in Nat /\ ((\A x \in S : f[x] = 0) => g[V] = 0)
           Bad == {V \in SUBSET S : ~Good(V)}
<1> SUFFICES ASSUME Bad # {}
             PROVE  FALSE
  BY <1>1
<1>2. PICK V \in Bad : \A U \in Bad : U \subseteq V => U = V
  <2>1. Bad \subseteq SUBSET S
    OBVIOUS
  <2> HIDE DEF Bad
  <2> QED
    BY <2>1, LeastSet
<1>3. g[V] = IF V = {} THEN 0 ELSE f[First(V)] + g[V \ {First(V)}]
  <2>1. V \in SUBSET S
    OBVIOUS
  <2> HIDE DEF Good, Bad
  <2> QED
    BY <1>1, <2>1, SumUnfolds
<1>4. V # {}
  BY <1>2, <1>3
<1>5. First(V) \in V /\ First(V) \in S
  BY <1>4, FirstIn
<1>6. Good(V \ {First(V)})
  <2>1. V \ {First(V)} \notin Bad /\ V \ {First(V)} \in SUBSET S
    BY <1>2, <1>5
  <2> QED
    BY <2>1
<1>7. f[First(V)] \in Nat /\ g[V \ {First(V)}] \in Nat
  BY <1>5, <1>6
<1> QED
  BY <1>2, <1>3, <1>4, <1>5, <1>6, <1>7

(* One number more at one place makes the sum one more.                    *)
LEMMA SumBumps ==
  ASSUME NEW f, NEW h, NEW S, IsFiniteSet(S), \A x \in S : f[x] \in Nat,
         NEW c \in S, h[c] = f[c] + 1, SameOn(f, h, S \ {c})
  PROVE  SumOf(h, S) = SumOf(f, S) + 1
<1>1. PICK g : IsSum(g, f, S) /\ SumOf(f, S) = g[S]
  BY SumOfIsSum
<1>2. PICK k : IsSum(k, h, S) /\ SumOf(h, S) = k[S]
  BY SumOfIsSum
<1> DEFINE Good(V) == g[V] \in Nat /\ k[V] = g[V] + (IF c \in V THEN 1 ELSE 0)
           Bad == {V \in SUBSET S : ~Good(V)}
<1> SUFFICES ASSUME Bad # {}
             PROVE  FALSE
  BY <1>1, <1>2
<1>3. PICK V \in Bad : \A U \in Bad : U \subseteq V => U = V
  <2>1. Bad \subseteq SUBSET S
    OBVIOUS
  <2> HIDE DEF Bad
  <2> QED
    BY <2>1, LeastSet
<1>4. /\ g[V] = IF V = {} THEN 0 ELSE f[First(V)] + g[V \ {First(V)}]
      /\ k[V] = IF V = {} THEN 0 ELSE h[First(V)] + k[V \ {First(V)}]
  <2>1. V \in SUBSET S
    OBVIOUS
  <2> HIDE DEF Good, Bad
  <2>2. g[V] = IF V = {} THEN 0 ELSE f[First(V)] + g[V \ {First(V)}]
    BY <1>1, <2>1, SumUnfolds
  <2>3. k[V] = IF V = {} THEN 0 ELSE h[First(V)] + k[V \ {First(V)}]
    BY <1>2, <2>1 DEF IsSum, First
  <2> QED
    BY <2>2, <2>3
<1>5. V # {}
  BY <1>3, <1>4
<1>6. First(V) \in V /\ First(V) \in S
  BY <1>5, FirstIn
<1>7. Good(V \ {First(V)})
  <2>1. V \ {First(V)} \notin Bad /\ V \ {First(V)} \in SUBSET S
    BY <1>3, <1>6
  <2> QED
    BY <2>1
<1>8. f[First(V)] \in Nat /\ g[V \ {First(V)}] \in Nat
  BY <1>6, <1>7
<1>9. CASE First(V) = c
  <2>1. k[V \ {c}] = g[V \ {c}]
    BY <1>7, <1>8, <1>9
  <2> QED
    BY <1>3, <1>4, <1>5, <1>6, <1>8, <1>9, <2>1
<1>10. CASE First(V) # c
  <2>1. h[First(V)] = f[First(V)]
    BY <1>6, <1>10 DEF SameOn
  <2>2. c \in V <=> c \in V \ {First(V)}
    BY <1>10
  <2> QED
    BY <1>3, <1>4, <1>5, <1>7, <1>8, <2>1, <2>2
<1> QED
  BY <1>9, <1>10
-----------------------------------------------------------------------------
(* What a call has yet to update is an end of the list of Updates.         *)
EndOfUpdates(p) ==
  \/ p = <<>>
  \/ p = <<Total>>
  \/ \E url \in Urls : p = <<url, Total>>
  \/ \E url \in Urls, code \in Codes : p = <<code, url, Total>>

PlanShape == \A t \in Threads : EndOfUpdates(plan[t])

OneAtATime == \A t \in Threads : left[t] # {} => plan[t] = <<>>

\* The call on t has updated its counter in S, and the total not yet.
HasCounted(t, S) == plan[t] # <<>> /\ \A i \in 1..Len(plan[t]) : plan[t][i] \notin S

Ahead(S) == IF \E t \in Threads : HasCounted(t, S) THEN 1 ELSE 0

SumsMove(S) == SumOf(count, S) = count[Total] + Ahead(S)

CopiedIsCurrent == \A t \in Threads :
  left[t] # {} => \A c \in Counters \ left[t] : page[t][c] = count[c]

(* While no two calls have overlapped, a sum is ahead of the total only in *)
(* the middle of a call, and what GetStatus has copied so far is still so. *)
PageInv == /\ PlanShape
           /\ OneAtATime
           /\ ~overlapped => /\ SumsMove(Urls) /\ SumsMove(Codes)
                             /\ CopiedIsCurrent
                             /\ SerialPageAgrees

LEMMA KeySets ==
  /\ IsFiniteSet(Urls) /\ Urls \subseteq Counters /\ Total \notin Urls
  /\ IsFiniteSet(Codes) /\ Codes \subseteq Counters /\ Total \notin Codes
  /\ Urls \cap Codes = {} /\ Total \in Counters
BY CountersAssumption, KeysAssumption DEF Counters

\* SumOf of the next state.
LEMMA PageAgreesNext ==
  ASSUME \A t \in Threads : left'[t] = {} => /\ SumOf(page'[t], Urls) = page'[t][Total]
                                             /\ SumOf(page'[t], Codes) = page'[t][Total]
  PROVE  SerialPageAgrees'
BY DEF SerialPageAgrees, SumOf

LEMMA SumsMoveNext ==
  ASSUME NEW S, SumOf(count', S) = count'[Total] + Ahead(S)'
  PROVE  SumsMove(S)'
BY DEF SumsMove, SumOf

LEMMA PageInit == Init => PageInv
<1> SUFFICES ASSUME Init
             PROVE  PageInv
  OBVIOUS
<1>1. PlanShape /\ OneAtATime /\ CopiedIsCurrent
  BY DEF Init, PlanShape, EndOfUpdates, OneAtATime, CopiedIsCurrent
<1>2. ASSUME NEW S, IsFiniteSet(S), S \subseteq Counters
      PROVE  /\ SumOf(count, S) = 0
             /\ \A t \in Threads : SumOf(page[t], S) = 0
             /\ Ahead(S) = 0
  <2>1. \A x \in S : count[x] = 0
    BY <1>2 DEF Init
  <2>2. \A x \in S : count[x] \in Nat
    BY <2>1
  <2>3. SumOf(count, S) = 0
    BY <1>2, <2>1, <2>2, SumIsNat
  <2>4. ASSUME NEW t \in Threads
        PROVE  SumOf(page[t], S) = 0
    <3>1. SameOn(page[t], count, S)
      BY <1>2 DEF Init, SameOn
    <3> QED
      BY <1>2, <2>3, <3>1, SameSum
  <2>5. Ahead(S) = 0
    BY DEF Init, Ahead, HasCounted
  <2> QED
    BY <2>3, <2>4, <2>5
<1>3. count[Total] = 0 /\ \A t \in Threads : page[t][Total] = 0
  BY KeySets DEF Init
<1>4. SumsMove(Urls) /\ SumsMove(Codes)
  BY <1>2, <1>3, KeySets DEF SumsMove
<1>5. SerialPageAgrees
  BY <1>2, <1>3, KeySets DEF SerialPageAgrees
<1> QED
  BY <1>1, <1>4, <1>5 DEF PageInv

LEMMA ShapeNext == TypeOK /\ PlanShape /\ OneAtATime /\ [Next]_vars => PlanShape' /\ OneAtATime'
<1> SUFFICES ASSUME TypeOK, PlanShape, OneAtATime, [Next]_vars
             PROVE  PlanShape' /\ OneAtATime'
  OBVIOUS
<1> USE DEF TypeOK, PlanShape, OneAtATime
<1>1. ASSUME NEW t \in Threads, NEW url \in Urls, NEW code \in Codes,
             LogIncomingRequest(t, url, code)
      PROVE  PlanShape' /\ OneAtATime'
  <2>1. plan'[t] = <<code, url, Total>> /\ left'[t] = {}
    BY <1>1 DEF LogIncomingRequest, Updates, Idle
  <2>2. \A o \in Threads \ {t} : plan'[o] = plan[o] /\ left'[o] = left[o]
    BY <1>1 DEF LogIncomingRequest
  <2>3. PlanShape'
    <3>1. EndOfUpdates(plan'[t])
      BY <2>1 DEF EndOfUpdates
    <3> QED
      BY <2>2, <3>1
  <2>4. OneAtATime'
    BY <2>1, <2>2
  <2> QED
    BY <2>3, <2>4
<1>2. ASSUME NEW t \in Threads, Store(t)
      PROVE  PlanShape' /\ OneAtATime'
  <2>1. plan'[t] = Tail(plan[t]) /\ plan[t] # <<>> /\ left' = left
    BY <1>2 DEF Store
  <2>2. \A o \in Threads \ {t} : plan'[o] = plan[o]
    BY <1>2 DEF Store
  <2>3. EndOfUpdates(plan'[t])
    <3>1. CASE plan[t] = <<Total>>
      BY <2>1, <3>1 DEF EndOfUpdates
    <3>2. CASE \E u \in Urls : plan[t] = <<u, Total>>
      BY <2>1, <3>2 DEF EndOfUpdates
    <3>3. CASE \E u \in Urls, c \in Codes : plan[t] = <<c, u, Total>>
      BY <2>1, <3>3 DEF EndOfUpdates
    <3> QED
      BY <2>1, <3>1, <3>2, <3>3 DEF EndOfUpdates
  <2>4. PlanShape'
    BY <2>2, <2>3
  <2>5. OneAtATime'
    BY <2>1, <2>2
  <2> QED
    BY <2>4, <2>5
<1>3. ASSUME NEW t \in Threads, GetStatus(t)
      PROVE  PlanShape' /\ OneAtATime'
  BY <1>3 DEF GetStatus, Idle
<1>4. ASSUME NEW t \in Threads, NEW c \in Counters, Copy(t, c)
      PROVE  PlanShape' /\ OneAtATime'
  BY <1>4 DEF Copy
<1>5. ASSUME NEW t \in Threads, Load(t)
      PROVE  PlanShape' /\ OneAtATime'
  BY <1>5 DEF Load
<1>6. ASSUME NEW t \in Threads, NEW o \in Threads, NEW c \in Codes \cup Urls, Fault(t, o, c)
      PROVE  PlanShape' /\ OneAtATime'
  BY <1>6 DEF Fault
<1>7. CASE UNCHANGED vars
  BY <1>7 DEF vars
<1> QED
  BY <1>1, <1>2, <1>3, <1>4, <1>5, <1>6, <1>7 DEF Next
\* The steps that neither store nor begin or end a call leave the sums alone.
LEMMA SumsKept ==
  ASSUME SumsMove(Urls) /\ SumsMove(Codes), UNCHANGED <<count, plan>>
  PROVE  SumsMove(Urls)' /\ SumsMove(Codes)'
BY DEF SumsMove, SumOf, Ahead, HasCounted

\* S is Urls or Codes.
LEMMA SumsNext ==
  ASSUME BoundInv, SerialInv, PageInv, [Next]_vars, ~overlapped'
  PROVE  SumsMove(Urls)' /\ SumsMove(Codes)'
<1>0. /\ TypeOK /\ HeldIsCurrent /\ OneInside /\ PlanShape /\ ~overlapped
      /\ SumsMove(Urls) /\ SumsMove(Codes)
  <2>1. overlapped \in BOOLEAN
    BY DEF BoundInv, TypeOK
  <2>2. ~overlapped
    BY <2>1 DEF Next, vars, LogIncomingRequest, Load, Store, GetStatus, Copy, Fault
  <2> QED
    BY <2>2 DEF BoundInv, SerialInv, PageInv
<1>1. ASSUME NEW t \in Threads, NEW url \in Urls, NEW code \in Codes,
             LogIncomingRequest(t, url, code)
      PROVE  SumsMove(Urls)' /\ SumsMove(Codes)'
  <2>1. \A o \in Threads : plan[o] = <<>>
    BY <1>1 DEF LogIncomingRequest, Idle, Alone
  <2>2. /\ count' = count /\ plan'[t] = <<code, url, Total>>
        /\ \A o \in Threads \ {t} : plan'[o] = <<>>
    BY <1>0, <1>1, <2>1 DEF LogIncomingRequest, Updates, TypeOK
  <2>3. ASSUME NEW S, url \in S \/ code \in S, SumsMove(S)
        PROVE  SumsMove(S)'
    <3>1. Ahead(S) = 0
      BY <2>1 DEF Ahead, HasCounted
    <3>2. ~HasCounted(t, S)'
      <4>1. /\ 1 \in 1..Len(plan'[t]) /\ 2 \in 1..Len(plan'[t])
            /\ plan'[t][1] = code /\ plan'[t][2] = url
        BY <2>2
      <4> QED
        BY <2>3, <4>1 DEF HasCounted
    <3>3. \A o \in Threads : ~HasCounted(o, S)'
      BY <2>2, <3>2 DEF HasCounted
    <3>4. Ahead(S)' = 0
      BY <3>3 DEF Ahead
    <3> QED
      BY <2>2, <2>3, <3>1, <3>4 DEF SumsMove, SumOf
  <2> QED
    BY <1>0, <2>3
<1>2. ASSUME NEW t \in Threads, Store(t)
      PROVE  SumsMove(Urls)' /\ SumsMove(Codes)'
  <2> DEFINE c == Head(plan[t])
  <2>1. /\ c \in Counters /\ plan[t] # <<>> /\ plan'[t] = Tail(plan[t])
        /\ count' = [k \in Counters |-> IF k = c THEN count[k] + 1 ELSE count[k]]
    <3>1. count' = [k \in Counters |-> IF k = Head(plan[t]) THEN count[k] + 1 ELSE count[k]]
      BY <1>0, <1>2, StoreAddsOne
    <3> QED
      BY <1>0, <1>2, <3>1 DEF Store, TypeOK
  <2>2. \A o \in Threads \ {t} : plan[o] = <<>> /\ plan'[o] = <<>>
    BY <1>0, <1>2 DEF Store, OneInside, Idle, TypeOK
  <2>3. ASSUME NEW S
        PROVE  /\ Ahead(S) = IF HasCounted(t, S) THEN 1 ELSE 0
               /\ Ahead(S)' = IF HasCounted(t, S)' THEN 1 ELSE 0
    BY <2>2 DEF Ahead, HasCounted
  <2>4. ASSUME NEW S, IsFiniteSet(S), S \subseteq Counters, Total \notin S, SumsMove(S)
        PROVE  /\ SumOf(count, S) \in Nat /\ count[Total] \in Nat
               /\ SumOf(count', S) = SumOf(count, S) + (IF c \in S THEN 1 ELSE 0)
               /\ count'[Total] = count[Total] + (IF c = Total THEN 1 ELSE 0)
               /\ SumOf(count, S) = count[Total] + (IF HasCounted(t, S) THEN 1 ELSE 0)
    <3>1. \A x \in S : count[x] \in Nat
      BY <1>0, <2>4 DEF TypeOK
    <3>2. CASE c \in S
      <4>1. count'[c] = count[c] + 1 /\ SameOn(count, count', S \ {c})
        BY <2>1, <2>4 DEF SameOn
      <4>2. SumOf(count', S) = SumOf(count, S) + 1
        BY <2>4, <3>1, <3>2, <4>1, SumBumps
      <4> QED
        BY <1>0, <2>1, <2>3, <2>4, <3>1, <3>2, <4>2, SumIsNat, KeySets DEF TypeOK, SumsMove
    <3>3. CASE c \notin S
      <4>1. SameOn(count, count', S)
        BY <2>1, <2>4, <3>3 DEF SameOn
      <4>2. SumOf(count', S) = SumOf(count, S)
        BY <2>4, <4>1, SameSum
      <4> QED
        BY <1>0, <2>1, <2>3, <2>4, <3>1, <3>3, <4>2, SumIsNat, KeySets DEF TypeOK, SumsMove
    <3> QED
      BY <3>2, <3>3
  <2>5. ASSUME NEW S, IsFiniteSet(S), S \subseteq Counters, Total \notin S, SumsMove(S),
               IF c \in S THEN ~HasCounted(t, S) /\ HasCounted(t, S)'
               ELSE IF c = Total THEN HasCounted(t, S) /\ ~HasCounted(t, S)'
               ELSE HasCounted(t, S)' <=> HasCounted(t, S)
        PROVE  SumsMove(S)'
    <3>1. SumOf(count', S) = count'[Total] + Ahead(S)'
      BY <2>3, <2>4, <2>5
    <3> QED
      BY <3>1, SumsMoveNext
  <2>6. CASE plan[t] = <<Total>>
    <3>1. c = Total /\ plan'[t] = <<>>
      BY <2>1, <2>6
    <3>2. \A S : Total \notin S => HasCounted(t, S) /\ ~HasCounted(t, S)'
      BY <2>6, <3>1 DEF HasCounted
    <3> QED
      BY <1>0, <2>5, <3>1, <3>2, KeySets
  <2>7. CASE \E url \in Urls : plan[t] = <<url, Total>>
    <3>1. PICK url \in Urls : plan[t] = <<url, Total>>
      BY <2>7
    <3>2. c = url /\ plan'[t] = <<Total>>
      BY <2>1, <3>1
    <3>3. ~HasCounted(t, Urls) /\ HasCounted(t, Urls)'
      <4>1. 1 \in 1..Len(plan[t]) /\ plan[t][1] = url
        BY <3>1
      <4> QED
        BY <3>2, <4>1, KeySets DEF HasCounted
    <3>4. HasCounted(t, Codes) /\ HasCounted(t, Codes)'
      BY <3>1, <3>2, KeySets DEF HasCounted
    <3> QED
      BY <1>0, <2>5, <3>2, <3>3, <3>4, KeySets
  <2>8. CASE \E url \in Urls, code \in Codes : plan[t] = <<code, url, Total>>
    <3>1. PICK url \in Urls, code \in Codes : plan[t] = <<code, url, Total>>
      BY <2>8
    <3>2. c = code /\ plan'[t] = <<url, Total>>
      BY <2>1, <3>1
    <3>3. ~HasCounted(t, Urls) /\ ~HasCounted(t, Urls)' /\ ~HasCounted(t, Codes)
      <4>1. /\ 1 \in 1..Len(plan[t]) /\ plan[t][1] = code
            /\ 2 \in 1..Len(plan[t]) /\ plan[t][2] = url
        BY <3>1
      <4>2. 1 \in 1..Len(plan'[t]) /\ plan'[t][1] = url
        BY <3>2
      <4> QED
        BY <4>1, <4>2 DEF HasCounted
    <3>4. HasCounted(t, Codes)'
      BY <3>2, KeySets DEF HasCounted
    <3>5. c \in Codes /\ c \notin Urls /\ c # Total
      BY <3>2, KeySets
    <3> HIDE DEF c
    <3>6. SumsMove(Urls)'
      BY <1>0, <2>5, <3>3, <3>5, KeySets
    <3>7. SumsMove(Codes)'
      BY <1>0, <2>5, <3>3, <3>4, <3>5, KeySets
    <3> QED
      BY <3>6, <3>7
  <2> QED
    BY <1>0, <2>1, <2>6, <2>7, <2>8 DEF PlanShape, EndOfUpdates
<1>3. ASSUME UNCHANGED <<count, plan>>
      PROVE  SumsMove(Urls)' /\ SumsMove(Codes)'
  BY <1>0, <1>3, SumsKept
<1> QED
  BY <1>1, <1>2, <1>3 DEF Next, vars, Load, GetStatus, Copy, Fault

LEMMA PageNext == BoundInv /\ SerialInv /\ PageInv /\ [Next]_vars => PageInv'
<1> SUFFICES ASSUME BoundInv, SerialInv, PageInv, [Next]_vars
             PROVE  PageInv'
  OBVIOUS
<1>1. PlanShape' /\ OneAtATime'
  BY ShapeNext DEF BoundInv, PageInv
<1>2. ASSUME ~overlapped'
      PROVE  CopiedIsCurrent' /\ SerialPageAgrees'
  <2>0. /\ TypeOK /\ OneInside /\ OneAtATime /\ ~overlapped
        /\ SumsMove(Urls) /\ SumsMove(Codes) /\ CopiedIsCurrent /\ SerialPageAgrees
    <3>1. overlapped \in BOOLEAN
      BY DEF BoundInv, TypeOK
    <3>2. ~overlapped
      BY <1>2, <3>1 DEF Next, vars, LogIncomingRequest, Load, Store, GetStatus, Copy, Fault
    <3> QED
      BY <3>2 DEF BoundInv, SerialInv, PageInv
  <2>1. ASSUME UNCHANGED <<page, left>>, count' = count \/ \A t \in Threads : left[t] = {}
        PROVE  CopiedIsCurrent' /\ SerialPageAgrees'
    <3>1. CopiedIsCurrent'
      BY <2>0, <2>1 DEF CopiedIsCurrent
    <3>2. SerialPageAgrees'
      BY <2>0, <2>1, PageAgreesNext DEF SerialPageAgrees
    <3> QED
      BY <3>1, <3>2
  <2>2. ASSUME NEW t \in Threads, Store(t)
        PROVE  CopiedIsCurrent' /\ SerialPageAgrees'
    <3>1. \A o \in Threads : left[o] = {}
      BY <2>0, <2>2 DEF Store, OneInside, OneAtATime, Idle
    <3> QED
      BY <2>1, <2>2, <3>1 DEF Store
  <2>3. ASSUME NEW t \in Threads, GetStatus(t)
        PROVE  CopiedIsCurrent' /\ SerialPageAgrees'
    <3>1. /\ UNCHANGED <<count, page>> /\ left'[t] = Counters
          /\ \A o \in Threads \ {t} : left'[o] = left[o]
      BY <2>0, <2>3 DEF GetStatus, TypeOK
    <3>2. CopiedIsCurrent'
      BY <2>0, <3>1 DEF CopiedIsCurrent
    <3>3. left'[t] # {}
      BY <3>1, KeySets
    <3>4. SerialPageAgrees'
      BY <2>0, <3>1, <3>3, PageAgreesNext DEF SerialPageAgrees
    <3> QED
      BY <3>2, <3>4
  <2>4. ASSUME NEW t \in Threads, NEW c \in Counters, Copy(t, c)
        PROVE  CopiedIsCurrent' /\ SerialPageAgrees'
    <3>1. /\ c \in left[t] /\ left'[t] = left[t] \ {c} /\ UNCHANGED <<count, plan>>
          /\ page'[t] = [page[t] EXCEPT ![c] = count[c]]
          /\ \A o \in Threads \ {t} : left'[o] = left[o] /\ page'[o] = page[o]
      BY <2>0, <2>4 DEF Copy, TypeOK
    <3>2. \A k \in Counters \ left'[t] : page'[t][k] = count[k]
      <4>1. page[t] \in [Counters -> Nat]
        BY <2>0 DEF TypeOK
      <4> QED
        BY <2>0, <3>1, <4>1 DEF CopiedIsCurrent
    <3>3. CopiedIsCurrent'
      <4>1. \A o \in Threads \ {t} : left'[o] # {} =>
              \A k \in Counters \ left'[o] : page'[o][k] = count'[k]
        BY <2>0, <3>1 DEF CopiedIsCurrent
      <4> QED
        BY <3>1, <3>2, <4>1 DEF CopiedIsCurrent
    <3>4. ASSUME left'[t] = {}
          PROVE  /\ SumOf(page'[t], Urls) = page'[t][Total]
                 /\ SumOf(page'[t], Codes) = page'[t][Total]
      <4>1. \A o \in Threads : plan[o] = <<>>
        BY <2>0, <3>1 DEF OneAtATime, OneInside, Idle
      <4>2. \A S : Ahead(S) = 0
        BY <4>1 DEF Ahead, HasCounted
      <4>3. count[Total] \in Nat /\ page'[t][Total] = count[Total]
        BY <2>0, <3>2, <3>4, KeySets DEF TypeOK
      <4>4. ASSUME NEW S, IsFiniteSet(S), S \subseteq Counters, SumsMove(S)
            PROVE  SumOf(page'[t], S) = page'[t][Total]
        <5>1. SameOn(page'[t], count, S)
          BY <3>2, <3>4, <4>4 DEF SameOn
        <5>2. SumOf(page'[t], S) = SumOf(count, S)
          BY <4>4, <5>1, SameSum
        <5> QED
          BY <4>2, <4>3, <4>4, <5>2 DEF SumsMove
      <4> QED
        BY <2>0, <4>4, KeySets
    <3>5. SerialPageAgrees'
      BY <2>0, <3>1, <3>4, PageAgreesNext DEF SerialPageAgrees
    <3> QED
      BY <3>3, <3>5
  <2> QED
    BY <2>1, <2>2, <2>3, <2>4 DEF Next, vars, LogIncomingRequest, Load, Fault
<1>3. ASSUME ~overlapped'
      PROVE  SumsMove(Urls)' /\ SumsMove(Codes)'
  BY <1>3, SumsNext
<1> QED
  BY <1>1, <1>2, <1>3 DEF PageInv

(* As long as no two calls have overlapped, the columns of every finished  *)
(* status page add up to the total it prints, however many URLs, codes and *)
(* calls there are (server.cc:154-170, status_handler.cc:59-73).           *)
THEOREM SerialPageAgreesHolds == Spec => []SerialPageAgrees
<1>1. PageInv => SerialPageAgrees
  BY DEF PageInv, SerialPageAgrees
<1> QED
  BY BoundInit, BoundNext, SerialInit, SerialNext, PageInit, PageNext, <1>1, PTL DEF Spec
=============================================================================
