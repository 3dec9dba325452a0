------------------------------ MODULE Service ------------------------------
(***************************************************************************)
(* What the web server promises its clients, with no mention of threads,   *)
(* sessions or completion handlers: a connection is answered at most once, *)
(* only after it has been reported to the statistics, and a connection the *)
(* server gives up on is neither answered nor reported.                    *)
(***************************************************************************)
CONSTANT Clients   \* the connections clients open

VARIABLES phase,   \* how far each connection has come
          journal, \* the connections reported to the statistics
          serving  \* FALSE once the process has ended

vars == <<phase, journal, serving>>

Init == /\ phase = [c \in Clients |-> "away"]
        /\ journal = {}
        /\ serving = TRUE

Connect(c) == /\ serving /\ phase[c] = "away"
              /\ phase' = [phase EXCEPT ![c] = "waiting"]
              /\ UNCHANGED <<journal, serving>>

Record(c) == /\ serving /\ phase[c] = "waiting" /\ c \notin journal
             /\ journal' = journal \cup {c}
             /\ UNCHANGED <<phase, serving>>

Answer(c) == /\ serving /\ phase[c] = "waiting" /\ c \in journal
             /\ phase' = [phase EXCEPT ![c] = "answered"]
             /\ UNCHANGED <<journal, serving>>

Abandon(c) == /\ serving /\ phase[c] = "waiting" /\ c \notin journal
              /\ phase' = [phase EXCEPT ![c] = "abandoned"]
              /\ UNCHANGED <<journal, serving>>

Stop == /\ serving
        /\ serving' = FALSE
        /\ UNCHANGED <<phase, journal>>

Next == \/ \E c \in Clients : Connect(c) \/ Record(c) \/ Answer(c) \/ Abandon(c)
        \/ Stop

Spec == Init /\ [][Next]_vars
=============================================================================
