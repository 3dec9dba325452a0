------------------------------- MODULE MCSite -------------------------------
(* All files with up to three path blocks for three nested paths, between  *)
(* the port and the default statement, the files that fail at each of      *)
(* these, and port numbers at the borders of the valid range; URIs that    *)
(* are shorter than, equal to, longer than and unlike the paths.           *)
EXTENDS Site

CONSTANTS slash, a

MCPaths == {<<slash>>, <<slash, a>>, <<slash, a, a>>}

MCUris == {<<a>>, <<slash>>, <<slash, a>>, <<slash, slash>>, <<slash, a, a>>, <<slash, a, slash>>}

Words(tokens) == [tokens |-> tokens, number |-> 0, accepted |-> TRUE]

PortIs(n) == [Words(<<"port", "n">>) EXCEPT !.number = n]

MCBlocks == {Words(<<"path", p, "EchoHandler">>) : p \in MCPaths}
            \cup {[Words(<<"path", p, "StaticHandler">>) EXCEPT !.accepted = ok] :
                    p \in MCPaths \ {<<slash, a>>}, ok \in BOOLEAN}
            \cup {Words(<<"path", <<slash>>, "Missing">>), Words(<<"path", <<slash>>>>)}

Fallback == Words(<<"default", "EchoHandler">>)

File(n, blocks) == ConfigOf(<<PortIs(n)>> \o blocks \o <<Fallback>>)

MCConfigs == {File(2020, bs) : bs \in UNION {[1..k -> MCBlocks] : k \in 0..3}}
             \cup {File(n, <<>>) : n \in {-1, 0, 65535, 65536}}
             \cup {[File(2020, <<>>) EXCEPT !.syntax = FALSE],
                   ConfigOf(<<Fallback>>), ConfigOf(<<PortIs(2020)>>),
                   ConfigOf(<<PortIs(2020), Words(<<"default", "Missing">>), Fallback>>)}
=============================================================================
