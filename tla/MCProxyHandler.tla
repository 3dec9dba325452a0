--------------------------- MODULE MCProxyHandler ---------------------------
(* Handlers registered for "/" and for "/p", and up to ten redirects.      *)
EXTENDS ProxyHandler

MCChar == {"/", "p", "q"}
MCPrefixes == {<<"/">>, <<"/", "p">>}
MCUris == {<<"/">>, <<"/", "p">>, <<"/", "p", "/", "q">>, <<"/", "p", "q">>}

\* "q", "q/", "q/p", "/p", "q/pq" and "q//p"; q is a host.
MCLocations ==
  {<<"q">>, <<"q", "/">>, <<"q", "/", "p">>, <<"/", "p">>, <<"q", "/", "p", "q">>,
   <<"q", "/", "/", "p">>}
=============================================================================
