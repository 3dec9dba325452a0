---------------------------- MODULE ProxyHandler ----------------------------
(***************************************************************************)
(* One request through the reverse proxy (handlers/proxy_handler.cc): it   *)
(* is sent on to the configured server, and again to wherever a 302 with a *)
(* Location header points, at most MaxDepth times.  The handler keeps no   *)
(* state between requests.                                                 *)
(*                                                                         *)
(* The servers answer anything, or nothing.  A header is known by its      *)
(* name, and a status code, header or body of the response by the hop that *)
(* it came from.                                                           *)
(***************************************************************************)
EXTENDS Integers, Sequences

CONSTANTS Char, Slash,  \* the characters of a URI; Slash is one of them
          Prefixes,     \* the paths a handler may be registered for
          Uris,         \* the URIs that clients may ask for
          Locations,    \* values of Location headers, without their "http://"
          Codes,        \* the status codes of servers
          Names,        \* the names of headers
          MaxDepth      \* redirects followed; 10 in the code

Found == 302
NotFound == 404
HasPrefix(s, p) == Len(p) <= Len(s) /\ \A i \in 1..Len(p) : s[i] = p[i]

ASSUME ProxyAssumption == /\ Slash \in Char
                          /\ Prefixes \subseteq Seq(Char)
                          /\ Uris \subseteq Seq(Char)
                          /\ Locations \subseteq Seq(Char)
                          /\ Codes \subseteq Nat
                          /\ "Location" \in Names
                          /\ MaxDepth \in Nat \ {0}

VARIABLES pc,       \* where SendRequestToServer is
          depth,    \* redirects left
          prefix,   \* m_uri_prefix_: the path of the handler
          uri,      \* the URI of the request it was called with
          sent,     \* the URI sent to the server of this hop
          status,   \* [code, hop] of the response
          headers,  \* for each header of the response the hop it is from, or 0
          body,     \* the hop that the body is from, or 0
          result,   \* what HandleRequest returns, or "none"
          asked,    \* ghost: the location of the last redirect
          got       \* ghost: the names of the headers read in this hop

vars == <<pc, depth, prefix, uri, sent, status, headers, body, result, asked, got>>

Hop == MaxDepth + 1 - depth

\* do_read calls the handler for URIs that begin with its path only.
Init == /\ pc = "connect"
        /\ depth = MaxDepth
        /\ prefix \in Prefixes
        /\ uri \in {u \in Uris : HasPrefix(u, prefix)}
        /\ sent = <<>>
        /\ status = [code |-> 0, hop |-> 0]
        /\ headers = [n \in Names |-> 0]
        /\ body = 0
        /\ result = "none"
        /\ asked = <<>>
        /\ got = {}
-----------------------------------------------------------------------------
Suffix(s, i) == SubSeq(s, i, Len(s))

\* Slip: the leading slash is not put back.
BareUri(p, u) ==
  IF Len(u) < Len(p) THEN u ELSE Suffix(u, Len(p) + 1)

ExtractNonProxyUri(p, u) ==
  LET rest == Suffix(u, Len(p) + 1)
  IN  IF Len(u) < Len(p) THEN u
      ELSE IF rest # <<>> /\ rest[1] = Slash THEN rest ELSE <<Slash>> \o rest

SlashesIn(l) == {i \in 1..Len(l) : l[i] = Slash}

FirstSlash(l) == CHOOSE i \in SlashesIn(l) : \A j \in SlashesIn(l) : i <= j

\* Slip: a location without a path leaves the path empty.
PathOrNothing(l) == IF SlashesIn(l) = {} THEN <<>> ELSE Suffix(l, FirstSlash(l))

\* ParseRedirectLocation, as far as the path goes: what is before it is the
\* host, which no property is about.
NewPath(l) == IF SlashesIn(l) = {} THEN <<Slash>> ELSE Suffix(l, FirstSlash(l))
-----------------------------------------------------------------------------
Return(r) == pc' = "done" /\ result' = r

\* The limit is reached: a 404 of the handler's own.
Abort == /\ pc = "connect" /\ depth = 0
         /\ status' = [code |-> NotFound, hop |-> Hop]
         /\ Return("OK")
         /\ UNCHANGED <<depth, prefix, uri, sent, headers, body, asked, got>>

\* The socket is connected and the modified request written.
SendRequest == /\ pc = "connect" /\ depth > 0
               /\ sent' = ExtractNonProxyUri(prefix, uri)
               /\ pc' = "status"
               /\ UNCHANGED <<depth, prefix, uri, status, headers, body, result, asked, got>>

\* Resolving, connecting or writing throws.
Throw == /\ pc = "connect" /\ depth > 0
         /\ Return("BAD_REQUEST")
         /\ UNCHANGED <<depth, prefix, uri, sent, status, headers, body, asked, got>>

ReadStatus(c) == /\ pc = "status"
                 /\ pc' = "headers"
                 /\ status' = [code |-> c, hop |-> Hop]
                 /\ UNCHANGED <<depth, prefix, uri, sent, headers, body, result, asked, got>>

\* The answer is empty or does not begin with a version and a number.  The
\* extraction leaves status_code uninitialized, or 0, and the stream failed, so
\* that no header is read.
MissStatus(c) == /\ pc = "status"
                 /\ pc' = "body"
                 /\ status' = [code |-> c, hop |-> Hop]
                 /\ UNCHANGED <<depth, prefix, uri, sent, headers, body, result, asked, got>>

\* Slip: a header that is there already is kept.
AddHeaderIfNew(n) ==
  /\ pc = "headers" /\ ~(status.code = Found /\ n = "Location")
  /\ headers' = [headers EXCEPT ![n] = IF @ = 0 THEN Hop ELSE @]
  /\ got' = got \cup {n}
  /\ UNCHANGED <<pc, depth, prefix, uri, sent, status, body, result, asked>>

AddHeader(n) == /\ pc = "headers" /\ ~(status.code = Found /\ n = "Location")
                /\ headers' = [headers EXCEPT ![n] = Hop]
                /\ got' = got \cup {n}
                /\ UNCHANGED <<pc, depth, prefix, uri, sent, status, body, result, asked>>

\* Slip: the recursive call passes depth on.
RedirectForEver(l) ==
  /\ pc = "headers" /\ status.code = Found
  /\ pc' = "connect"
  /\ uri' = NewPath(l)
  /\ asked' = l
  /\ got' = {}
  /\ UNCHANGED <<depth, prefix, sent, status, headers, body, result>>

\* SendRequestToServer calls itself with the new path, at the same port.
Redirect(l) == /\ pc = "headers" /\ status.code = Found
               /\ pc' = "connect"
               /\ depth' = depth - 1
               /\ uri' = NewPath(l)
               /\ asked' = l
               /\ got' = {}
               /\ UNCHANGED <<prefix, sent, status, headers, body, result>>

EndOfHeaders == /\ pc = "headers"
                /\ pc' = "body"
                /\ UNCHANGED <<depth, prefix, uri, sent, status, headers, body, result, asked, got>>

\* An error other than the end of the stream leaves the response without body.
ReadBody == /\ pc = "body"
            /\ body' \in {Hop, body}
            /\ Return("OK")
            /\ UNCHANGED <<depth, prefix, uri, sent, status, headers, asked, got>>

Next == \/ Abort \/ SendRequest \/ Throw \/ EndOfHeaders \/ ReadBody
        \/ \E c \in Codes : ReadStatus(c)
        \/ \E c \in Codes \cup {0} : MissStatus(c)
        \/ \E n \in Names : AddHeader(n)
        \/ \E l \in Locations : Redirect(l)

Spec == Init /\ [][Next]_vars

\* Every server accepts or refuses, and its answer ends: the handler itself has
\* no timeout.
FairSpec == Spec /\ WF_vars(Next)
-----------------------------------------------------------------------------
(* The arguments and locals of SendRequestToServer and the response.       *)
TypeOK == /\ pc \in {"connect", "status", "headers", "body", "done"}
          /\ depth \in 0..MaxDepth
          /\ pc \in {"status", "headers", "body"} => depth > 0
          /\ prefix \in Prefixes
          /\ uri \in Seq(Char)
          /\ sent \in Seq(Char)
          /\ status \in [code : Codes \cup {0, NotFound}, hop : 0..(MaxDepth + 1)]
          /\ headers \in [Names -> 0..MaxDepth]
          /\ body \in 0..MaxDepth
          /\ result \in {"none", "OK", "BAD_REQUEST"}
          /\ asked \in Seq(Char)
          /\ got \subseteq Names

(* However many redirects there were, what the client gets is the status   *)
(* and the body of the last server, and every header that the last server  *)
(* has sent; from the limit on, a 404 with no body.  The same response     *)
(* object is filled at every hop (proxy_handler.cc:163-242).               *)
LastServerAnswers ==
  result = "OK" =>
    /\ status.hop = Hop
    /\ body \in {0, Hop}
    /\ \A n \in got : headers[n] = Hop
    /\ depth = 0 => status.code = NotFound /\ body = 0

(* Every request line sent to a server has an absolute path, at the first  *)
(* hop and after redirects to locations with and without one               *)
(* (proxy_handler.cc:47-61 and 72-98).                                     *)
AbsolutePathSent == pc \in {"status", "headers", "body"} => sent # <<>> /\ sent[1] = Slash

\* p is the path of a location, and "/" if that has no path.
IsPathOf(p, l) ==
  \/ p = <<Slash>> /\ SlashesIn(l) = {}
  \/ \E k \in 0..(Len(l) - 1) : /\ l[k + 1] = Slash /\ p = Suffix(l, k + 1)
                                 /\ \A i \in 1..k : l[i] # Slash

TwoSlashes(p) == Len(p) > 1 /\ p[1] = Slash /\ p[2] = Slash

(* "after redirect, we should try the new location with a new connection"  *)
(* and GET the new path, proxy_handler_test.cc:329-337.  The test has a    *)
(* handler for "/", and its new path is the location's, whatever that is,  *)
(* except that of two slashes it begins with one is lost; a longer prefix  *)
(* is cut off the new path once more.                                      *)
NewLocationRequested ==
  prefix = <<Slash>> /\ pc \in {"status", "headers", "body"} /\ depth < MaxDepth =>
    \/ IsPathOf(sent, asked) /\ ~TwoSlashes(sent)
    \/ TwoSlashes(<<Slash>> \o sent) /\ IsPathOf(<<Slash>> \o sent, asked)

(* Redirects in a circle end, and so does every request that the servers   *)
(* do not leave without an answer (proxy_handler.cc:163-167 and 226).      *)
Terminates == <>(pc = "done")
=============================================================================
