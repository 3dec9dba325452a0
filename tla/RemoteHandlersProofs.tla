------------------------ MODULE RemoteHandlersProofs ------------------------
(***************************************************************************)
(* Theorems about the two handlers that fetch what they serve from         *)
(* elsewhere: ProxyHandler, for every prefix, every request, any answers   *)
(* and any limit on redirects, and CloudFileHandler, for any number of     *)
(* threads and restarts and any keys.                                      *)
(***************************************************************************)
EXTENDS ProxyHandler, CloudFileHandler, WellFoundedInduction, TLAPS

(* ProxyHandler.                                                           *)

Absolute(u) == u # <<>> /\ u[1] = Slash

InHop == pc \in {"status", "headers", "body"}

(* The first URI begins with the prefix, the others with a slash, so that  *)
(* one too short for the prefix begins with a slash.                       *)
UriIsLongOrAbsolute == Len(uri) < Len(prefix) => Absolute(uri)

AbsoluteInHop == InHop => Absolute(sent)

(* What is in the response before the last server's answer is complete.    *)
ResponseSoFar == /\ pc \in {"headers", "body"} => status.hop = Hop
                 /\ pc # "done" => body = 0 /\ result = "none"
                 /\ \A n \in got : headers[n] = Hop

IInv == TypeOK /\ UriIsLongOrAbsolute /\ AbsoluteInHop /\ ResponseSoFar /\ LastServerAnswers

-----------------------------------------------------------------------------
(* Lemmas about the conversions of strings.                                *)

LEMMA LeastElement == ASSUME NEW T, T \subseteq Nat, T # {}
                      PROVE  \E x \in T : \A y \in T : x <= y
<1>1. PICK x \in T : \A y \in T : <<y, x>> \notin OpToRel(<, Nat)
  BY WFMin, NatLessThanWellFounded
<1>2. \A y \in Nat : y < x => <<y, x>> \in OpToRel(<, Nat)
  BY DEF OpToRel
<1>3. \A y \in T : ~(y < x)
  BY <1>1, <1>2
<1> QED
  BY <1>3

LEMMA SuffixType == ASSUME NEW s \in Seq(Char), NEW i \in 1..(Len(s) + 1)
                    PROVE  /\ Suffix(s, i) \in Seq(Char)
                           /\ Len(Suffix(s, i)) = Len(s) - i + 1
                           /\ \A k \in 1..(Len(s) - i + 1) : Suffix(s, i)[k] = s[i + k - 1]
BY DEF Suffix

LEMMA FirstSlashIsFirst ==
  ASSUME NEW l \in Seq(Char), SlashesIn(l) # {}
  PROVE  /\ FirstSlash(l) \in 1..Len(l) /\ l[FirstSlash(l)] = Slash
         /\ \A j \in 1..(FirstSlash(l) - 1) : l[j] # Slash
<1>1. \E i \in SlashesIn(l) : \A j \in SlashesIn(l) : i <= j
  <2>1. SlashesIn(l) \subseteq Nat
    BY DEF SlashesIn
  <2> QED
    BY <2>1, LeastElement
<1>2. FirstSlash(l) \in SlashesIn(l) /\ \A j \in SlashesIn(l) : FirstSlash(l) <= j
  BY <1>1 DEF FirstSlash
<1> QED
  BY <1>2 DEF SlashesIn

LEMMA NewPathIsPath ==
  ASSUME NEW l \in Seq(Char)
  PROVE  NewPath(l) \in Seq(Char) /\ Absolute(NewPath(l)) /\ IsPathOf(NewPath(l), l)
<1>1. CASE SlashesIn(l) = {}
  BY <1>1, ProxyAssumption DEF NewPath, Absolute, IsPathOf
<1>2. CASE SlashesIn(l) # {}
  <2>1. PICK i \in 1..Len(l) : i = FirstSlash(l)
    BY <1>2, FirstSlashIsFirst
  <2>2. l[i] = Slash /\ \A j \in 1..(i - 1) : l[j] # Slash
    BY <1>2, <2>1, FirstSlashIsFirst
  <2>3. NewPath(l) = Suffix(l, i)
    BY <1>2, <2>1 DEF NewPath
  <2>4. Suffix(l, i) \in Seq(Char) /\ Absolute(Suffix(l, i))
    BY <2>2, SuffixType DEF Absolute
  <2>5. IsPathOf(Suffix(l, i), l)
    <3>1. i - 1 \in 0..(Len(l) - 1) /\ (i - 1) + 1 = i
      OBVIOUS
    <3> QED
      BY <2>2, <3>1 DEF IsPathOf
  <2> QED
    BY <2>3, <2>4, <2>5
<1> QED
  BY <1>1, <1>2

LEMMA ExtractedIsAbsolute ==
  ASSUME NEW p \in Seq(Char), NEW u \in Seq(Char), Len(u) < Len(p) => Absolute(u)
  PROVE  /\ ExtractNonProxyUri(p, u) \in Seq(Char)
         /\ Absolute(ExtractNonProxyUri(p, u))
<1>1. CASE Len(u) < Len(p)
  BY <1>1 DEF ExtractNonProxyUri
<1>2. CASE ~(Len(u) < Len(p))
  <2> DEFINE rest == Suffix(u, Len(p) + 1)
  <2>1. rest \in Seq(Char)
    BY <1>2, SuffixType, ProxyAssumption
  <2>2. ExtractNonProxyUri(p, u) =
          IF rest # <<>> /\ rest[1] = Slash THEN rest ELSE <<Slash>> \o rest
    BY <1>2 DEF ExtractNonProxyUri
  <2>3. <<Slash>> \o rest \in Seq(Char) /\ Absolute(<<Slash>> \o rest)
    BY <2>1, ProxyAssumption DEF Absolute
  <2> HIDE DEF rest
  <2> QED
    BY <2>1, <2>2, <2>3 DEF Absolute
<1> QED
  BY <1>1, <1>2

(* The prefix "/" is put back by the slash that is put in front, unless    *)
(* another one follows it.                                                 *)
RootCut(u, e) == \/ e = u /\ ~TwoSlashes(u)
                 \/ TwoSlashes(u) /\ u = <<Slash>> \o e

LEMMA RootPrefixIsCut ==
  ASSUME NEW p, p = <<Slash>>, NEW u \in Seq(Char), Absolute(u)
  PROVE  RootCut(u, ExtractNonProxyUri(p, u))
<1> DEFINE rest == Suffix(u, 2)
<1>1. /\ rest \in Seq(Char) /\ Len(rest) = Len(u) - 1
      /\ \A k \in 1..Len(rest) : rest[k] = u[k + 1]
  BY SuffixType DEF Absolute
<1>2. <<Slash>> \o rest = u
  BY <1>1, ProxyAssumption DEF Absolute
<1>3. ExtractNonProxyUri(p, u) = IF rest # <<>> /\ rest[1] = Slash THEN rest ELSE <<Slash>> \o rest
  BY ProxyAssumption DEF ExtractNonProxyUri, Absolute
<1>4. TwoSlashes(u) <=> rest # <<>> /\ rest[1] = Slash
  BY <1>1 DEF TwoSlashes, Absolute
<1> HIDE DEF rest
<1> QED
  BY <1>2, <1>3, <1>4 DEF RootCut
-----------------------------------------------------------------------------
LEMMA IInit == Init => IInv
<1> SUFFICES ASSUME Init
             PROVE  IInv
  OBVIOUS
<1>1. uri \in Seq(Char) /\ HasPrefix(uri, prefix)
  BY ProxyAssumption DEF Init
<1>2. TypeOK
  <2>1. MaxDepth \in Nat /\ MaxDepth \in 0..MaxDepth /\ 0 \in 0..MaxDepth
    BY ProxyAssumption
  <2>2. status \in [code : Codes \cup {0, NotFound}, hop : 0..(MaxDepth + 1)]
    BY <2>1 DEF Init
  <2>3. headers \in [Names -> 0..MaxDepth] /\ sent \in Seq(Char) /\ asked \in Seq(Char)
    BY <2>1 DEF Init
  <2> QED
    BY <1>1, <2>1, <2>2, <2>3 DEF Init, TypeOK
<1>3. UriIsLongOrAbsolute
  <2>1. Len(uri) \in Nat /\ Len(prefix) \in Nat /\ Len(prefix) <= Len(uri)
    BY <1>1, ProxyAssumption DEF HasPrefix
  <2> QED
    BY <2>1 DEF UriIsLongOrAbsolute
<1> QED
  BY <1>2, <1>3
  DEF Init, IInv, AbsoluteInHop, InHop, ResponseSoFar, LastServerAnswers

LEMMA HopType == ASSUME TypeOK
                 PROVE  Hop \in 1..(MaxDepth + 1) /\ (depth > 0 => Hop \in 1..MaxDepth)
BY ProxyAssumption DEF TypeOK, Hop

LEMMA TypeOKNext == IInv /\ [Next]_vars => TypeOK'
<1> SUFFICES ASSUME IInv, [Next]_vars
             PROVE  TypeOK'
  OBVIOUS
<1>0. TypeOK /\ UriIsLongOrAbsolute /\ Hop \in 1..(MaxDepth + 1) /\ MaxDepth \in Nat
      /\ (depth > 0 => Hop \in 1..MaxDepth)
  BY HopType, ProxyAssumption DEF IInv
<1>1. CASE Abort
  BY <1>0, <1>1 DEF TypeOK, Abort, Return
<1>2. CASE SendRequest
  <2>1. ExtractNonProxyUri(prefix, uri) \in Seq(Char)
    BY <1>0, ExtractedIsAbsolute, ProxyAssumption DEF TypeOK, UriIsLongOrAbsolute
  <2> QED
    BY <1>0, <1>2, <2>1 DEF TypeOK, SendRequest
<1>3. CASE Throw
  BY <1>0, <1>3 DEF TypeOK, Throw, Return
<1>4. CASE EndOfHeaders
  BY <1>0, <1>4 DEF TypeOK, EndOfHeaders
<1>5. CASE ReadBody
  BY <1>0, <1>5 DEF TypeOK, ReadBody, Return
<1>6. ASSUME NEW c \in Codes, ReadStatus(c)
      PROVE  TypeOK'
  BY <1>0, <1>6 DEF TypeOK, ReadStatus
<1>7. ASSUME NEW c \in Codes \cup {0}, MissStatus(c)
      PROVE  TypeOK'
  <2>1. status' \in [code : Codes \cup {0, NotFound}, hop : 0..(MaxDepth + 1)]
    BY <1>0, <1>7 DEF MissStatus
  <2> QED
    BY <1>0, <1>7, <2>1 DEF TypeOK, MissStatus
<1>8. ASSUME NEW n \in Names, AddHeader(n)
      PROVE  TypeOK'
  BY <1>0, <1>8 DEF TypeOK, AddHeader
<1>9. ASSUME NEW l \in Locations, Redirect(l)
      PROVE  TypeOK'
  <2>1. l \in Seq(Char) /\ NewPath(l) \in Seq(Char)
    BY NewPathIsPath, ProxyAssumption
  <2>2. depth' \in 0..MaxDepth
    BY <1>0, <1>9 DEF TypeOK, Redirect
  <2> QED
    BY <1>0, <1>9, <2>1, <2>2 DEF TypeOK, Redirect
<1>10. CASE UNCHANGED vars
  BY <1>0, <1>10 DEF TypeOK, vars
<1> QED
  BY <1>1, <1>2, <1>3, <1>4, <1>5, <1>6, <1>7, <1>8, <1>9, <1>10 DEF Next

LEMMA UriNext == IInv /\ [Next]_vars => UriIsLongOrAbsolute' /\ AbsoluteInHop'
<1> SUFFICES ASSUME IInv, [Next]_vars
             PROVE  UriIsLongOrAbsolute' /\ AbsoluteInHop'
  OBVIOUS
<1>0. TypeOK /\ UriIsLongOrAbsolute /\ AbsoluteInHop
  BY DEF IInv
<1>1. CASE SendRequest
  <2>1. Absolute(ExtractNonProxyUri(prefix, uri))
    BY <1>0, ExtractedIsAbsolute, ProxyAssumption DEF TypeOK, UriIsLongOrAbsolute
  <2> QED
    BY <1>0, <1>1, <2>1 DEF SendRequest, UriIsLongOrAbsolute, AbsoluteInHop, Absolute
<1>2. ASSUME NEW l \in Locations, Redirect(l)
      PROVE  UriIsLongOrAbsolute' /\ AbsoluteInHop'
  <2>1. Absolute(NewPath(l))
    BY NewPathIsPath, ProxyAssumption
  <2> QED
    BY <1>2, <2>1 DEF Redirect, UriIsLongOrAbsolute, AbsoluteInHop, InHop, Absolute
<1>3. ASSUME UNCHANGED <<prefix, uri, sent>>, InHop' => InHop
      PROVE  UriIsLongOrAbsolute' /\ AbsoluteInHop'
  BY <1>0, <1>3 DEF UriIsLongOrAbsolute, AbsoluteInHop, Absolute
<1>4. \/ SendRequest \/ \E l \in Locations : Redirect(l)
      \/ UNCHANGED <<prefix, uri, sent>> /\ (InHop' => InHop)
  BY DEF Next, Abort, Throw, EndOfHeaders, ReadBody, ReadStatus, MissStatus, AddHeader,
         Return, vars, InHop
<1> QED
  BY <1>1, <1>2, <1>3, <1>4

LEMMA ResponseNext == IInv /\ [Next]_vars => ResponseSoFar' /\ LastServerAnswers'
<1> SUFFICES ASSUME IInv, [Next]_vars
             PROVE  ResponseSoFar' /\ LastServerAnswers'
  OBVIOUS
<1>0. TypeOK /\ ResponseSoFar /\ LastServerAnswers
  BY DEF IInv
<1> USE DEF ResponseSoFar, LastServerAnswers, Hop
<1>1. CASE Abort
  BY <1>0, <1>1 DEF Abort, Return
<1>2. CASE SendRequest
  BY <1>0, <1>2 DEF SendRequest
<1>3. CASE Throw
  BY <1>0, <1>3 DEF Throw, Return
<1>4. CASE EndOfHeaders
  BY <1>0, <1>4 DEF EndOfHeaders
<1>5. CASE ReadBody
  BY <1>0, <1>5 DEF TypeOK, ReadBody, Return
<1>6. ASSUME NEW c \in Codes, ReadStatus(c)
      PROVE  ResponseSoFar' /\ LastServerAnswers'
  BY <1>0, <1>6 DEF ReadStatus
<1>7. ASSUME NEW c \in Codes \cup {0}, MissStatus(c)
      PROVE  ResponseSoFar' /\ LastServerAnswers'
  BY <1>0, <1>7 DEF MissStatus
<1>8. ASSUME NEW n \in Names, AddHeader(n)
      PROVE  ResponseSoFar' /\ LastServerAnswers'
  BY <1>0, <1>8 DEF TypeOK, AddHeader
<1>9. ASSUME NEW l \in Locations, Redirect(l)
      PROVE  ResponseSoFar' /\ LastServerAnswers'
  BY <1>0, <1>9 DEF Redirect
<1>10. CASE UNCHANGED vars
  BY <1>0, <1>10 DEF vars
<1> QED
  BY <1>1, <1>2, <1>3, <1>4, <1>5, <1>6, <1>7, <1>8, <1>9, <1>10 DEF Next

LEMMA IInvHolds == Spec => []IInv
<1>1. IInv /\ [Next]_vars => IInv'
  BY TypeOKNext, UriNext, ResponseNext DEF IInv
<1> QED
  BY <1>1, IInit, PTL DEF Spec

(* The locals and the response keep their type; in particular depth never  *)
(* passes 0 (proxy_handler.cc:163).                                        *)
THEOREM TypeCorrect == Spec => []TypeOK
<1>1. IInv => TypeOK
  BY DEF IInv
<1> QED
  BY IInvHolds, <1>1, PTL

(* For any chain of redirects, the response is the last server's, or the   *)
(* handler's own 404 at the limit (proxy_handler.cc:163-242).              *)
THEOREM LastServerAnswersHolds == Spec => []LastServerAnswers
<1>1. IInv => LastServerAnswers
  BY DEF IInv
<1> QED
  BY IInvHolds, <1>1, PTL

(* For any prefix and any locations, each request line sent has an         *)
(* absolute path (proxy_handler.cc:47-61 and 72-98).                       *)
THEOREM AbsolutePathSentHolds == Spec => []AbsolutePathSent
<1>1. IInv => AbsolutePathSent
  BY DEF IInv, AbsoluteInHop, InHop, Absolute, AbsolutePathSent
<1> QED
  BY IInvHolds, <1>1, PTL
-----------------------------------------------------------------------------
(* A redirected request is for the path that its location asks for, or for *)
(* what is left of it without the prefix.                                  *)
Redirected == depth < MaxDepth =>
                /\ pc # "done" => \E l \in Locations : asked = l /\ uri = NewPath(l)
                /\ prefix = <<Slash>> /\ InHop => RootCut(uri, sent)

(* For any locations, also with paths that begin with several slashes, a   *)
(* handler for "/" requests the path that the location asks for, less one  *)
(* of two slashes at its beginning, as proxy_handler_test.cc:329-337       *)
(* expects of a path without such slashes (proxy_handler.cc:47-61, 179).   *)
THEOREM NewLocationRequestedHolds == Spec => []NewLocationRequested
<1>1. Init => Redirected
  BY ProxyAssumption DEF Init, Redirected
<1>2. IInv /\ Redirected /\ [Next]_vars => Redirected'
  <2> SUFFICES ASSUME IInv, Redirected, [Next]_vars
               PROVE  Redirected'
    OBVIOUS
  <2>0. depth \in Nat /\ depth <= MaxDepth /\ MaxDepth \in Nat
    BY ProxyAssumption DEF IInv, TypeOK
  <2>1. CASE SendRequest
    <3>1. ASSUME depth < MaxDepth, prefix = <<Slash>>
          PROVE  RootCut(uri, ExtractNonProxyUri(prefix, uri))
      <4>1. PICK l \in Locations : uri = NewPath(l)
        BY <2>1, <3>1 DEF Redirected, SendRequest
      <4>2. NewPath(l) \in Seq(Char) /\ Absolute(NewPath(l))
        BY NewPathIsPath, ProxyAssumption
      <4> QED
        BY <3>1, <4>1, <4>2, RootPrefixIsCut
    <3> QED
      BY <2>0, <2>1, <3>1 DEF SendRequest, Redirected, InHop
  <2>2. ASSUME NEW l \in Locations, Redirect(l)
        PROVE  Redirected'
    BY <2>2 DEF Redirect, Redirected, InHop
  <2>3. \/ SendRequest \/ \E l \in Locations : Redirect(l)
        \/ /\ UNCHANGED <<depth, prefix, uri, sent, asked>>
           /\ InHop' => InHop
           /\ pc = "done" => pc' = "done"
    BY DEF Next, Abort, Throw, EndOfHeaders, ReadBody, ReadStatus, MissStatus, AddHeader,
           Return, vars, InHop
  <2> QED
    BY <2>1, <2>2, <2>3 DEF Redirected
<1>3. IInv /\ Redirected => NewLocationRequested
  <2> SUFFICES ASSUME Redirected, InHop, depth < MaxDepth, prefix = <<Slash>>
               PROVE  \/ IsPathOf(sent, asked) /\ ~TwoSlashes(sent)
                      \/ TwoSlashes(<<Slash>> \o sent) /\ IsPathOf(<<Slash>> \o sent, asked)
    BY DEF NewLocationRequested, InHop
  <2>1. PICK l \in Locations : asked = l /\ uri = NewPath(l)
    BY DEF Redirected, InHop
  <2>2. IsPathOf(uri, asked)
    BY <2>1, NewPathIsPath, ProxyAssumption
  <2> QED
    BY <2>2 DEF Redirected, RootCut
<1> QED
  BY <1>1, <1>2, <1>3, IInvHolds, PTL DEF Spec
-----------------------------------------------------------------------------
(* CloudFileHandler.                                                       *)

(* A name that is not shared belongs to one download and to no script of   *)
(* an earlier run.                                                         *)
Alone(t) == /\ \A o \in Busy : o # t => name[o] # name[t]
            /\ \A o \in orphans : o.name # name[t]

UnsharedAlone == \A t \in Busy : name[t] \notin shared => Alone(t)

(* What an unshared download has put in place is there until it is removed.*)
FileIsOwn == \A t \in Threads : step[t] = "fetched" /\ name[t] \notin shared =>
                                  disk[name[t]] = key[t]

DownloadsInv == CloudTypeOK /\ UnsharedAlone /\ FileIsOwn /\ BodyIsOwn

LEMMA NewName == ASSUME CloudTypeOK, counter < MaxDownloads, NEW k \in Keys
                 PROVE  NameOf(counter + 1, k) \in DownloadNames /\ counter + 1 \in 1..MaxDownloads
<1>1. counter + 1 \in 1..MaxDownloads
  BY CloudAssumption DEF CloudTypeOK
<1> QED
  BY <1>1 DEF DownloadNames

LEMMA DownloadsInit == CloudInit => CloudTypeOK
  BY CloudAssumption DEF CloudInit, CloudTypeOK, Busy

LEMMA DownloadsTyped == CloudTypeOK /\ [CloudNext]_cloudVars => CloudTypeOK'
<1> SUFFICES ASSUME CloudTypeOK, [CloudNext]_cloudVars
             PROVE  CloudTypeOK'
  OBVIOUS
<1> USE CloudAssumption DEF CloudTypeOK, Busy
<1>1. ASSUME NEW t \in Threads, NEW k \in Keys, GenerateName(t, k)
      PROVE  CloudTypeOK'
  <2>1. counter < MaxDownloads
    BY <1>1 DEF GenerateName, Begin
  <2>2. NameOf(counter + 1, k) \in DownloadNames /\ counter + 1 \in 1..MaxDownloads
    BY <2>1, NewName
  <2> QED
    BY <1>1, <2>2 DEF GenerateName, Begin
<1>2. ASSUME NEW t \in Threads,
             Fetch(t) \/ FetchFails(t) \/ FileToString(t) \/ CleanUp(t) \/ CleanUpFails(t)
      PROVE  CloudTypeOK'
  BY <1>2 DEF Fetch, FetchFails, FileToString, CleanUp, CleanUpFails
<1>3. CASE Restart
  <2>1. orphans' \subseteq [name : DownloadNames, key : Keys]
    BY <1>3 DEF Restart
  <2> QED
    BY <1>3, <2>1 DEF Restart
<1>4. ASSUME NEW o \in orphans, OrphanEnds(o)
      PROVE  CloudTypeOK'
  BY <1>4 DEF OrphanEnds
<1>5. CASE UNCHANGED cloudVars
  BY <1>5 DEF cloudVars
<1> QED
  BY <1>1, <1>2, <1>3, <1>4, <1>5 DEF CloudNext

LEMMA DownloadsNext ==
  DownloadsInv /\ [CloudNext]_cloudVars => UnsharedAlone' /\ FileIsOwn' /\ BodyIsOwn'
<1> SUFFICES ASSUME DownloadsInv, [CloudNext]_cloudVars
             PROVE  UnsharedAlone' /\ FileIsOwn' /\ BodyIsOwn'
  OBVIOUS
<1>0. CloudTypeOK
  BY DEF DownloadsInv
<1> USE <1>0 DEF DownloadsInv, CloudTypeOK, Busy, UnsharedAlone, Alone, FileIsOwn, BodyIsOwn
<1>1. ASSUME NEW t \in Threads, NEW k \in Keys, GenerateName(t, k)
      PROVE  UnsharedAlone' /\ FileIsOwn' /\ BodyIsOwn'
  <2> DEFINE n == NameOf(counter + 1, k)
  <2>1. /\ name' = [name EXCEPT ![t] = n]
        /\ step' = [step EXCEPT ![t] = "fetching"]
        /\ key' = [key EXCEPT ![t] = k]
        /\ contents' = [contents EXCEPT ![t] = None]
        /\ shared' = shared \cup (InUse \cap {n})
        /\ step[t] = "idle"
        /\ UNCHANGED <<disk, orphans>>
    BY <1>1 DEF GenerateName, Begin
  <2> HIDE DEF n
  <2>2. n \notin shared' =>
          (\A o \in Busy : name[o] # n) /\ \A o \in orphans : o.name # n
    BY <2>1 DEF InUse
  <2>3. UnsharedAlone'
    BY <2>1, <2>2
  <2>4. FileIsOwn' /\ BodyIsOwn'
    BY <2>1
  <2> QED
    BY <2>3, <2>4
<1>2. ASSUME NEW t \in Threads, Fetch(t)
      PROVE  UnsharedAlone' /\ FileIsOwn' /\ BodyIsOwn'
  <2>1. UnsharedAlone' /\ BodyIsOwn'
    BY <1>2 DEF Fetch
  <2>2. ASSUME NEW u \in Threads, step'[u] = "fetched", name[u] \notin shared
        PROVE  disk'[name[u]] = key[u]
    BY <1>2, <2>2 DEF Fetch
  <2> QED
    BY <1>2, <2>1, <2>2 DEF Fetch
<1>3. ASSUME NEW t \in Threads, FetchFails(t)
      PROVE  UnsharedAlone' /\ FileIsOwn' /\ BodyIsOwn'
  BY <1>3 DEF FetchFails
<1>4. ASSUME NEW t \in Threads, FileToString(t)
      PROVE  UnsharedAlone' /\ FileIsOwn' /\ BodyIsOwn'
  BY <1>4 DEF FileToString
<1>5. ASSUME NEW t \in Threads, CleanUp(t)
      PROVE  UnsharedAlone' /\ FileIsOwn' /\ BodyIsOwn'
  <2>1. UnsharedAlone' /\ BodyIsOwn'
    BY <1>5 DEF CleanUp
  <2>2. ASSUME NEW u \in Threads, step'[u] = "fetched", name[u] \notin shared
        PROVE  disk'[name[u]] = key[u]
    BY <1>5, <2>2 DEF CleanUp
  <2> QED
    BY <1>5, <2>1, <2>2 DEF CleanUp
<1>6. CASE Restart
  BY <1>6 DEF Restart
<1>7. ASSUME NEW o \in orphans, OrphanEnds(o)
      PROVE  UnsharedAlone' /\ FileIsOwn' /\ BodyIsOwn'
  <2>1. UnsharedAlone' /\ BodyIsOwn'
    BY <1>7 DEF OrphanEnds
  <2>2. ASSUME NEW u \in Threads, step[u] = "fetched", name[u] \notin shared
        PROVE  disk'[name[u]] = key[u]
    BY <1>7, <2>2 DEF OrphanEnds
  <2> QED
    BY <1>7, <2>1, <2>2 DEF OrphanEnds
<1>8. CASE UNCHANGED cloudVars
  BY <1>8 DEF cloudVars
<1>9. ASSUME NEW t \in Threads, CleanUpFails(t)
      PROVE  UnsharedAlone' /\ FileIsOwn' /\ BodyIsOwn'
  BY <1>9 DEF CleanUpFails
<1> QED
  BY <1>1, <1>2, <1>3, <1>4, <1>5, <1>6, <1>7, <1>8, <1>9 DEF CloudNext

LEMMA DownloadsInvHolds == CloudSpec => []DownloadsInv
<1>1. CloudInit => DownloadsInv
  <2>1. CloudInit => UnsharedAlone /\ FileIsOwn /\ BodyIsOwn
    BY DEF CloudInit, UnsharedAlone, FileIsOwn, BodyIsOwn, Busy
  <2> QED
    BY <2>1, DownloadsInit DEF DownloadsInv
<1>2. DownloadsInv /\ [CloudNext]_cloudVars => DownloadsInv'
  BY DownloadsTyped, DownloadsNext DEF DownloadsInv
<1> QED
  BY <1>1, <1>2, PTL DEF CloudSpec

(* The state of the handler keeps its type (cloud_file_handler.cc:34-92).  *)
THEOREM DownloadsTypeCorrect == CloudSpec => []CloudTypeOK
<1>1. DownloadsInv => CloudTypeOK
  BY DEF DownloadsInv
<1> QED
  BY DownloadsInvHolds, <1>1, PTL

(* For any number of threads and of restarts, a download whose name nobody *)
(* else held is answered with the file that was asked for                  *)
(* (cloud_file_handler.cc:56-75).                                          *)
THEOREM BodyIsOwnHolds == CloudSpec => []BodyIsOwn
<1>1. DownloadsInv => BodyIsOwn
  BY DEF DownloadsInv
<1> QED
  BY DownloadsInvHolds, <1>1, PTL

-----------------------------------------------------------------------------
(* Every file is that of a request in progress, or one that rm has failed  *)
(* to remove, or was left when the server ended; a script that has         *)
(* outlived it is among the latter.                                        *)
OrphansAbandoned == \A o \in orphans : o.name \in abandoned

FilesInv == CloudTypeOK /\ FilesAreOwned /\ OrphansAbandoned

LEMMA FilesNext == FilesInv /\ [CloudNext]_cloudVars => FilesAreOwned' /\ OrphansAbandoned'
<1> SUFFICES ASSUME FilesInv, [CloudNext]_cloudVars
             PROVE  FilesAreOwned' /\ OrphansAbandoned'
  OBVIOUS
<1> USE DEF FilesInv, CloudTypeOK, Busy, FilesAreOwned, OrphansAbandoned
<1>1. ASSUME NEW t \in Threads, NEW k \in Keys, GenerateName(t, k)
      PROVE  FilesAreOwned' /\ OrphansAbandoned'
  BY <1>1 DEF GenerateName, Begin
<1>2. ASSUME NEW t \in Threads, Fetch(t) \/ FetchFails(t) \/ FileToString(t)
      PROVE  FilesAreOwned' /\ OrphansAbandoned'
  BY <1>2 DEF Fetch, FetchFails, FileToString
<1>3. ASSUME NEW t \in Threads, CleanUp(t) \/ CleanUpFails(t)
      PROVE  FilesAreOwned' /\ OrphansAbandoned'
  BY <1>3 DEF CleanUp, CleanUpFails
<1>4. CASE Restart
  <2>1. OrphansAbandoned'
    BY <1>4 DEF Restart
  <2>2. FilesAreOwned'
    BY <1>4 DEF Restart
  <2> QED
    BY <2>1, <2>2
<1>5. ASSUME NEW o \in orphans, OrphanEnds(o)
      PROVE  FilesAreOwned' /\ OrphansAbandoned'
  BY <1>5 DEF OrphanEnds
<1>6. CASE UNCHANGED cloudVars
  BY <1>6 DEF cloudVars
<1> QED
  BY <1>1, <1>2, <1>3, <1>4, <1>5, <1>6 DEF CloudNext

(* Whatever the names, no request leaves its file behind; only the end of  *)
(* the server and a failing rm do (cloud_file_handler.cc:83-92).           *)
THEOREM FilesAreOwnedHolds == CloudSpec => []FilesAreOwned
<1>1. CloudInit => FilesInv
  <2>1. CloudInit => FilesAreOwned /\ OrphansAbandoned
    BY DEF CloudInit, FilesAreOwned, OrphansAbandoned
  <2> QED
    BY <2>1, DownloadsInit DEF FilesInv
<1>2. FilesInv /\ [CloudNext]_cloudVars => FilesInv'
  BY DownloadsTyped, FilesNext DEF FilesInv
<1>3. FilesInv => FilesAreOwned
  BY DEF FilesInv
<1> QED
  BY <1>1, <1>2, <1>3, PTL DEF CloudSpec

-----------------------------------------------------------------------------
(* The name of every download in progress was made from a value that the   *)
(* counter has had.                                                        *)
NamesFromCounter == \A t \in Busy : \E n \in 1..counter : name[t] = NameOf(n, key[t])

NamesInv == CloudTypeOK /\ NamesFromCounter /\ NamesDistinct

LEMMA NamesNext == ASSUME Unambiguous
                   PROVE  NamesInv /\ [CloudNext]_cloudVars => NamesFromCounter' /\ NamesDistinct'
<1> SUFFICES ASSUME NamesInv, [CloudNext]_cloudVars
             PROVE  NamesFromCounter' /\ NamesDistinct'
  OBVIOUS
<1> USE DEF NamesInv, CloudTypeOK, Busy, NamesFromCounter, NamesDistinct
<1>1. ASSUME NEW t \in Threads, NEW k \in Keys, GenerateName(t, k)
      PROVE  NamesFromCounter' /\ NamesDistinct'
  <2>1. /\ name' = [name EXCEPT ![t] = NameOf(counter + 1, k)]
        /\ step' = [step EXCEPT ![t] = "fetching"]
        /\ key' = [key EXCEPT ![t] = k]
        /\ counter' = counter + 1
        /\ counter < MaxDownloads
    BY <1>1 DEF GenerateName, Begin
  <2>2. counter + 1 \in 1..MaxDownloads /\ counter + 1 \in 1..counter'
    BY <2>1, NewName, CloudAssumption
  <2>3. 1..counter \subseteq 1..counter' /\ 1..counter \subseteq 1..MaxDownloads
    BY <2>1, CloudAssumption
  <2>4. ASSUME NEW o \in Busy, o # t
        PROVE  name[o] # NameOf(counter + 1, k)
    <3>1. PICK n \in 1..counter : name[o] = NameOf(n, key[o])
      OBVIOUS
    <3>2. n # counter + 1 /\ n \in 1..MaxDownloads
      BY <2>1, <2>3
    <3> QED
      BY <2>2, <3>1, <3>2 DEF Unambiguous
  <2>5. NamesDistinct'
    BY <2>1, <2>4
  <2>6. ASSUME NEW o \in Busy, o # t
        PROVE  \E n \in 1..counter' : name'[o] = NameOf(n, key'[o])
    BY <2>1, <2>3, <2>6
  <2>7. \E n \in 1..counter' : name'[t] = NameOf(n, key'[t])
    BY <2>1, <2>2
  <2> QED
    BY <2>1, <2>5, <2>6, <2>7
<1>2. ASSUME NEW t \in Threads,
             Fetch(t) \/ FetchFails(t) \/ FileToString(t) \/ CleanUp(t) \/ CleanUpFails(t)
      PROVE  NamesFromCounter' /\ NamesDistinct'
  <2>1. UNCHANGED <<counter, key, name>> /\ Busy' \subseteq Busy
    BY <1>2 DEF Fetch, FetchFails, FileToString, CleanUp, CleanUpFails
  <2> QED
    BY <2>1
<1>3. CASE Restart
  BY <1>3 DEF Restart
<1>4. ASSUME NEW o \in orphans, OrphanEnds(o)
      PROVE  NamesFromCounter' /\ NamesDistinct'
  BY <1>4 DEF OrphanEnds
<1>5. CASE UNCHANGED cloudVars
  BY <1>5 DEF cloudVars
<1> QED
  BY <1>1, <1>2, <1>3, <1>4, <1>5 DEF CloudNext

(* If no counter with its extension can be read as another counter with    *)
(* another extension, downloads in progress have names of their own; the   *)
(* code does not see to that (cloud_file_handler.cc:34-39 and 56-63).      *)
THEOREM NamesDistinctHolds == ASSUME Unambiguous
                              PROVE  CloudSpec => []NamesDistinct
<1>1. CloudInit => NamesInv
  <2>1. CloudInit => NamesFromCounter /\ NamesDistinct
    BY DEF CloudInit, NamesFromCounter, NamesDistinct, Busy
  <2> QED
    BY <2>1, DownloadsInit DEF NamesInv
<1>2. NamesInv /\ [CloudNext]_cloudVars => NamesInv'
  BY DownloadsTyped, NamesNext DEF NamesInv
<1>3. NamesInv => NamesDistinct
  BY DEF NamesInv
<1> QED
  BY <1>1, <1>2, <1>3, PTL DEF CloudSpec
=============================================================================
