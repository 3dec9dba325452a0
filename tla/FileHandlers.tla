---------------------------- MODULE FileHandlers ----------------------------
(***************************************************************************)
(* StaticHandler and MarkdownHandler at work on several threads            *)
(* (handlers/file_handler.cc, handlers/markdown_handler.cc): a file is     *)
(* looked for and then read from a disk that other programs change, and a  *)
(* page in Markdown is converted with tables of HTML tags that the first   *)
(* conversion fills (isValidTag, markdown/markdown-tokens.cpp).            *)
(*                                                                         *)
(* A URI stands for the file it leads to behind the prefix of its handler. *)
(* Of a conversion, the tags are followed that it looks up; what it makes  *)
(* of them is in Markdown and Emphasis.                                    *)
(***************************************************************************)
EXTENDS Integers, Sequences, SequencesExt

CONSTANTS Threads,      \* the threads of the pool
          Files,        \* the files that URIs lead to
          Texts,        \* what regular files contain
          Extension,    \* of each file: "none", or what follows its last dot
          LookUps,      \* of each text: the tags its conversion looks up
          OtherTagInit, \* cOtherTagInit and cBlockTagInit, the
          BlockTagInit  \*   initialisers of the two tables

OtherTag == ToSet(OtherTagInit)
BlockTag == ToSet(BlockTagInit)

\* tag and nonBlockFirst are the parameters of isValidTag.
LookUp == [tag : STRING, nonBlockFirst : BOOLEAN]

Gone   == "gone"    \* no such file, or a directory
Socket == "socket"  \* no regular file, but its mode has the bit S_IFREG
Node == Texts \cup {Gone, Socket}

ASSUME FileAssumption ==
  /\ Extension \in [Files -> STRING]
  /\ LookUps \in [Texts -> Seq(LookUp)]
  /\ OtherTagInit \in Seq(STRING)
  /\ BlockTagInit \in Seq(STRING) \ {<<>>}
  /\ Gone \notin Texts /\ Socket \notin Texts

VARIABLES up,           \* the process runs
          disk,         \* what each file is
          stage,        \* how far HandleRequest is on each thread
          request,      \* the handler, the file, and whether the prefix is right
          status,       \* the status of the response
          type,         \* its Content-Type
          body,         \* the file's text, as far as it could be read
          answers,      \* what isValidTag has returned to the conversion
          otherTags,    \* the
          blockTags,    \*   two tables
          todo,         \* how much of the initialisers initTag has yet to insert
          rewritten,    \* whether the file copied has been written in place meanwhile
          held,         \* ghost: what the file was from the request to the opening
          disturbed,    \* ghost: the tables were written while the page used them
          torn          \* ghost: two threads wrote the tables at once

vars == <<up, disk, stage, request, status, type, body, answers, otherTags, blockTags,
          todo, rewritten, held, disturbed, torn>>

tables == <<otherTags, blockTags, todo, torn>>

Handlers == {"StaticHandler", "MarkdownHandler"}

\* request.uri() begins with m_uri_prefix_, unless HandleRequest is called
\* otherwise than by do_read.
Request == [handler : Handlers, file : Files, prefixed : BOOLEAN]

NoRequest == [handler |-> "none"]

Init == /\ up = TRUE
        /\ disk \in [Files -> Node]
        /\ stage = [t \in Threads |-> "idle"]
        /\ request = [t \in Threads |-> NoRequest]
        /\ status = [t \in Threads |-> 0]
        /\ type = [t \in Threads |-> "none"]
        /\ body = [t \in Threads |-> Gone]
        /\ answers = [t \in Threads |-> <<>>]
        /\ otherTags = {}
        /\ blockTags = {}
        /\ todo = [t \in Threads |-> <<>>]
        /\ rewritten = [t \in Threads |-> FALSE]
        /\ held = [t \in Threads |-> {}]
        /\ disturbed = [t \in Threads |-> FALSE]
        /\ torn = FALSE

GoTo(t, s) == stage' = [stage EXCEPT ![t] = s]

Respond(t, code, contentType) == /\ status' = [status EXCEPT ![t] = code]
                                 /\ type' = [type EXCEPT ![t] = contentType]
-----------------------------------------------------------------------------
HandleRequest(t, r) ==
  /\ up /\ stage[t] = "idle"
  /\ request' = [request EXCEPT ![t] = r]
  /\ IF r.prefixed THEN GoTo(t, "check") /\ UNCHANGED <<status, type>>
                   ELSE GoTo(t, "answered") /\ Respond(t, 400, "text/html")
  /\ held' = [held EXCEPT ![t] = {disk[r.file]}]
  /\ UNCHANGED <<up, disk, body, answers, tables, rewritten, disturbed>>

\* s.st_mode & S_IFREG
FileExists(node) == node # Gone

\* The table of GetMimeType, for a few of its extensions; it knows no "md".
MimeTypes == [txt |-> "text/plain", html |-> "text/html", jpg |-> "image/jpeg"]

GetMimeType(extension) == IF extension \in DOMAIN MimeTypes THEN MimeTypes[extension]
                                                            ELSE "application/octet-stream"

IsMarkdown(r) == r.handler = "MarkdownHandler" /\ Extension[r.file] = "md"

ContentType(r) == IF IsMarkdown(r) THEN "html" ELSE GetMimeType(Extension[r.file])

\* NotFoundHandler answers when there is no such file.
CheckFile(t) ==
  /\ up /\ stage[t] = "check"
  /\ IF FileExists(disk[request[t].file])
       THEN GoTo(t, "read") /\ Respond(t, 200, ContentType(request[t]))
       ELSE GoTo(t, "answered") /\ Respond(t, 404, "text/plain")
  /\ UNCHANGED <<up, disk, request, body, answers, tables, rewritten, held, disturbed>>

\* Slip: what there is passes for a text.
OpenFileUnopened(t) ==
  /\ up /\ stage[t] = "read"
  /\ GoTo(t, "copy")
  /\ body' = [body EXCEPT ![t] = disk[request[t].file]]
  /\ UNCHANGED <<up, disk, request, status, type, answers, tables, rewritten, held, disturbed>>

\* A file that cannot be opened any more has an empty text, and the status
\* stays; there is nothing to look up in the document then.
OpenFile(t) ==
  /\ up /\ stage[t] = "read"
  /\ IF disk[request[t].file] \in Texts
       THEN GoTo(t, "copy") /\ body' = [body EXCEPT ![t] = disk[request[t].file]]
       ELSE GoTo(t, "answered") /\ body' = [body EXCEPT ![t] = Gone]
  /\ held' = [held EXCEPT ![t] = IF stage'[t] = "copy" THEN @ ELSE {}]
  /\ UNCHANGED <<up, disk, request, status, type, answers, tables, rewritten, disturbed>>

\* Slip: the buffer may still have the text of another file.
CopyFileAppends(t) ==
  /\ up /\ stage[t] = "copy"
  /\ \E text \in Texts : body' = [body EXCEPT ![t] = text]
  /\ GoTo(t, IF IsMarkdown(request[t]) THEN "convert" ELSE "answered")
  /\ rewritten' = [rewritten EXCEPT ![t] = FALSE]
  /\ held' = [held EXCEPT ![t] = {}]
  /\ UNCHANGED <<up, disk, request, status, type, answers, tables, disturbed>>

\* The text is copied piece by piece.  A file replaced or removed meanwhile
\* is read to its end; of one written in place anything may be read, also
\* parts of several texts, or nothing.
CopyFile(t) ==
  /\ up /\ stage[t] = "copy"
  /\ \E text \in {body[t]} \cup (IF rewritten[t] THEN Texts \cup {Gone} ELSE {}) :
       /\ body' = [body EXCEPT ![t] = text]
       /\ GoTo(t, IF IsMarkdown(request[t]) /\ text # Gone THEN "convert" ELSE "answered")
  /\ rewritten' = [rewritten EXCEPT ![t] = FALSE]
  /\ held' = [held EXCEPT ![t] = {}]
  /\ UNCHANGED <<up, disk, request, status, type, answers, tables, disturbed>>
-----------------------------------------------------------------------------
Inserted(e) == IF e[1] = "other" THEN e[2] \in otherTags ELSE e[2] \in blockTags

\* What thread t has yet to insert would change the tables.
Writing(t) == stage[t] = "init" /\ \E k \in 1..Len(todo[t]) : ~Inserted(todo[t][k])

Disturbs(t) == \E u \in Threads \ {t} : Writing(u)

Entries(table, init) == [k \in 1..Len(init) |-> <<table, init[k]>>]

InitTables(t) ==
  todo' = [todo EXCEPT ![t] = Entries("other", OtherTagInit) \o Entries("block", BlockTagInit)]

\* isValidTag: the tables are taken to be filled once blockTags is not empty.
IsValidTag(t) ==
  /\ up /\ stage[t] = "convert" /\ Len(answers[t]) < Len(LookUps[body[t]])
  /\ IF blockTags = {} THEN GoTo(t, "init") /\ InitTables(t)
                        ELSE GoTo(t, "find") /\ UNCHANGED todo
  /\ disturbed' = [disturbed EXCEPT ![t] = @ \/ Disturbs(t)]
  /\ UNCHANGED <<up, disk, request, status, type, body, answers, otherTags, blockTags,
                 rewritten, held, torn>>

\* initTag, one insertion.  No lock keeps two threads from inserting into a
\* table at once; an element may then be lost, of this insertion or another.
InsertTag(t) ==
  /\ up /\ stage[t] = "init" /\ todo[t] # <<>>
  /\ todo' = [todo EXCEPT ![t] = Tail(@)]
  /\ \E lost \in {{}} \cup (IF Writing(t) /\ Disturbs(t)
                             THEN {{tag} : tag \in OtherTag \cup BlockTag} ELSE {}) :
       IF Head(todo[t])[1] = "other"
         THEN otherTags' = (otherTags \cup {Head(todo[t])[2]}) \ lost /\ UNCHANGED blockTags
         ELSE blockTags' = (blockTags \cup {Head(todo[t])[2]}) \ lost /\ UNCHANGED otherTags
  /\ torn' = (torn \/ (Writing(t) /\ Disturbs(t)))
  /\ UNCHANGED <<up, disk, stage, request, status, type, body, answers, rewritten, held, disturbed>>

TablesFilled(t) == /\ up /\ stage[t] = "init" /\ todo[t] = <<>>
                   /\ GoTo(t, "find")
                   /\ UNCHANGED <<up, disk, request, status, type, body, answers, tables, rewritten,
                                  held, disturbed>>

\* 0: not a tag, 1: not a tag of blocks, 2: a tag of blocks.
Validity(others, blocks, l) ==
  LET known == (IF l.tag \in others THEN {1} ELSE {}) \cup (IF l.tag \in blocks THEN {2} ELSE {})
  IN  CASE known = {}     -> 0
        [] known = {1, 2} -> IF l.nonBlockFirst THEN 1 ELSE 2
        [] OTHER          -> CHOOSE v \in known : TRUE

\* Slip: nonBlockFirst is not heeded.
FindTagInBlocks(t) ==
  /\ up /\ stage[t] = "find"
  /\ LET l == [LookUps[body[t]][Len(answers[t]) + 1] EXCEPT !.nonBlockFirst = FALSE]
     IN  answers' = [answers EXCEPT ![t] = Append(@, Validity(otherTags, blockTags, l))]
  /\ disturbed' = [disturbed EXCEPT ![t] = @ \/ Disturbs(t)]
  /\ GoTo(t, "convert")
  /\ UNCHANGED <<up, disk, request, status, type, body, tables, rewritten, held>>

\* A look-up beside an insertion may miss what is there.
FindTag(t) ==
  /\ up /\ stage[t] = "find"
  /\ LET l == LookUps[body[t]][Len(answers[t]) + 1]
     IN  \E v \in {Validity(otherTags, blockTags, l)}
                    \cup (IF Disturbs(t) THEN {0, 1, 2} ELSE {}) :
           answers' = [answers EXCEPT ![t] = Append(@, v)]
  /\ disturbed' = [disturbed EXCEPT ![t] = @ \/ Disturbs(t)]
  /\ GoTo(t, "convert")
  /\ UNCHANGED <<up, disk, request, status, type, body, tables, rewritten, held>>

SetBody(t) == /\ up /\ stage[t] = "convert" /\ Len(answers[t]) = Len(LookUps[body[t]])
              /\ GoTo(t, "answered")
              /\ UNCHANGED <<up, disk, request, status, type, body, answers, tables, rewritten,
                             held, disturbed>>

\* The undefined behaviour of the tables may also end the process.
Fault(t) == /\ up
            /\ \/ Writing(t) /\ Disturbs(t)
               \/ stage[t] = "find" /\ Disturbs(t)
               \/ torn /\ stage[t] \in {"find", "init"}
            /\ up' = FALSE
            /\ UNCHANGED <<disk, stage, request, status, type, body, answers, tables, rewritten,
                           held, disturbed>>

\* The locals of HandleRequest and the response are gone with the session.
Return(t) == /\ up /\ stage[t] = "answered"
             /\ GoTo(t, "idle")
             /\ request' = [request EXCEPT ![t] = NoRequest]
             /\ Respond(t, 0, "none")
             /\ body' = [body EXCEPT ![t] = Gone]
             /\ answers' = [answers EXCEPT ![t] = <<>>]
             /\ held' = [held EXCEPT ![t] = {}]
             /\ disturbed' = [disturbed EXCEPT ![t] = FALSE]
             /\ UNCHANGED <<up, disk, tables, rewritten>>

\* Other programs replace and remove files, and write texts in place.
ChangeFile(f, node, inPlace) ==
  /\ up /\ disk[f] # node
  /\ inPlace => disk[f] \in Texts /\ node \in Texts
  /\ disk' = [disk EXCEPT ![f] = node]
  /\ held' = [t \in Threads |-> IF stage[t] \in {"check", "read"} /\ request[t].file = f
                                  THEN held[t] \cup {node} ELSE held[t]]
  /\ rewritten' = [t \in Threads |-> rewritten[t] \/ ( /\ inPlace
                                                      /\ stage[t] = "copy"
                                                      /\ request[t].file = f )]
  /\ UNCHANGED <<up, stage, request, status, type, body, answers, tables, disturbed>>

Next == \/ \E t \in Threads : \/ \E r \in Request : HandleRequest(t, r)
                              \/ CheckFile(t) \/ OpenFile(t) \/ CopyFile(t)
                              \/ IsValidTag(t) \/ InsertTag(t) \/ TablesFilled(t)
                              \/ FindTag(t) \/ SetBody(t) \/ Fault(t) \/ Return(t)
        \/ \E f \in Files, node \in Node, inPlace \in BOOLEAN : ChangeFile(f, node, inPlace)

Spec == Init /\ [][Next]_vars
-----------------------------------------------------------------------------
Stages == {"idle", "check", "read", "copy", "convert", "init", "find", "answered"}

MediaTypes == {"none", "text/html", "html", "text/plain", "image/jpeg",
               "application/octet-stream"}

(* The locals of HandleRequest on each thread, and the tables.             *)
TypeOK == /\ up \in BOOLEAN
          /\ disk \in [Files -> Node]
          /\ stage \in [Threads -> Stages]
          /\ request \in [Threads -> Request \cup {NoRequest}]
          /\ status \in [Threads -> {0, 200, 400, 404}]
          /\ type \in [Threads -> MediaTypes]
          /\ body \in [Threads -> Texts \cup {Gone}]
          /\ answers \in [Threads -> Seq(0..2)]
          /\ otherTags \subseteq OtherTag /\ blockTags \subseteq BlockTag
          /\ todo \in [Threads -> Seq({"other", "block"} \X (OtherTag \cup BlockTag))]
          /\ rewritten \in [Threads -> BOOLEAN]
          /\ held \in [Threads -> SUBSET Node]
          /\ disturbed \in [Threads -> BOOLEAN] /\ torn \in BOOLEAN

(* What is answered was so while the request was handled, although the     *)
(* file is looked for, opened and copied at different times: a 404 when    *)
(* there was no file, a 200 without a text only when there was none to be  *)
(* read, and the whole of a text that the file had, also when it has been  *)
(* replaced or removed since it was opened.  Only a file written in place  *)
(* while it is copied may be answered with what it never was               *)
(* (file_handler.cc:40-59, markdown_handler.cc:24-59,                      *)
(* file_opener.cc:6-22).                                                   *)
AnswerWasTrue ==
  [][\A t \in Threads :
       /\ stage[t] = "check" /\ status'[t] = 404 => Gone \in held[t]
       /\ stage[t] = "read" /\ stage'[t] = "answered" => ~(held[t] \subseteq Texts)
       /\ stage[t] = "copy" /\ stage'[t] # "copy" /\ ~rewritten[t] => body'[t] \in held[t]]_vars

(* The tables are filled by whichever page comes first, and no lock guards *)
(* them: still a page whose look-ups fell beside no insertion knows every  *)
(* tag, unless two threads have filled the tables at once                  *)
(* (markdown-tokens.cpp:158-203).                                          *)
PagesRight ==
  ~torn => \A t \in Threads : ~disturbed[t] =>
    \A k \in 1..Len(answers[t]) :
      answers[t][k] = Validity(OtherTag, BlockTag, LookUps[body[t]][k])
=============================================================================
