-------------------------- MODULE FileHandlersProofs --------------------------
(***************************************************************************)
(* Theorems about FileHandlers, for any number of threads, any files and   *)
(* texts, and tables of any size.                                          *)
(***************************************************************************)
EXTENDS FileHandlers, SequenceTheorems, TLAPS

\* The entries that the two tables have in the end.
AllEntries == ({"other"} \X OtherTag) \cup ({"block"} \X BlockTag)

(* What a thread is at, apart from the tables.  What the file is now is    *)
(* among what it was since the request, and so is what is being copied.    *)
AtWork(t) ==
  /\ stage[t] # "idle" => request[t] \in Request
  /\ stage[t] \in {"idle", "check"} => status[t] = 0
  /\ stage[t] \in {"idle", "check", "read", "copy"} => answers[t] = <<>>
  /\ stage[t] \in {"check", "read"} => disk[request[t].file] \in held[t]
  /\ stage[t] = "copy" => body[t] \in held[t]

Full == otherTags = OtherTag /\ blockTags = BlockTag

\* Whatever is missing from the tables, t has yet to insert it.
Covers(t) == \A e \in AllEntries : Inserted(e) \/ \E k \in 1..Len(todo[t]) : todo[t][k] = e

(* Unless two threads have written at once, no insertion is lost: a table  *)
(* is incomplete only while a thread is about to complete it, and whoever  *)
(* looks a tag up with nobody writing beside it finds complete tables.     *)
TablesInv ==
  /\ todo \in [Threads -> Seq(AllEntries)]
  /\ ~torn => /\ \A t \in Threads : stage[t] = "init" => Covers(t)
              /\ blockTags # {} => Full \/ \E t \in Threads : Writing(t)
              /\ \A t \in Threads : stage[t] = "find" /\ ~disturbed[t] => Full

IInv == TypeOK /\ (\A t \in Threads : AtWork(t)) /\ TablesInv /\ PagesRight

LEMMA TagTables ==
  /\ OtherTagInit \in Seq(STRING) /\ BlockTagInit \in Seq(STRING) /\ BlockTagInit # <<>>
  /\ OtherTag = {OtherTagInit[i] : i \in 1..Len(OtherTagInit)}
  /\ BlockTag = {BlockTagInit[i] : i \in 1..Len(BlockTagInit)}
  /\ BlockTag # {}
<1>1. OtherTagInit \in Seq(STRING) /\ BlockTagInit \in Seq(STRING) /\ BlockTagInit # <<>>
  BY FileAssumption
<1>2. /\ OtherTag = {OtherTagInit[i] : i \in 1..Len(OtherTagInit)}
      /\ BlockTag = {BlockTagInit[i] : i \in 1..Len(BlockTagInit)}
  BY <1>1 DEF OtherTag, BlockTag, ToSet
<1>3. 1 \in 1..Len(BlockTagInit)
  BY <1>1
<1> QED
  BY <1>1, <1>2, <1>3

(* What initTag sets out to insert is exactly the entries of both tables.  *)
LEMMA InitialEntries ==
  LET all == Entries("other", OtherTagInit) \o Entries("block", BlockTagInit)
  IN  /\ all \in Seq(AllEntries)
      /\ \A e \in AllEntries : \E k \in 1..Len(all) : all[k] = e
<1> DEFINE others == Entries("other", OtherTagInit)
           blocks == Entries("block", BlockTagInit)
           all == others \o blocks
<1>1. /\ others \in Seq(AllEntries) /\ Len(others) = Len(OtherTagInit)
      /\ \A k \in 1..Len(OtherTagInit) : others[k] = <<"other", OtherTagInit[k]>>
  <2>1. \A k \in 1..Len(OtherTagInit) : <<"other", OtherTagInit[k]>> \in AllEntries
    BY TagTables DEF AllEntries
  <2>2. Len(OtherTagInit) \in Nat
    BY TagTables
  <2> QED
    BY <2>1, <2>2 DEF Entries
<1>2. /\ blocks \in Seq(AllEntries) /\ Len(blocks) = Len(BlockTagInit)
      /\ \A k \in 1..Len(BlockTagInit) : blocks[k] = <<"block", BlockTagInit[k]>>
  <2>1. \A k \in 1..Len(BlockTagInit) : <<"block", BlockTagInit[k]>> \in AllEntries
    BY TagTables DEF AllEntries
  <2>2. Len(BlockTagInit) \in Nat
    BY TagTables
  <2> QED
    BY <2>1, <2>2 DEF Entries
<1> HIDE DEF others, blocks
<1>3. /\ all \in Seq(AllEntries) /\ Len(all) = Len(others) + Len(blocks)
      /\ \A k \in 1..(Len(others) + Len(blocks)) :
           all[k] = IF k <= Len(others) THEN others[k] ELSE blocks[k - Len(others)]
  <2>1. others \in Seq(AllEntries) /\ blocks \in Seq(AllEntries)
    BY <1>1, <1>2
  <2> QED
    BY <2>1, ConcatProperties, Zenon
<1>4. ASSUME NEW e \in AllEntries
      PROVE  \E k \in 1..Len(all) : all[k] = e
  <2>1. CASE e \in {"other"} \X OtherTag
    <3>1. PICK i \in 1..Len(OtherTagInit) : e = <<"other", OtherTagInit[i]>>
      BY <2>1, TagTables
    <3>2. i \in 1..Len(all) /\ all[i] = e
      BY <1>1, <1>2, <1>3, <3>1
    <3> QED
      BY <3>2
  <2>2. CASE e \in {"block"} \X BlockTag
    <3>1. PICK i \in 1..Len(BlockTagInit) : e = <<"block", BlockTagInit[i]>>
      BY <2>2, TagTables
    <3> DEFINE k == i + Len(others)
    <3>2. k \in 1..Len(all) /\ ~(k <= Len(others)) /\ k - Len(others) = i
      BY <1>1, <1>2, <1>3, <3>1
    <3>3. all[k] = e
      BY <1>2, <1>3, <3>1, <3>2
    <3> QED
      BY <3>2, <3>3
  <2> QED
    BY <2>1, <2>2 DEF AllEntries
<1> QED
  BY <1>3, <1>4 DEF others, blocks

LEMMA EntriesType == Seq(AllEntries) \subseteq Seq({"other", "block"} \X (OtherTag \cup BlockTag))
<1>1. AllEntries \subseteq {"other", "block"} \X (OtherTag \cup BlockTag)
  BY DEF AllEntries
<1> QED
  BY <1>1

LEMMA ValidityType == \A others, blocks, l : Validity(others, blocks, l) \in 0..2
<1> TAKE others, blocks, l
<1> DEFINE known == (IF l.tag \in others THEN {1} ELSE {})
                      \cup (IF l.tag \in blocks THEN {2} ELSE {})
<1>1. known \in {{}, {1}, {2}, {1, 2}}
  OBVIOUS
<1>2. known # {} => (CHOOSE v \in known : TRUE) \in known
  OBVIOUS
<1> HIDE DEF known
<1>3. (CASE known = {} -> 0
         [] known = {1, 2} -> IF l.nonBlockFirst THEN 1 ELSE 2
         [] OTHER -> CHOOSE v \in known : TRUE) \in 0..2
  BY <1>1, <1>2
<1> QED
  BY <1>3 DEF Validity, known

LEMMA ContentTypeType == \A r : ContentType(r) \in MediaTypes
<1>1. DOMAIN MimeTypes = {"txt", "html", "jpg"}
  BY DEF MimeTypes
<1>2. /\ MimeTypes["txt"] = "text/plain" /\ MimeTypes["html"] = "text/html"
      /\ MimeTypes["jpg"] = "image/jpeg"
  BY DEF MimeTypes
<1>3. \A x : GetMimeType(x) \in {"text/plain", "text/html", "image/jpeg",
                                 "application/octet-stream"}
  BY <1>1, <1>2 DEF GetMimeType
<1> QED
  BY <1>3 DEF ContentType, MediaTypes

-----------------------------------------------------------------------------
LEMMA IInit == Init => IInv
<1> SUFFICES ASSUME Init
             PROVE  IInv
  OBVIOUS
<1>1. <<>> \in Seq(AllEntries) /\ <<>> \in Seq(0..2)
  OBVIOUS
<1>2. todo \in [Threads -> Seq(AllEntries)]
  BY <1>1 DEF Init
<1>3. TypeOK
  <2>1. "idle" \in Stages /\ "none" \in MediaTypes
    BY DEF Stages, MediaTypes
  <2> QED
    BY <1>1, <1>2, <2>1, EntriesType DEF Init, TypeOK
<1>4. \A t \in Threads : AtWork(t)
  BY DEF Init, AtWork
<1>5. TablesInv
  BY <1>2 DEF Init, TablesInv
<1>6. PagesRight
  BY DEF Init, PagesRight
<1> QED
  BY <1>3, <1>4, <1>5, <1>6 DEF IInv

(* Nothing more than the entries, and all of them.                         *)
LEMMA NothingMissing ==
  ASSUME NEW others, NEW blocks, others \subseteq OtherTag, blocks \subseteq BlockTag,
         \A e \in AllEntries : IF e[1] = "other" THEN e[2] \in others ELSE e[2] \in blocks
  PROVE  others = OtherTag /\ blocks = BlockTag
<1>1. \A x \in OtherTag : <<"other", x>> \in AllEntries
  BY DEF AllEntries
<1>2. \A x \in BlockTag : <<"block", x>> \in AllEntries
  BY DEF AllEntries
<1> QED
  BY <1>1, <1>2

(* What TablesInv speaks of stays as it is when the tables and the stages  *)
(* of initTag are left alone.                                              *)
LEMMA TablesKept ==
  ASSUME TypeOK, TablesInv, UNCHANGED tables, NEW t \in Threads,
         \A o \in Threads \ {t} : stage'[o] = stage[o] /\ disturbed'[o] = disturbed[o],
         stage[t] # "init", stage'[t] \notin {"init", "find"}
  PROVE  TablesInv'
<1>1. \A o \in Threads : (stage'[o] = "init" <=> stage[o] = "init")
  OBVIOUS
<1>2. UNCHANGED <<otherTags, blockTags, todo, torn>>
  BY DEF tables
<1>3. \A o \in Threads : /\ Covers(o)' <=> Covers(o)
                         /\ Writing(o)' <=> Writing(o)
  BY <1>1, <1>2 DEF Covers, Writing, Inserted
<1>4. Full' <=> Full
  BY <1>2 DEF Full
<1> QED
  BY <1>1, <1>2, <1>3, <1>4 DEF TablesInv

(* A page's answers stay right when its text, they and its mark do.        *)
LEMMA PagesKept ==
  ASSUME PagesRight, torn' = torn, NEW t \in Threads,
         \A o \in Threads \ {t} : UNCHANGED <<answers[o], body[o], disturbed[o]>>,
         answers'[t] = <<>> \/ (answers'[t] = answers[t] /\ body'[t] = body[t]
                                /\ (~disturbed'[t] => ~disturbed[t]))
  PROVE  PagesRight'
<1> SUFFICES ASSUME ~torn', NEW o \in Threads, ~disturbed'[o], NEW k \in 1..Len(answers'[o])
             PROVE  answers'[o][k] = Validity(OtherTag, BlockTag, LookUps[body'[o]][k])
  BY DEF PagesRight
<1>1. CASE answers'[o] = <<>>
  BY <1>1
<1>2. CASE answers'[o] # <<>>
  <2>1. answers'[o] = answers[o] /\ body'[o] = body[o] /\ ~disturbed[o]
    BY <1>2
  <2> QED
    BY <2>1 DEF PagesRight
<1> QED
  BY <1>1, <1>2
LEMMA TablesStand ==
  ASSUME TypeOK, TablesInv, UNCHANGED <<stage, tables, disturbed>>
  PROVE  TablesInv'
<1>1. UNCHANGED <<otherTags, blockTags, todo, torn>>
  BY DEF tables
<1>2. \A o \in Threads : /\ Covers(o)' <=> Covers(o)
                         /\ Writing(o)' <=> Writing(o)
  BY <1>1 DEF Covers, Writing, Inserted
<1>3. Full' <=> Full
  BY <1>1 DEF Full
<1> QED
  BY <1>1, <1>2, <1>3 DEF TablesInv

(* The steps on the request, the file and the response.                    *)
LEMMA HandleRequestKeeps == ASSUME IInv, NEW t \in Threads, NEW r \in Request, HandleRequest(t, r)
                            PROVE  IInv'
<1>0. TypeOK /\ (\A o \in Threads : AtWork(o)) /\ TablesInv /\ PagesRight
  BY DEF IInv
<1>1. /\ stage[t] = "idle"
      /\ \/ stage' = [stage EXCEPT ![t] = "check"] /\ status' = status /\ type' = type
         \/ /\ stage' = [stage EXCEPT ![t] = "answered"]
            /\ status' = [status EXCEPT ![t] = 400]
            /\ type' = [type EXCEPT ![t] = "text/html"]
  BY DEF HandleRequest, GoTo, Respond
<1>2. r.file \in Files /\ disk[r.file] \in Node
  BY <1>0 DEF Request, TypeOK
<1>3. TypeOK'
  <2>1. /\ UNCHANGED <<up, disk, body, answers, otherTags, blockTags, todo, torn, rewritten,
                       disturbed>>
        /\ request' = [request EXCEPT ![t] = r]
        /\ held' = [held EXCEPT ![t] = {disk[r.file]}]
    BY DEF HandleRequest, tables
  <2>2. request' \in [Threads -> Request \cup {NoRequest}]
    BY <1>0, <2>1 DEF TypeOK
  <2>3. held' \in [Threads -> SUBSET Node]
    BY <1>0, <1>2, <2>1 DEF TypeOK
  <2>4. stage' \in [Threads -> Stages]
    <3>1. \E s \in Stages : stage' = [stage EXCEPT ![t] = s]
      BY <1>1 DEF Stages
    <3> QED
      BY <1>0, <3>1 DEF TypeOK
  <2>5. status' \in [Threads -> {0, 200, 400, 404}]
    <3>1. status \in [Threads -> {0, 200, 400, 404}]
      BY <1>0 DEF TypeOK
    <3>2. CASE status' = status
      BY <3>1, <3>2
    <3>3. CASE status' = [status EXCEPT ![t] = 400]
      BY <3>1, <3>3
    <3> QED
      BY <1>1, <3>2, <3>3
  <2>6. type' \in [Threads -> MediaTypes]
    <3>1. \E m \in MediaTypes : type' = type \/ type' = [type EXCEPT ![t] = m]
      BY <1>1 DEF MediaTypes
    <3> QED
      BY <1>0, <3>1 DEF TypeOK
  <2> QED
    BY <1>0, <2>1, <2>2, <2>3, <2>4, <2>5, <2>6 DEF TypeOK
<1>4. \A o \in Threads : AtWork(o)'
  BY <1>0, <1>1, <1>2 DEF HandleRequest, TypeOK, AtWork
<1>5. TablesInv'
  <2>1. UNCHANGED tables /\ disturbed' = disturbed
    BY DEF HandleRequest
  <2>2. stage'[t] \notin {"init", "find"} /\ \A o \in Threads \ {t} : stage'[o] = stage[o]
    BY <1>0, <1>1 DEF TypeOK
  <2> QED
    BY <1>0, <1>1, <2>1, <2>2, TablesKept
<1>6. PagesRight'
  BY <1>0 DEF HandleRequest, tables, PagesRight
<1> QED
  BY <1>3, <1>4, <1>5, <1>6 DEF IInv

LEMMA CheckFileKeeps == ASSUME IInv, NEW t \in Threads, CheckFile(t)
                        PROVE  IInv'
<1>0. TypeOK /\ (\A o \in Threads : AtWork(o)) /\ TablesInv /\ PagesRight
  BY DEF IInv
<1>1. /\ stage[t] = "check"
      /\ \E s \in {"read", "answered"}, code \in {200, 404} :
           /\ stage' = [stage EXCEPT ![t] = s]
           /\ status' = [status EXCEPT ![t] = code]
      /\ \E m \in MediaTypes : type' = [type EXCEPT ![t] = m]
  <2>1. "text/plain" \in MediaTypes
    BY DEF MediaTypes
  <2> QED
    BY <2>1, ContentTypeType DEF CheckFile, GoTo, Respond
<1>2. TypeOK'
  <2>1. UNCHANGED <<up, disk, request, body, answers, otherTags, blockTags, todo, torn,
                    rewritten, held, disturbed>>
    BY DEF CheckFile, tables
  <2>2. stage' \in [Threads -> Stages]
    <3>1. \E s \in Stages : stage' = [stage EXCEPT ![t] = s]
      BY <1>1 DEF Stages
    <3> QED
      BY <1>0, <3>1 DEF TypeOK
  <2>3. status' \in [Threads -> {0, 200, 400, 404}]
    BY <1>0, <1>1 DEF TypeOK
  <2>4. type' \in [Threads -> MediaTypes]
    BY <1>0, <1>1 DEF TypeOK
  <2> QED
    BY <1>0, <2>1, <2>2, <2>3, <2>4 DEF TypeOK
<1>3. \A o \in Threads : AtWork(o)'
  BY <1>0, <1>1 DEF CheckFile, TypeOK, AtWork
<1>4. TablesInv'
  <2>1. UNCHANGED tables /\ disturbed' = disturbed
    BY DEF CheckFile
  <2>2. stage'[t] \notin {"init", "find"} /\ \A o \in Threads \ {t} : stage'[o] = stage[o]
    BY <1>0, <1>1 DEF TypeOK
  <2> QED
    BY <1>0, <1>1, <2>1, <2>2, TablesKept
<1>5. PagesRight'
  BY <1>0 DEF CheckFile, tables, PagesRight
<1> QED
  BY <1>2, <1>3, <1>4, <1>5 DEF IInv

LEMMA OpenFileKeeps == ASSUME IInv, NEW t \in Threads, OpenFile(t)
                       PROVE  IInv'
<1>0. TypeOK /\ (\A o \in Threads : AtWork(o)) /\ TablesInv /\ PagesRight
  BY DEF IInv
<1>1. /\ stage[t] = "read"
      /\ \E s \in {"copy", "answered"} : stage' = [stage EXCEPT ![t] = s]
      /\ \E b \in Texts \cup {Gone} : body' = [body EXCEPT ![t] = b]
  BY DEF OpenFile, GoTo
<1>2. TypeOK'
  <2>1. /\ UNCHANGED <<up, disk, request, status, type, answers, otherTags, blockTags, todo,
                       torn, rewritten, disturbed>>
        /\ \E h \in {held[t], {}} : held' = [held EXCEPT ![t] = h]
    BY DEF OpenFile, tables
  <2>2. stage' \in [Threads -> Stages]
    <3>1. \E s \in Stages : stage' = [stage EXCEPT ![t] = s]
      BY <1>1 DEF Stages
    <3> QED
      BY <1>0, <3>1 DEF TypeOK
  <2>3. body' \in [Threads -> Texts \cup {Gone}]
    BY <1>0, <1>1 DEF TypeOK
  <2>4. held' \in [Threads -> SUBSET Node]
    BY <1>0, <2>1 DEF TypeOK
  <2> QED
    BY <1>0, <2>1, <2>2, <2>3, <2>4 DEF TypeOK
<1>3. \A o \in Threads : AtWork(o)'
  <2>1. CASE disk[request[t].file] \in Texts
    <3>1. /\ stage' = [stage EXCEPT ![t] = "copy"]
          /\ body' = [body EXCEPT ![t] = disk[request[t].file]]
          /\ held' = held /\ UNCHANGED <<request, disk, status, answers>>
      BY <1>0, <2>1 DEF OpenFile, GoTo, TypeOK
    <3> QED
      BY <1>0, <1>1, <2>1, <3>1 DEF TypeOK, AtWork
  <2>2. CASE disk[request[t].file] \notin Texts
    <3>1. /\ stage' = [stage EXCEPT ![t] = "answered"]
          /\ body' = [body EXCEPT ![t] = Gone]
          /\ held' = [held EXCEPT ![t] = {}] /\ UNCHANGED <<request, disk, status, answers>>
      BY <1>0, <2>2 DEF OpenFile, GoTo, TypeOK
    <3> QED
      BY <1>0, <1>1, <2>2, <3>1 DEF TypeOK, AtWork
  <2> QED
    BY <2>1, <2>2
<1>4. TablesInv'
  <2>1. UNCHANGED tables /\ disturbed' = disturbed
    BY DEF OpenFile
  <2>2. stage'[t] \notin {"init", "find"} /\ \A o \in Threads \ {t} : stage'[o] = stage[o]
    BY <1>0, <1>1 DEF TypeOK
  <2> QED
    BY <1>0, <1>1, <2>1, <2>2, TablesKept
<1>5. PagesRight'
  <2>1. answers'[t] = <<>> /\ UNCHANGED <<answers, disturbed>> /\ torn' = torn
    BY <1>0, <1>1 DEF OpenFile, tables, AtWork
  <2>2. \A o \in Threads \ {t} : body'[o] = body[o]
    BY <1>0, <1>1 DEF TypeOK
  <2> QED
    BY <1>0, <2>1, <2>2, PagesKept
<1> QED
  BY <1>2, <1>3, <1>4, <1>5 DEF IInv

LEMMA CopyFileKeeps == ASSUME IInv, NEW t \in Threads, CopyFile(t)
                       PROVE  IInv'
<1>0. TypeOK /\ (\A o \in Threads : AtWork(o)) /\ TablesInv /\ PagesRight
  BY DEF IInv
<1>1. /\ stage[t] = "copy"
      /\ \E s \in {"convert", "answered"} : stage' = [stage EXCEPT ![t] = s]
      /\ \E b \in Texts \cup {Gone} : body' = [body EXCEPT ![t] = b]
  <2>1. body[t] \in Texts \cup {Gone}
    BY <1>0 DEF TypeOK
  <2> QED
    BY <2>1 DEF CopyFile, GoTo
<1>2. TypeOK'
  <2>1. /\ UNCHANGED <<up, disk, request, status, type, answers, otherTags, blockTags, todo,
                       torn, disturbed>>
        /\ held' = [held EXCEPT ![t] = {}]
        /\ rewritten' = [rewritten EXCEPT ![t] = FALSE]
    BY DEF CopyFile, tables
  <2>2. stage' \in [Threads -> Stages]
    <3>1. \E s \in Stages : stage' = [stage EXCEPT ![t] = s]
      BY <1>1 DEF Stages
    <3> QED
      BY <1>0, <3>1 DEF TypeOK
  <2>3. body' \in [Threads -> Texts \cup {Gone}]
    BY <1>0, <1>1 DEF TypeOK
  <2>4. held' \in [Threads -> SUBSET Node]
    BY <1>0, <2>1 DEF TypeOK
  <2> QED
    BY <1>0, <2>1, <2>2, <2>3, <2>4 DEF TypeOK
<1>3. \A o \in Threads : AtWork(o)'
  BY <1>0, <1>1 DEF CopyFile, TypeOK, AtWork
<1>4. TablesInv'
  <2>1. UNCHANGED tables /\ disturbed' = disturbed
    BY DEF CopyFile
  <2>2. stage'[t] \notin {"init", "find"} /\ \A o \in Threads \ {t} : stage'[o] = stage[o]
    BY <1>0, <1>1 DEF TypeOK
  <2> QED
    BY <1>0, <1>1, <2>1, <2>2, TablesKept
<1>5. PagesRight'
  <2>1. answers'[t] = <<>> /\ UNCHANGED <<answers, disturbed>> /\ torn' = torn
    BY <1>0, <1>1 DEF CopyFile, tables, AtWork
  <2>2. \A o \in Threads \ {t} : body'[o] = body[o]
    BY <1>0, <1>1 DEF TypeOK
  <2> QED
    BY <1>0, <2>1, <2>2, PagesKept
<1> QED
  BY <1>2, <1>3, <1>4, <1>5 DEF IInv

LEMMA SetBodyKeeps == ASSUME IInv, NEW t \in Threads, SetBody(t)
                      PROVE  IInv'
<1>0. TypeOK /\ (\A o \in Threads : AtWork(o)) /\ TablesInv /\ PagesRight
  BY DEF IInv
<1>1. stage[t] = "convert" /\ stage'[t] = "answered" /\ stage' = [stage EXCEPT ![t] = "answered"]
  BY <1>0 DEF SetBody, GoTo, TypeOK
<1>2. TypeOK'
  <2>1. "answered" \in Stages
    BY DEF Stages
  <2> QED
    BY <1>0, <1>1, <2>1 DEF SetBody, tables, TypeOK
<1>3. \A o \in Threads : AtWork(o)'
  BY <1>0, <1>1 DEF SetBody, TypeOK, AtWork
<1>4. TablesInv'
  <2>1. UNCHANGED tables /\ disturbed' = disturbed
    BY DEF SetBody
  <2>2. stage'[t] \notin {"init", "find"} /\ \A o \in Threads \ {t} : stage'[o] = stage[o]
    BY <1>0, <1>1 DEF TypeOK
  <2> QED
    BY <1>0, <1>1, <2>1, <2>2, TablesKept
<1>5. PagesRight'
  BY <1>0 DEF SetBody, tables, PagesRight
<1> QED
  BY <1>2, <1>3, <1>4, <1>5 DEF IInv

LEMMA ReturnKeeps == ASSUME IInv, NEW t \in Threads, Return(t)
                     PROVE  IInv'
<1>0. TypeOK /\ (\A o \in Threads : AtWork(o)) /\ TablesInv /\ PagesRight
  BY DEF IInv
<1>1. stage[t] = "answered" /\ stage'[t] = "idle" /\ stage' = [stage EXCEPT ![t] = "idle"]
  BY <1>0 DEF Return, GoTo, TypeOK
<1>2. TypeOK'
  <2>1. <<>> \in Seq(0..2) /\ "idle" \in Stages /\ "none" \in MediaTypes
    BY DEF Stages, MediaTypes
  <2>2. stage' \in [Threads -> Stages] /\ type' \in [Threads -> MediaTypes]
    BY <1>0, <1>1, <2>1 DEF Return, Respond, TypeOK
  <2>3. status' \in [Threads -> {0, 200, 400, 404}] /\ body' \in [Threads -> Texts \cup {Gone}]
    BY <1>0 DEF Return, Respond, TypeOK
  <2>4. answers' \in [Threads -> Seq(0..2)] /\ request' \in [Threads -> Request \cup {NoRequest}]
    BY <1>0, <2>1 DEF Return, TypeOK
  <2>5. held' \in [Threads -> SUBSET Node] /\ disturbed' \in [Threads -> BOOLEAN]
    BY <1>0 DEF Return, TypeOK
  <2> QED
    BY <1>0, <2>2, <2>3, <2>4, <2>5 DEF Return, tables, TypeOK
<1>3. \A o \in Threads : AtWork(o)'
  BY <1>0, <1>1 DEF Return, Respond, TypeOK, AtWork
<1>4. TablesInv'
  <2>1. UNCHANGED tables
    BY DEF Return
  <2>2. \A o \in Threads \ {t} : stage'[o] = stage[o] /\ disturbed'[o] = disturbed[o]
    BY <1>0, <1>1 DEF Return, TypeOK
  <2> QED
    BY <1>0, <1>1, <2>1, <2>2, TablesKept
<1>5. PagesRight'
  <2>1. answers'[t] = <<>> /\ torn' = torn
    BY <1>0 DEF Return, tables, TypeOK
  <2>2. \A o \in Threads \ {t} : UNCHANGED <<answers[o], body[o], disturbed[o]>>
    BY <1>0 DEF Return, TypeOK
  <2> QED
    BY <1>0, <2>1, <2>2, PagesKept
<1> QED
  BY <1>2, <1>3, <1>4, <1>5 DEF IInv

(* Other programs, the end of the process, and steps of neither.           *)
LEMMA OutsideKeeps ==
  ASSUME IInv,
         \/ \E f \in Files, node \in Node, inPlace \in BOOLEAN : ChangeFile(f, node, inPlace)
         \/ \E t \in Threads : Fault(t)
         \/ UNCHANGED vars
  PROVE  IInv'
<1>0. TypeOK /\ (\A o \in Threads : AtWork(o)) /\ TablesInv /\ PagesRight
  BY DEF IInv
<1>1. UNCHANGED <<stage, request, status, type, body, answers, tables, disturbed>>
  BY DEF ChangeFile, Fault, vars, tables
<1>2. /\ disk' \in [Files -> Node] /\ held' \in [Threads -> SUBSET Node] /\ up' \in BOOLEAN
      /\ rewritten' \in [Threads -> BOOLEAN]
      /\ \A o \in Threads : AtWork(o)'
  <2>1. ASSUME NEW f \in Files, NEW node \in Node, NEW inPlace \in BOOLEAN,
               ChangeFile(f, node, inPlace)
        PROVE  /\ disk' \in [Files -> Node] /\ held' \in [Threads -> SUBSET Node]
               /\ \A o \in Threads : AtWork(o)'
    <3>1. disk' \in [Files -> Node] /\ held' \in [Threads -> SUBSET Node]
      BY <1>0, <2>1 DEF ChangeFile, TypeOK
    <3>2. \A o \in Threads : held[o] \subseteq held'[o]
      BY <1>0, <2>1 DEF ChangeFile, TypeOK
    <3>3. ASSUME NEW o \in Threads, stage[o] \in {"check", "read"}
          PROVE  disk'[request[o].file] \in held'[o]
      <4>1. request[o].file \in Files /\ disk[request[o].file] \in held[o]
        BY <1>0, <3>3 DEF AtWork, Request
      <4>2. CASE request[o].file = f
        BY <1>0, <2>1, <3>3, <4>2 DEF ChangeFile, TypeOK
      <4>3. CASE request[o].file # f
        BY <1>0, <2>1, <3>3, <4>1, <4>3 DEF ChangeFile, TypeOK
      <4> QED
        BY <4>2, <4>3
    <3> QED
      BY <1>0, <1>1, <3>1, <3>2, <3>3 DEF AtWork
  <2>2. ASSUME UNCHANGED <<disk, held>>
        PROVE  /\ disk' \in [Files -> Node] /\ held' \in [Threads -> SUBSET Node]
               /\ \A o \in Threads : AtWork(o)'
    <3>1. disk' \in [Files -> Node] /\ held' \in [Threads -> SUBSET Node]
      BY <1>0, <2>2 DEF TypeOK
    <3>2. \A o \in Threads : AtWork(o)'
      BY <1>0, <1>1, <2>2 DEF AtWork
    <3> QED
      BY <3>1, <3>2
  <2>3. up' \in BOOLEAN /\ rewritten' \in [Threads -> BOOLEAN]
    <3>1. ASSUME NEW f, NEW node, NEW inPlace, ChangeFile(f, node, inPlace)
          PROVE  up' \in BOOLEAN /\ rewritten' \in [Threads -> BOOLEAN]
      <4> DEFINE w(o) == rewritten[o] \/ (inPlace /\ stage[o] = "copy" /\ request[o].file = f)
      <4>1. up' = up /\ rewritten' = [o \in Threads |-> w(o)]
        BY <3>1 DEF ChangeFile
      <4>2. \A o \in Threads : w(o) \in BOOLEAN
        OBVIOUS
      <4> HIDE DEF w
      <4> QED
        BY <1>0, <4>1, <4>2 DEF TypeOK
    <3>2. ASSUME UNCHANGED <<up, rewritten>> \/ \E t \in Threads : Fault(t)
          PROVE  up' \in BOOLEAN /\ rewritten' \in [Threads -> BOOLEAN]
      BY <1>0, <3>2 DEF Fault, TypeOK
    <3> QED
      BY <3>1, <3>2 DEF vars
  <2>4. CASE \E f \in Files, node \in Node, inPlace \in BOOLEAN : ChangeFile(f, node, inPlace)
    BY <2>1, <2>3, <2>4
  <2>5. CASE (\E t \in Threads : Fault(t)) \/ UNCHANGED vars
    <3>1. UNCHANGED <<disk, held>>
      BY <2>5 DEF Fault, vars
    <3> QED
      BY <2>2, <2>3, <3>1
  <2> QED
    BY <2>4, <2>5
<1>3. TypeOK'
  BY <1>0, <1>1, <1>2 DEF TypeOK, tables
<1>4. TablesInv'
  BY <1>0, <1>1, TablesStand
<1>5. PagesRight'
  BY <1>0, <1>1 DEF PagesRight, tables
<1> QED
  BY <1>2, <1>3, <1>4, <1>5 DEF IInv
-----------------------------------------------------------------------------
(* The steps of a conversion on the tables.                                *)
LEMMA IsValidTagKeeps == ASSUME IInv, NEW t \in Threads, IsValidTag(t)
                         PROVE  IInv'
<1>0. TypeOK /\ (\A o \in Threads : AtWork(o)) /\ TablesInv /\ PagesRight
  BY DEF IInv
<1> DEFINE all == Entries("other", OtherTagInit) \o Entries("block", BlockTagInit)
<1> HIDE DEF all
<1>1. all \in Seq(AllEntries) /\ \A e \in AllEntries : \E k \in 1..Len(all) : all[k] = e
  BY InitialEntries DEF all
<1>2. /\ stage[t] = "convert"
      /\ \/ /\ blockTags = {} /\ stage' = [stage EXCEPT ![t] = "init"]
            /\ todo' = [todo EXCEPT ![t] = all]
         \/ blockTags # {} /\ stage' = [stage EXCEPT ![t] = "find"] /\ todo' = todo
      /\ disturbed' = [disturbed EXCEPT ![t] = @ \/ Disturbs(t)]
      /\ UNCHANGED <<up, disk, request, status, type, body, answers, otherTags, blockTags,
                     rewritten, held, torn>>
  BY DEF IsValidTag, GoTo, InitTables, all
<1>3. /\ todo' \in [Threads -> Seq(AllEntries)]
      /\ \A o \in Threads \ {t} : todo'[o] = todo[o] /\ stage'[o] = stage[o]
                                  /\ disturbed'[o] = disturbed[o]
  <2>1. todo \in [Threads -> Seq(AllEntries)] /\ stage \in [Threads -> Stages]
        /\ disturbed \in [Threads -> BOOLEAN]
    BY <1>0 DEF TypeOK, TablesInv
  <2>2. todo' \in [Threads -> Seq(AllEntries)]
    BY <1>1, <1>2, <2>1
  <2>3. \A o \in Threads \ {t} : todo'[o] = todo[o]
    BY <1>2, <2>1
  <2>4. \A o \in Threads \ {t} : stage'[o] = stage[o]
    BY <1>2, <2>1
  <2>5. \A o \in Threads \ {t} : disturbed'[o] = disturbed[o]
    BY <1>2, <2>1
  <2> QED
    BY <2>2, <2>3, <2>4, <2>5
<1>4. TypeOK'
  <2>1. stage' \in [Threads -> Stages]
    <3>1. \E s \in Stages : stage' = [stage EXCEPT ![t] = s]
      BY <1>2 DEF Stages
    <3> QED
      BY <1>0, <3>1 DEF TypeOK
  <2>2. disturbed' \in [Threads -> BOOLEAN]
    <3>1. (disturbed[t] \/ Disturbs(t)) \in BOOLEAN
      OBVIOUS
    <3> QED
      BY <1>0, <1>2, <3>1 DEF TypeOK
  <2>3. todo' \in [Threads -> Seq({"other", "block"} \X (OtherTag \cup BlockTag))]
    BY <1>3, EntriesType
  <2> QED
    BY <1>0, <1>2, <2>1, <2>2, <2>3 DEF TypeOK
<1>5. \A o \in Threads : AtWork(o)'
  BY <1>0, <1>2 DEF TypeOK, AtWork
<1>6. TablesInv'
  <2> SUFFICES ASSUME ~torn
               PROVE  /\ \A o \in Threads : stage'[o] = "init" => Covers(o)'
                      /\ blockTags # {} => Full \/ \E o \in Threads : Writing(o)'
                      /\ \A o \in Threads : stage'[o] = "find" /\ ~disturbed'[o] => Full
    BY <1>2, <1>3 DEF TablesInv, Full
  <2>1. \A o \in Threads : Writing(o) => Writing(o)'
    <3>1. \A o \in Threads : Writing(o) => o # t
      BY <1>2 DEF Writing
    <3> QED
      BY <1>2, <1>3, <3>1 DEF Writing, Inserted
  <2>2. ASSUME NEW o \in Threads, stage'[o] = "init"
        PROVE  Covers(o)'
    <3>1. CASE o = t
      <4>1. todo'[t] = all
        BY <1>0, <1>2, <2>2, <3>1 DEF TypeOK, TablesInv
      <4> QED
        BY <1>1, <3>1, <4>1 DEF Covers
    <3>2. CASE o # t
      <4>1. Covers(o) /\ todo'[o] = todo[o]
        BY <1>0, <1>3, <2>2, <3>2 DEF TablesInv
      <4> QED
        BY <1>2, <4>1 DEF Covers, Inserted
    <3> QED
      BY <3>1, <3>2
  <2>3. ASSUME NEW o \in Threads, stage'[o] = "find", ~disturbed'[o]
        PROVE  Full
    <3>1. CASE o = t
      <4>1. blockTags # {} /\ ~Disturbs(t)
        <5>1. /\ stage \in [Threads -> Stages] /\ disturbed \in [Threads -> BOOLEAN]
              /\ stage'[t] = "find" /\ ~disturbed'[t]
          BY <1>0, <2>3, <3>1 DEF TypeOK
        <5>2. stage' # [stage EXCEPT ![t] = "init"]
          BY <5>1
        <5>3. ~Disturbs(t)
          BY <1>2, <5>1
        <5> QED
          BY <1>2, <5>2, <5>3
      <4>2. ~\E u \in Threads : Writing(u)
        BY <1>2, <4>1 DEF Disturbs, Writing
      <4> QED
        BY <1>0, <4>1, <4>2 DEF TablesInv
    <3>2. CASE o # t
      BY <1>0, <1>3, <2>3, <3>2 DEF TablesInv
    <3> QED
      BY <3>1, <3>2
  <2> QED
    BY <1>0, <2>1, <2>2, <2>3 DEF TablesInv
<1>7. PagesRight'
  <2>1. ~disturbed'[t] => ~disturbed[t]
    BY <1>0, <1>2 DEF TypeOK
  <2> QED
    BY <1>0, <1>2, <1>3, <2>1, PagesKept
<1> QED
  BY <1>4, <1>5, <1>6, <1>7 DEF IInv

LEMMA InsertTagKeeps == ASSUME IInv, NEW t \in Threads, InsertTag(t)
                        PROVE  IInv'
<1>0. TypeOK /\ (\A o \in Threads : AtWork(o)) /\ TablesInv /\ PagesRight
  BY DEF IInv
<1> DEFINE e == Head(todo[t])
<1>1. /\ stage[t] = "init" /\ todo[t] # <<>>
      /\ todo' = [todo EXCEPT ![t] = Tail(todo[t])]
      /\ torn' = (torn \/ (Writing(t) /\ Disturbs(t)))
      /\ UNCHANGED <<up, disk, stage, request, status, type, body, answers, rewritten, held,
                     disturbed>>
  BY DEF InsertTag
<1>2. e \in AllEntries /\ Tail(todo[t]) \in Seq(AllEntries)
  BY <1>0, <1>1 DEF TablesInv
<1>3. e[1] \in {"other", "block"} /\ (e[1] = "other" => e[2] \in OtherTag)
      /\ (e[1] # "other" => e[2] \in BlockTag)
  BY <1>2 DEF AllEntries
<1>4. todo' \in [Threads -> Seq(AllEntries)]
  BY <1>0, <1>1, <1>2 DEF TablesInv
<1>5. otherTags' \subseteq OtherTag /\ blockTags' \subseteq BlockTag
  <2> HIDE DEF e
  <2>1. PICK lost : IF e[1] = "other" THEN otherTags' = (otherTags \cup {e[2]}) \ lost
                                           /\ UNCHANGED blockTags
                                      ELSE blockTags' = (blockTags \cup {e[2]}) \ lost
                                           /\ UNCHANGED otherTags
    BY DEF InsertTag, e
  <2> QED
    BY <1>0, <1>3, <2>1 DEF TypeOK
<1>6. TypeOK'
  <2>1. todo' \in [Threads -> Seq({"other", "block"} \X (OtherTag \cup BlockTag))]
    BY <1>4, EntriesType
  <2>2. torn' \in BOOLEAN
    BY <1>0, <1>1 DEF TypeOK
  <2> QED
    BY <1>0, <1>1, <1>5, <2>1, <2>2 DEF TypeOK
<1>7. \A o \in Threads : AtWork(o)'
  BY <1>0, <1>1 DEF AtWork
<1>8. TablesInv'
  <2> SUFFICES ASSUME ~torn'
               PROVE  /\ \A o \in Threads : stage'[o] = "init" => Covers(o)'
                      /\ blockTags' # {} => Full' \/ \E o \in Threads : Writing(o)'
                      /\ \A o \in Threads : stage'[o] = "find" /\ ~disturbed'[o] => Full'
    BY <1>4 DEF TablesInv
  <2>1. ~torn /\ ~(Writing(t) /\ Disturbs(t))
    BY <1>0, <1>1 DEF TypeOK
  <2>2. IF e[1] = "other" THEN otherTags' = otherTags \cup {e[2]} /\ blockTags' = blockTags
                          ELSE blockTags' = blockTags \cup {e[2]} /\ otherTags' = otherTags
    BY <2>1 DEF InsertTag
  <2>3. \A d \in AllEntries : Inserted(d)' <=> Inserted(d) \/ d = e
    <3> HIDE DEF e
    <3>1. \A d \in AllEntries : d = <<d[1], d[2]>> /\ d[1] \in {"other", "block"}
      BY DEF AllEntries
    <3>2. e = <<e[1], e[2]>>
      BY <1>2, <3>1
    <3> QED
      BY <2>2, <1>3, <3>1, <3>2 DEF Inserted
  <2>4. ASSUME NEW o \in Threads, stage[o] = "init"
        PROVE  Covers(o)'
    <3>1. CASE o = t
      <4> SUFFICES ASSUME NEW d \in AllEntries, ~Inserted(d)'
                   PROVE  \E k \in 1..Len(todo'[t]) : todo'[t][k] = d
        BY <3>1 DEF Covers
      <4>1. ~Inserted(d) /\ d # e
        BY <2>3
      <4>2. PICK k \in 1..Len(todo[t]) : todo[t][k] = d
        BY <1>0, <1>1, <2>1, <4>1 DEF TablesInv, Covers
      <4>3. todo[t] \in Seq(AllEntries) /\ todo'[t] = Tail(todo[t])
        BY <1>0, <1>1 DEF TablesInv
      <4>4. k # 1
        BY <1>1, <4>1, <4>2, <4>3
      <4>5. k - 1 \in 1..Len(todo'[t]) /\ todo'[t][k - 1] = d
        <5>1. /\ Len(Tail(todo[t])) = Len(todo[t]) - 1
              /\ \A i \in 1..(Len(todo[t]) - 1) : Tail(todo[t])[i] = todo[t][i + 1]
          BY <1>1, <4>3, HeadTailProperties
        <5>2. k - 1 \in 1..(Len(todo[t]) - 1) /\ (k - 1) + 1 = k
          BY <4>2, <4>3, <4>4
        <5> QED
          BY <4>2, <4>3, <5>1, <5>2
      <4> QED
        BY <4>5
    <3>2. CASE o # t
      <4>1. todo'[o] = todo[o] /\ Covers(o)
        BY <1>0, <1>1, <2>1, <2>4, <3>2 DEF TablesInv
      <4> QED
        BY <2>3, <4>1 DEF Covers
    <3> QED
      BY <3>1, <3>2
  <2>5. Full' \/ \E o \in Threads : Writing(o)'
    <3> SUFFICES ASSUME ~Writing(t)'
                 PROVE  Full'
      OBVIOUS
    <3>1. Covers(t)' /\ stage'[t] = "init"
      BY <1>1, <2>4
    <3>2. \A d \in AllEntries : Inserted(d)'
      BY <3>1 DEF Covers, Writing
    <3> QED
      BY <1>5, <3>2, NothingMissing DEF Inserted, Full
  <2>6. Full => Full'
    BY <1>5, <2>2 DEF Full
  <2> QED
    BY <1>0, <1>1, <2>1, <2>4, <2>5, <2>6 DEF TablesInv
<1>9. PagesRight'
  BY <1>0, <1>1 DEF PagesRight, TypeOK
<1> QED
  BY <1>6, <1>7, <1>8, <1>9 DEF IInv
LEMMA TablesFilledKeeps == ASSUME IInv, NEW t \in Threads, TablesFilled(t)
                           PROVE  IInv'
<1>0. TypeOK /\ (\A o \in Threads : AtWork(o)) /\ TablesInv /\ PagesRight
  BY DEF IInv
<1>1. /\ stage[t] = "init" /\ todo[t] = <<>> /\ stage' = [stage EXCEPT ![t] = "find"]
      /\ UNCHANGED <<up, disk, request, status, type, body, answers, otherTags, blockTags, todo,
                     torn, rewritten, held, disturbed>>
  BY DEF TablesFilled, GoTo, tables
<1>2. TypeOK'
  <2>1. "find" \in Stages
    BY DEF Stages
  <2> QED
    BY <1>0, <1>1, <2>1 DEF TypeOK
<1>3. \A o \in Threads : AtWork(o)'
  BY <1>0, <1>1 DEF TypeOK, AtWork
<1>4. TablesInv'
  <2> SUFFICES ASSUME ~torn
               PROVE  /\ \A o \in Threads : stage'[o] = "init" => Covers(o)'
                      /\ Full'
    BY <1>0, <1>1 DEF TablesInv
  <2>1. \A o \in Threads : stage'[o] = "init" => stage[o] = "init"
    BY <1>0, <1>1 DEF TypeOK
  <2>2. \A o \in Threads : stage[o] = "init" => Covers(o)
    BY <1>0 DEF TablesInv
  <2>3. \A e \in AllEntries : Inserted(e)
    BY <1>1, <2>2 DEF Covers
  <2>4. Full
    BY <1>0, <2>3, NothingMissing DEF TypeOK, Inserted, Full
  <2> QED
    BY <1>1, <2>1, <2>2, <2>4 DEF Covers, Inserted, Full
<1>5. PagesRight'
  BY <1>0, <1>1 DEF PagesRight
<1> QED
  BY <1>2, <1>3, <1>4, <1>5 DEF IInv

LEMMA FindTagKeeps == ASSUME IInv, NEW t \in Threads, FindTag(t)
                      PROVE  IInv'
<1>0. TypeOK /\ (\A o \in Threads : AtWork(o)) /\ TablesInv /\ PagesRight
  BY DEF IInv
<1> DEFINE l == LookUps[body[t]][Len(answers[t]) + 1]
<1>1. /\ stage[t] = "find" /\ stage' = [stage EXCEPT ![t] = "convert"]
      /\ disturbed' = [disturbed EXCEPT ![t] = @ \/ Disturbs(t)]
      /\ UNCHANGED <<up, disk, request, status, type, body, otherTags, blockTags, todo, torn,
                     rewritten, held>>
  BY DEF FindTag, GoTo, tables
<1>2. PICK v \in 0..2 : /\ answers' = [answers EXCEPT ![t] = Append(answers[t], v)]
                        /\ ~Disturbs(t) => v = Validity(otherTags, blockTags, l)
  <2>1. PICK v \in {Validity(otherTags, blockTags, l)}
                     \cup (IF Disturbs(t) THEN {0, 1, 2} ELSE {}) :
          answers' = [answers EXCEPT ![t] = Append(answers[t], v)]
    BY DEF FindTag
  <2>2. v \in 0..2 /\ (~Disturbs(t) => v = Validity(otherTags, blockTags, l))
    <3> HIDE DEF l
    <3>1. Validity(otherTags, blockTags, l) \in 0..2
      BY ValidityType
    <3>2. CASE Disturbs(t)
      BY <2>1, <3>1, <3>2
    <3>3. CASE ~Disturbs(t)
      BY <2>1, <3>1, <3>3
    <3> QED
      BY <3>2, <3>3
  <2> QED
    BY <2>1, <2>2
<1> HIDE DEF l
<1>3. Append(answers[t], v) \in Seq(0..2)
  BY <1>0 DEF TypeOK
<1>4. TypeOK'
  <2>1. "convert" \in Stages
    BY DEF Stages
  <2>2. disturbed' \in [Threads -> BOOLEAN]
    <3>1. (disturbed[t] \/ Disturbs(t)) \in BOOLEAN
      OBVIOUS
    <3> QED
      BY <1>0, <1>1, <3>1 DEF TypeOK
  <2>3. answers' \in [Threads -> Seq(0..2)]
    BY <1>0, <1>2, <1>3 DEF TypeOK
  <2> QED
    BY <1>0, <1>1, <2>1, <2>2, <2>3 DEF TypeOK
<1>5. \A o \in Threads : AtWork(o)'
  BY <1>0, <1>1, <1>2 DEF TypeOK, AtWork
<1>6. \A o \in Threads \ {t} : /\ stage'[o] = stage[o]
                               /\ disturbed'[o] = disturbed[o]
                               /\ answers'[o] = answers[o]
  BY <1>0, <1>1, <1>2 DEF TypeOK
<1>7. TablesInv'
  <2>1. UNCHANGED tables /\ stage'[t] = "convert"
    BY <1>0, <1>1 DEF tables, TypeOK
  <2> QED
    BY <1>0, <1>1, <1>6, <2>1, TablesKept
<1>8. PagesRight'
  <2> SUFFICES ASSUME ~torn, NEW o \in Threads, ~disturbed'[o], NEW k \in 1..Len(answers'[o])
               PROVE  answers'[o][k] = Validity(OtherTag, BlockTag, LookUps[body[o]][k])
    BY <1>1 DEF PagesRight
  <2>1. CASE o # t
    BY <1>0, <1>6, <2>1 DEF PagesRight
  <2>2. CASE o = t
    <3>1. ~disturbed[t] /\ ~Disturbs(t)
      BY <1>0, <1>1, <2>2 DEF TypeOK
    <3>2. Full
      BY <1>0, <1>1, <3>1 DEF TablesInv
    <3>3. answers'[t] = Append(answers[t], v) /\ answers[t] \in Seq(0..2)
      BY <1>0, <1>2 DEF TypeOK
    <3>4. CASE k \in 1..Len(answers[t])
      BY <1>0, <2>2, <3>1, <3>3, <3>4 DEF PagesRight
    <3>5. CASE k = Len(answers[t]) + 1
      <4>1. answers'[t][k] = v
        BY <3>3, <3>5
      <4>2. v = Validity(OtherTag, BlockTag, l)
        BY <1>2, <3>1, <3>2 DEF Full
      <4> QED
        BY <2>2, <3>5, <4>1, <4>2 DEF l
    <3> QED
      BY <2>2, <3>3, <3>4, <3>5
  <2> QED
    BY <2>1, <2>2
<1> QED
  BY <1>4, <1>5, <1>7, <1>8 DEF IInv

LEMMA IInvNext == IInv /\ [Next]_vars => IInv'
  BY HandleRequestKeeps, CheckFileKeeps, OpenFileKeeps, CopyFileKeeps, IsValidTagKeeps,
     InsertTagKeeps, TablesFilledKeeps, FindTagKeeps, SetBodyKeeps, ReturnKeeps, OutsideKeeps
     DEF Next

LEMMA IInvHolds == Spec => []IInv
  BY IInit, IInvNext, PTL DEF Spec

(* The locals of HandleRequest and the tables of tags keep their type      *)
(* (file_handler.cc:29-64, markdown_handler.cc:14-65,                      *)
(* markdown-tokens.cpp:145-203).                                           *)
THEOREM TypeCorrect == Spec => []TypeOK
<1>1. IInv => TypeOK
  BY DEF IInv
<1> QED
  BY IInvHolds, <1>1, PTL

(* For every number of threads and tables of every size: as long as no two *)
(* threads have filled the tables at once, a page whose look-ups fell      *)
(* beside no insertion knows every tag (markdown-tokens.cpp:158-203).      *)
THEOREM PagesRightHolds == Spec => []PagesRight
<1>1. IInv => PagesRight
  BY DEF IInv
<1> QED
  BY IInvHolds, <1>1, PTL

(* However other programs replace, remove and rewrite the files meanwhile, *)
(* a 404 and a 200 without a text tell that at some moment of the request  *)
(* there was no file to read, and a text that is sent is, whole, one that  *)
(* the file had, unless it was written in place while it was copied        *)
(* (file_handler.cc:40-59, markdown_handler.cc:24-59, file_opener.cc:6-22).*)
THEOREM AnswerWasTrueHolds == Spec => AnswerWasTrue
<1> DEFINE Claim(t) ==
      /\ stage[t] = "check" /\ status'[t] = 404 => Gone \in held[t]
      /\ stage[t] = "read" /\ stage'[t] = "answered" => ~(held[t] \subseteq Texts)
      /\ stage[t] = "copy" /\ stage'[t] # "copy" /\ ~rewritten[t] => body'[t] \in held[t]
<1>1. ASSUME IInv, [Next]_vars, NEW t \in Threads
      PROVE  Claim(t)
  <2>0. TypeOK /\ AtWork(t)
    BY <1>1 DEF IInv
  <2>1. CASE CheckFile(t)
    <3>1. stage[t] = "check" /\ (status'[t] = 404 => disk[request[t].file] = Gone)
      BY <2>0, <2>1 DEF CheckFile, Respond, FileExists, TypeOK
    <3> QED
      BY <2>0, <3>1 DEF AtWork
  <2>2. CASE OpenFile(t)
    <3>1. /\ stage[t] = "read"
          /\ stage'[t] = "answered" => disk[request[t].file] \notin Texts
      BY <2>0, <2>2 DEF OpenFile, GoTo, TypeOK
    <3>2. disk[request[t].file] \in held[t]
      BY <2>0, <3>1 DEF AtWork
    <3> QED
      BY <3>1, <3>2
  <2>3. CASE CopyFile(t)
    <3>1. stage[t] = "copy" /\ (~rewritten[t] => body'[t] = body[t])
      BY <2>0, <2>3 DEF CopyFile, TypeOK
    <3> QED
      BY <2>0, <3>1 DEF AtWork
  <2>4. CASE ~CheckFile(t) /\ ~OpenFile(t) /\ ~CopyFile(t)
    <3>1. stage[t] \in {"check", "read", "copy"} => stage'[t] = stage[t] /\ status'[t] = status[t]
      BY <1>1, <2>0, <2>4 DEF Next, vars, HandleRequest, CheckFile, OpenFile, CopyFile,
           IsValidTag, InsertTag, TablesFilled, FindTag, SetBody, Fault, Return, ChangeFile,
           GoTo, Respond, TypeOK
    <3>2. stage[t] = "check" => status[t] = 0
      BY <2>0 DEF AtWork
    <3> QED
      BY <3>1, <3>2
  <2> QED
    BY <2>1, <2>2, <2>3, <2>4
<1>2. IInv /\ [Next]_vars => [\A t \in Threads : Claim(t)]_vars
  BY <1>1
<1> QED
  BY IInvHolds, <1>2, PTL DEF Spec, AnswerWasTrue
=============================================================================
