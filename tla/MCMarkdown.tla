----------------------------- MODULE MCMarkdown -----------------------------
(* All documents of up to four lines of many kinds, and of up to five      *)
(* lines of a few.                                                         *)
EXTENDS Markdown

M(indent, kind) == [indent |-> indent, kind |-> kind]

Words(n) == <<M(n, "words")>>
Star(n, rest) == <<M(n, "star"), M(0, rest)>>
Quote(rest) == <<M(0, "quote")>> \o rest

Few == {Empty, <<M(8, "blanks")>>, Words(0), Words(4), Words(8), Star(0, "words"),
        Star(2, "words"), <<M(0, "tag")>>}

MCLines == Few \cup {Star(2, "emphasis"), <<M(0, "star"), M(1, "stars")>>,
                     <<M(0, "plus"), M(0, "words")>>, <<M(0, "number"), M(0, "words")>>, Quote(Words(0)),
                     Quote(Quote(Words(0))), <<M(0, "hash")>>, <<M(0, "dashes")>>,
                     <<M(0, "reference")>>, <<M(0, "title")>>,
                     <<M(0, "star"), M(1, "dash"), M(0, "words")>>}

MCMaxLength == [l \in MCLines |-> IF l \in Few THEN 5 ELSE 4]
=============================================================================
