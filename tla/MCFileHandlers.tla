--------------------------- MODULE MCFileHandlers ---------------------------
(* Two threads serve one file, as Markdown or as it is, that changes       *)
(* between two texts.  <ins> is in both tables of tags, as it is in the    *)
(* code, and <em> in the first only.                                       *)
EXTENDS FileHandlers

CONSTANTS t1, t2, page, ins, para

MCExtension == [f \in {page} |-> "md"]

At(tag, nonBlockFirst) == [tag |-> tag, nonBlockFirst |-> nonBlockFirst]

MCLookUps == [x \in {ins, para} |-> IF x = ins THEN <<At("ins", FALSE), At("ins", TRUE)>>
                                              ELSE <<At("em", FALSE)>>]

MCOtherTagInit == <<"em", "ins">>
MCBlockTagInit == <<"p", "ins">>

MCSymmetry == Permutations({t1, t2})
=============================================================================
