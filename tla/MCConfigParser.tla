--------------------------- MODULE MCConfigParser ---------------------------
(* Every file of up to MaxChars characters.                                *)
EXTENDS ConfigParser
=============================================================================
