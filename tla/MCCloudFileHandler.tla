------------------------ MODULE MCCloudFileHandler ------------------------
(* Two threads, and keys with the extensions "txt", "mp3" and none.        *)
EXTENDS CloudFileHandler, TLC

CONSTANTS t1, t2, notes, song, plain

LetterExtensions == (notes :> <<29, 33, 29>>) @@ (song :> <<22, 25, 3>>) @@ (plain :> <<>>)

ThreadSymmetry == Permutations({t1, t2})
=============================================================================
