---------------------------- MODULE MCRetrieval ----------------------------
(* One reader of a collection of two files, and a write: of a file long     *)
(* enough for two passages, and of a short one.                             *)
EXTENDS Retrieval, TLC

CONSTANTS f, g

MCLastIndices == (f :> {1, 4}) @@ (g :> {0})
MCStarts      == {{f, g}, {g}}
=============================================================================
