---------------------------- MODULE MCQuestions ----------------------------
(* Three requests about a file of a collection that may hold another, on    *)
(* either store.  The store starts empty, with a file, or with what a race  *)
(* left behind.                                                             *)
EXTENDS Questions, TLC

CONSTANTS a, b, c, old, older, none, f, g

MCMay == (a :> {<<"upload", f>>})
      @@ (b :> {<<"upload", f>>, <<"regenerate", f>>})
      @@ (c :> {<<"deleteFile", f>>, <<"deleteCollection", f>>, <<"regenerate", f>>})
MCUploadDelete == (a :> {<<"upload", g>>}) @@ (b :> {<<"deleteFile", f>>})

Asks(parent) == [file |-> f, parent |-> parent, by |-> parent]
MCStarts ==
  {[backend |-> "pg", chunks |-> {<<f, old>>}, questions |-> {Asks(old)}, coll |-> none],
   [backend |-> "chroma", chunks |-> {}, questions |-> {Asks(older)}, coll |-> none],
   [backend |-> "chroma", chunks |-> {<<f, old>>, <<g, old>>}, questions |-> {Asks(old), Asks(older)}, coll |-> old]}
MCLastFile == {[backend |-> "chroma", chunks |-> {<<f, old>>}, questions |-> {Asks(old)}, coll |-> old]}
=============================================================================
