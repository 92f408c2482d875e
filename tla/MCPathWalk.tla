----------------------------- MODULE MCPathWalk -----------------------------
(***************************************************************************)
(* A link whose text goes through another link and up again: /r/k ->       *)
(* m/../b, /r/m -> d/e, the file /r/d/b, and perhaps another at /r/b.      *)
(***************************************************************************)
EXTENDS PathWalk, TLC

MCNames == {"r", "k", "m", "d", "e", "b"}
MCKind == [o \in {"top", "R", "D", "E"} |-> "dir"]
          @@ [o \in {"F", "G"} |-> "file"] @@ [o \in {"toB", "toE"} |-> "link"]
MCObjects == DOMAIN MCKind
MCText == [toB |-> [abs |-> FALSE, path |-> <<"m", "..", "b">>],
           toE |-> [abs |-> FALSE, path |-> <<"d", "e">>]]
MCInside == {"R", "D", "E", "F", "G"}
Only(f) == [n \in MCNames |-> IF n \in DOMAIN f THEN f[n] ELSE {"absent"}]
MCMayName == [top |-> Only([r |-> {"R"}]),
              R   |-> Only([k |-> {"toB"}, m |-> {"toE"}, d |-> {"D"},
                            b |-> {"G", "absent"}]),
              D   |-> Only([e |-> {"E"}, b |-> {"F"}]),
              E   |-> Only(<<>>)]
MCTrees == {[d \in DOMAIN MCMayName |-> [n \in MCNames |->
               IF d = "R" /\ n = "b" THEN b
               ELSE CHOOSE o \in MCMayName[d][n] : TRUE]] : b \in MCMayName.R.b}
MCRoots == {[clean |-> <<"r">>, resolved |-> <<"r">>, dir |-> "R"]}
MCAsked == {<<"r", "k">>, <<"r", "m", "b">>, <<"r", "d", "b">>}
=============================================================================
