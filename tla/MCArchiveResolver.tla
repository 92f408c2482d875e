-------------------------- MODULE MCArchiveResolver --------------------------
(***************************************************************************)
(* Two operations on an archive with one nested layer and one slot between *)
(* them.  The second version of the archive has a table as large as the    *)
(* whole cache.                                                            *)
(***************************************************************************)
EXTENDS ArchiveResolver

MCTableSize == [v \in 1..MaxVersion |-> [i \in 0..MaxDepth |-> IF v = 2 /\ i = 0 THEN 2 ELSE 1]]

OpSymmetry == Permutations(Ops)
=============================================================================
