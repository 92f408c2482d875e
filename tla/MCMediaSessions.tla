--------------------------- MODULE MCMediaSessions ---------------------------
(***************************************************************************)
(* Instances of MediaSessions for TLC.                                     *)
(***************************************************************************)
EXTENDS MediaSessions, TLC

\* Requests are interchangeable, and so are session ids.
RequestSymmetry == Permutations(Players) \union Permutations(Sessions)
=============================================================================
