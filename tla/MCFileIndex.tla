----------------------------- MODULE MCFileIndex -----------------------------
(***************************************************************************)
(* Instances of FileIndex for TLC.  /r/docs holds d1 and d2, its sibling   *)
(* /r/Docs holds u1, /r/music holds m1; a run takes the files it needs.    *)
(***************************************************************************)
EXTENDS FileIndex, TLC

CONSTANTS d1, d2, u1, m1, docs, upper, music

MCUnder == [d \in Dirs |-> Files \intersect
              (IF d = docs THEN {d1, d2} ELSE IF d = upper THEN {u1} ELSE {m1})]

\* docs and upper differ only in case, which LIKE ignores.
MCLike == [d \in Dirs |-> IF d = music THEN MCUnder[d]
                          ELSE Files \intersect {d1, d2, u1}]

MCSubDirs == [d \in Dirs |-> {d}]

Cfg(rs, inc, content) == [roots |-> rs, include |-> inc, content |-> content]

\* Roots that come and go, and include paths that narrow them further.
ConfinementConfigs ==
    {Cfg({docs, music}, {}, TRUE), Cfg({music}, {}, TRUE),
     Cfg({docs, music}, {music}, TRUE)}

\* Include paths that narrow and widen.
IncludeConfigs ==
    {Cfg({docs, music}, {}, TRUE), Cfg({docs, music}, {music}, TRUE)}

\* Both spellings are roots; metadata only.
CaseConfigs == {Cfg({docs, upper}, {}, FALSE)}

\* A root is dropped while a crawl runs.
NarrowingConfigs == {Cfg({docs, music}, {}, FALSE), Cfg({docs}, {}, FALSE)}

\* The list of roots is emptied.
EmptyingConfigs == {Cfg({docs}, {}, TRUE), Cfg({}, {}, TRUE)}

\* What a behaviour explores: one crawl over a disk at rest while two callers
\* change roots and include paths, with one failure, crash or pause, or Close and
\* all that fails after it; or two crawls with two of the following: files that
\* change, one change of the include paths, and a failure, a crash or a Close.
AtRest == \A f \in Files : disk[f].ver = 1
Reconfigured ==
    /\ gen + Cardinality(tested) <= 1
    /\ pc \in Starting \union {"begin"} => gen = 0
    /\ AtRest
    /\ IF closing = "no" THEN faults + boots + (IF paused THEN 1 ELSE 0) <= 1
       ELSE boots = 0 /\ ~paused /\ (closing = "done" \/ faults = 0)
Disturbed ==
    /\ ~paused
    /\ sets <= 1 /\ {cfg, saved} \subseteq IncludeConfigs
    /\ faults + boots + (IF closing = "no" THEN 0 ELSE 1) <= 1
    /\ sets = 0 \/ (faults + boots = 0 /\ closing = "no") \/ AtRest
Explored == Reconfigured \/ Disturbed

\* Callers of SetConfig are interchangeable.
ClientSymmetry == Permutations(Clients)
=============================================================================
