------------------------------ MODULE MCSearch ------------------------------
(***************************************************************************)
(* The index to search: any three files, searched in many ways; five that  *)
(* LIKE finds or the content search; and two that are changed during the   *)
(* search.                                                                 *)
(***************************************************************************)
EXTENDS Search, TLC

\* The names "B", "a", "É" and "á", in the order of their bytes.
MCNoCase == <<2, 1, 3, 4>>
MCLower  == <<2, 1, 4, 3>>

Row(name, size, root, fts, body, like) ==
    [name |-> name, size |-> size, root |-> root, fts |-> fts, body |-> body,
     like |-> like, meta |-> [size |-> {size}, tag |-> {10, 10 + name}]]
FewShapes == {Row(1, 2, "in", 3, 0, TRUE), Row(4, 1, "in", 0, 2, TRUE),
              Row(1, 1, "in", 2, 4, TRUE), Row(3, 2, "old", 5, 6, TRUE),
              Row(3, 1, "In", 0, 0, TRUE), Row(2, 2, "in", 6, 1, FALSE),
              Row(2, 1, "in", 0, 2, FALSE)}
MCShapes  == FewShapes \union {Row(1, 1, "in", 0, 0, TRUE)}

MCPaths == 1..5
MCFolded == ("in" :> "in") @@ ("In" :> "in") @@ ("old" :> "old")
Query(mode, sort, way, filters, text, lim) ==
    [mode |-> mode, text |-> text, long |-> TRUE, sort |-> sort, dir |-> way,
     filters |-> filters, limit |-> lim]
Big == [key |-> "size", op |-> ">=", value |-> 2]
NotX == [key |-> "tag", op |-> "!=", value |-> 11]
MCQueries ==
    {Query("both", s, d, {}, TRUE, n) : s \in {"", "name", "size"},
                                      d \in {"asc", "desc"}, n \in {1, 2}}
    \union {Query("name", "", "asc", {NotX}, TRUE, 2), Query("content", "", "asc", {}, TRUE, 0),
            Query("both", "", "desc", {Big}, FALSE, 1), Query("both", "", "asc", {}, FALSE, 1),
            [Query("name", "relevance", "asc", {}, TRUE, 2) EXCEPT !.long = FALSE]}
Files(n, shapes) ==
    {[p \in MCPaths |-> IF p \in DOMAIN f THEN f[p] ELSE NoRow] :
        f \in [1..n -> shapes]}
One(q) == q.limit = 1 /\ q.dir = "asc"
MCCases ==
    [index : Files(3, FewShapes \union {NoRow}), query : MCQueries,
     roots : {{"in", "old"}}, writes : {0}]
    \union
    [index : Files(5, {s \in MCShapes : s.fts = 0}),
     query : {q \in MCQueries : One(q) /\ q.mode = "both" /\ q.sort # "size"},
     roots : {{"in"}}, writes : {0}]
    \union
    [index : {f \in Files(2, FewShapes) : f[1] = f[2]},
     query : {q \in MCQueries : One(q)}, roots : {{"in"}, {"in", "old"}},
     writes : {1}]

\* A file with the word in its text, and four whose names contain it within a
\* word: "a" lies in a directory before that of "B", or behind it.
LikeShapes == {Row(1, 1, "in", 0, 0, TRUE), Row(2, 1, "in", 0, 0, TRUE),
               Row(4, 1, "in", 0, 9, FALSE)}
LikeCases ==
    [index : {f \in Files(5, LikeShapes) : {p \in MCPaths : f[p].body > 0} = {5}},
     query : {Query("both", "", "asc", {}, TRUE, 1)}, roots : {{"in"}}, writes : {0}]
=============================================================================
