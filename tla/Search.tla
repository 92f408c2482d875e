------------------------------- MODULE Search -------------------------------
(***************************************************************************)
(* Searching the index (internal/index/search.go) page after page: the     *)
(* checks of a query, the branches it is split into, the SQL queries they  *)
(* take, which are not one transaction, and the merge of two branches in   *)
(* Go.  Meanwhile the crawler writes rows and the roots are changed.       *)
(*                                                                         *)
(* SQL is used for what it says: a query sees one state of the index, and  *)
(* answers with a window of the rows it selects, in its order.  A row is   *)
(* reduced to how it meets the text that is searched for: its rank in      *)
(* names_fts (fts) and in content_fts (body), 0 for no match, and whether  *)
(* the name contains it (like).  Paths and names are numbered in their     *)
(* order, byte by byte; NoCase and Lower are the orders of names in which  *)
(* SQL and Go leave case aside.  The text is reduced to whether it has a   *)
(* term, and whether all of its terms are long enough for LIKE.            *)
(***************************************************************************)
EXTENDS Integers, Sequences, FiniteSets

CONSTANTS
    Paths,        \* of files, numbered
    Shapes,       \* rows: [name, size, root, meta, fts, body, like]
    NoRow,        \* no row
    NoCase,       \* where COLLATE NOCASE puts a name: it folds A to Z
    Lower,        \* where a comparison of strings.ToLower puts it: any capital
    AllowedRoots, \* boot-time roots
    Folded,       \* a root as LIKE sees it, which folds case
    PartOf,       \* pairs of a value and a part of it
    Cases,        \* index, query and number of writes to begin with
    Numeric,      \* keys of numeric fields
    Common,       \* keys that are columns of files
    LikeScore,    \* likeFallbackScore
    MaxLimit,     \* maxSearchLimit
    DefaultLimit, \* defaultLimit
    MaxWindow     \* maxSearchWindow

\* Scores and sizes are compared, LIKE gives its hits one of their kind.  An
\* index has finitely many rows; a root beneath which no row could be makes no
\* difference to a search.
ASSUME SearchAssumption ==
    /\ Paths \subseteq Nat /\ IsFiniteSet(Paths) /\ NoRow \notin Shapes
    /\ \A s \in Shapes : /\ {s.name, s.size, s.fts, s.body} \subseteq Nat
                        /\ {NoCase[s.name], Lower[s.name]} \subseteq Nat
    /\ {LikeScore, MaxLimit, DefaultLimit, MaxWindow} \subseteq Nat \ {0}
    /\ \A c \in Cases : /\ c.index \in [Paths -> Shapes \union {NoRow}]
                       /\ c.roots \subseteq {s.root : s \in Shapes}
                       /\ c.writes \in Nat /\ c.query.limit \in Int

VARIABLES
    index,       \* the rows of files, with what the FTS tables hold of them
    roots,       \* the roots of the configuration in force
    writes,      \* how often others will still change them
    moved,       \* history: they did, since the first page
    query,       \* [mode, text, long, sort, dir, filters, limit]
    offset,      \* of the page asked for
    step,        \* what Search does next
    scope,       \* the roots this call is confined to
    nameBr,      \* the name branch: "fts", "like" or "none"
    contentBr,   \* the content branch: "content" or "none"
    total,       \* what the counts said
    nameHits, contentHits,
    hits,        \* the page: [path, score, kind]
    reply,       \* "ok", an error, or none yet
    shown,       \* history: paths of the pages so far
    were         \* history: rows of this call, with their paths

asked    == <<query, offset>>
world    == <<index, roots, writes, moved, were>>
branches == <<nameBr, contentBr>>
fetched  == <<nameHits, contentHits>>
searchVars == <<world, asked, step, scope, branches, total, fetched, hits,
                reply, shown>>

-----------------------------------------------------------------------------
(* The query.                                                              *)

Modes     == {"name", "content", "both"}
SortKeys  == {"relevance", "name", "size"}
Orderings == {"<", "<=", ">", ">="}

Compare(v, op, w) ==
    CASE op = "<" -> v < w [] op = "<=" -> v <= w
      [] op = ">" -> v > w [] op = ">=" -> v >= w
      [] op = "=" -> v = w [] op = "~"  -> <<v, w>> \in PartOf

\* metaFilterSQL: an operator must suit the field, and a value too.
Invalid(f) ==
    \/ f.op \in Orderings /\ f.key \notin Numeric
    \/ f.key \in Numeric /\ f.value \notin Nat /\ f.op # "~"
    \/ f.key \in Numeric \intersect Common /\ f.op = "~"

\* A field may have several values: "!=" is that none is equal.
Keeps(f, row) ==
    IF f.op = "!=" THEN f.value \notin row.meta[f.key]
                   ELSE \E v \in row.meta[f.key] : Compare(v, f.op, f.value)

\* Mutant: only the roots of the configuration count.
InConfig(row, live) == Folded[row.root] \in {Folded[r] : r \in live}

scopeFilter(row, live) ==
    \A rs \in {live, AllowedRoots} : Folded[row.root] \in {Folded[r] : r \in rs}

\* What every branch selects from: files in scope that pass the filters.
Filtered(live) ==
    {p \in Paths : /\ index[p] # NoRow /\ scopeFilter(index[p], live)
                   /\ \A f \in query.filters : Keeps(f, index[p])}

\* resolveSort: nothing to rank by without text.
sortKey == IF query.sort \in {"", "relevance"}
           THEN (IF query.text THEN "relevance" ELSE "name") ELSE query.sort
desc    == query.dir = "desc"

limit == IF query.limit <= 0 THEN DefaultLimit
         ELSE IF query.limit > MaxLimit THEN MaxLimit ELSE query.limit

\* What the handler refuses by itself, and Search once more.
Amiss ==
    \/ query.mode \notin Modes \/ query.sort \notin SortKeys \union {""}
    \/ ~query.text /\ query.filters = {}

BadRequest ==
    \/ Amiss
    \/ \E f \in query.filters : Invalid(f)
    \/ offset + limit > MaxWindow

-----------------------------------------------------------------------------
(* Branches.                                                               *)

Selects(b, p) ==
    CASE b = "fts"     -> index[p].fts > 0
      [] b = "like"    -> index[p].like
      [] b = "content" -> index[p].body > 0
      [] b = "filter"  -> TRUE

Body(b) == {p \in Filtered(scope) : Selects(b, p)}

Score(b, p) ==
    CASE b = "fts"     -> index[p].fts
      [] b = "like"    -> LikeScore
      [] b = "content" -> index[p].body
      [] b = "filter"  -> 0

Hit(b, p) == [path |-> p, score |-> Score(b, p), name |-> index[p].name,
              size |-> index[p].size,
              kind |-> IF b = "content" THEN "content" ELSE "name"]

\* By a key, then by path; the direction turns both.  Names are folded first.
ByKey(fold, a, b) ==
    LET of(h) == IF sortKey = "size" THEN h.size ELSE fold[h.name]
        below(x, y) == of(x) < of(y) \/ (of(x) = of(y) /\ x.path < y.path)
    IN  IF desc THEN below(b, a) ELSE below(a, b)

\* orderBy: SQL folds names with NOCASE; relevance keeps the branch's own
\* order, that of LIKE is the name as it is.
InBranch(b, x, y) ==
    IF sortKey # "relevance" THEN ByKey(NoCase, x, y)
    ELSE IF b = "like" THEN \/ x.name < y.name
                            \/ x.name = y.name /\ x.path < y.path
    ELSE x.score > y.score \/ (x.score = y.score /\ x.path < y.path)

\* The order of the merge, hitLess: Go folds names with ToLower; relevance puts
\* names first among equals.
InMerge(x, y) ==
    IF sortKey # "relevance" THEN ByKey(Lower, x, y)
    ELSE \/ x.score > y.score
         \/ /\ x.score = y.score
            /\ \/ x.kind = "name" /\ y.kind = "content"
               \/ (x.kind = y.kind /\ x.path < y.path)

Precedes(b, x, y) == IF b = "merge" THEN InMerge(x, y) ELSE InBranch(b, x, y)

\* The members of S in the order of a branch or of the merge.
Ranked(S, b) ==
    [i \in 1..Cardinality(S) |->
        CHOOSE x \in S : Cardinality({y \in S : Precedes(b, y, x)}) = i - 1]

\* LIMIT and OFFSET.
Window(s, from, n) ==
    SubSeq(s, from + 1, IF from + n < Len(s) THEN from + n ELSE Len(s))

queryBranch(b, n, from) ==
    Window(Ranked({Hit(b, p) : p \in Body(b)}, b), from, n)

HitsOf(s) == {s[i] : i \in DOMAIN s}
PathsOf(s) == {h.path : h \in HitsOf(s)}

\* A name hit takes the better score of its twin, whose own hit goes.
Boosted(h, others) ==
    LET twin == {o \in others : o.path = h.path /\ o.score > h.score} IN
    IF twin = {} THEN h
    ELSE [h EXCEPT !.score = (CHOOSE o \in twin : TRUE).score]

mergeHitsBy(a, b) ==
    Ranked({Boosted(h, HitsOf(b)) : h \in HitsOf(a)}
             \union {h \in HitsOf(b) : h.path \notin PathsOf(a)}, "merge")

-----------------------------------------------------------------------------
(* A call.                                                                 *)

SearchInit ==
    /\ \E c \in Cases : /\ index = c.index /\ query = c.query
                        /\ writes = c.writes /\ roots = c.roots
    /\ moved = FALSE /\ were = {}
    /\ offset = 0 /\ step = "ask" /\ scope = {}
    /\ nameBr = "none" /\ contentBr = "none" /\ total = 0
    /\ nameHits = <<>> /\ contentHits = <<>> /\ hits = <<>>
    /\ reply = "none" /\ shown = <<>>

Present(rows) == {<<p, rows[p]>> : p \in {q \in Paths : rows[q] # NoRow}}

\* The crawler writes or deletes a row; or SetConfig changes the roots.
Others ==
    /\ writes > 0 /\ step # "over"
    /\ \/ /\ \E p \in Paths, r \in Shapes \union {NoRow} :
               r # index[p] /\ index' = [index EXCEPT ![p] = r]
          /\ UNCHANGED roots
       \/ /\ roots' \in SUBSET {s.root : s \in Shapes} /\ roots' # roots
          /\ UNCHANGED index
    /\ writes' = writes - 1 /\ moved' = TRUE
    /\ were' = were \union Present(index')
    /\ UNCHANGED <<asked, step, scope, branches, total, fetched, hits, reply, shown>>

Replies(r, page, n) ==
    /\ step' = "replied" /\ reply' = r /\ hits' = page /\ total' = n
    /\ shown' = shown \o [i \in DOMAIN page |-> page[i].path]
    /\ UNCHANGED <<world, asked, scope, branches, fetched>>

Goes(to) == step' = to /\ UNCHANGED <<world, asked, scope, hits, reply, shown>>

\* A query of the database may fail.
QueryFails ==
    /\ step \notin {"ask", "replied", "over"}
    /\ Replies("indexing", <<>>, 0)

\* The scope is that of the configuration as the call begins.
Ask ==
    /\ step = "ask"
    /\ IF BadRequest THEN Replies("bad_request", <<>>, 0)
       ELSE /\ scope' = roots
            /\ were' = Present(index)
            /\ nameBr' = "none" /\ contentBr' = "none" /\ total' = 0
            /\ nameHits' = <<>> /\ contentHits' = <<>>
            /\ step' = IF ~query.text THEN "count_filter"
                       ELSE IF query.mode # "content" THEN "count_name"
                       ELSE "count_content"
            /\ UNCHANGED <<index, roots, writes, moved, asked, hits, reply, shown>>

CountFilter ==
    LET n == Cardinality(Body("filter")) IN
    /\ step = "count_filter"
    /\ IF offset >= n THEN Replies("ok", <<>>, n)
       ELSE total' = n /\ Goes("page_filter") /\ UNCHANGED <<branches, fetched>>

PageFilter ==
    /\ step = "page_filter"
    /\ Replies("ok", queryBranch("filter", limit, offset), total)

\* The branches are counted one after the other; LIKE comes in when the FTS
\* finds nothing.
NameCounted(b) ==
    LET n == Cardinality(Body(b)) IN
    /\ nameBr' = IF n > 0 THEN b ELSE "none"
    /\ total' = n
    /\ Goes(IF query.mode = "name" THEN "choose" ELSE "count_content")
    /\ UNCHANGED <<contentBr, fetched>>

CountName ==
    /\ step = "count_name"
    /\ IF Body("fts") = {} /\ query.long
       THEN Goes("count_like") /\ UNCHANGED <<branches, total, fetched>>
       ELSE NameCounted("fts")

CountLike ==
    /\ step = "count_like"
    /\ NameCounted("like")

CountContent ==
    LET n == Cardinality(Body("content")) IN
    /\ step = "count_content"
    /\ contentBr' = IF n > 0 THEN "content" ELSE "none"
    /\ total' = IF nameBr = "none" THEN n ELSE total
    /\ Goes("choose")
    /\ UNCHANGED <<nameBr, fetched>>

Choose ==
    /\ step = "choose"
    /\ IF nameBr = "none" /\ contentBr = "none" THEN Replies("ok", <<>>, 0)
       ELSE /\ Goes(IF contentBr = "none" \/ nameBr = "none" THEN "page" ELSE "union")
            /\ UNCHANGED <<branches, total, fetched>>

Page ==
    /\ step = "page"
    /\ Replies("ok", queryBranch(IF contentBr = "none" THEN nameBr ELSE contentBr,
                                 limit, offset), total)

\* Mutant: a path that is in both counts twice.
CountBoth ==
    LET n == Cardinality(Body(nameBr)) + Cardinality(Body(contentBr)) IN
    /\ step = "union"
    /\ IF offset >= n THEN Replies("ok", <<>>, n)
       ELSE total' = n /\ Goes("names") /\ UNCHANGED <<branches, fetched>>

countUnion ==
    LET n == Cardinality(Body(nameBr) \union Body(contentBr)) IN
    /\ step = "union"
    /\ IF offset >= n THEN Replies("ok", <<>>, n)
       ELSE total' = n /\ Goes("names") /\ UNCHANGED <<branches, fetched>>

\* Mutant: each branch is asked for the page's length only.
JustThePage == limit

\* What each branch contributes.
Depth == offset + limit + 1

FetchNames ==
    /\ step = "names"
    /\ nameHits' = queryBranch(nameBr, Depth, 0)
    /\ Goes("contents")
    /\ UNCHANGED <<branches, total, contentHits>>

FetchContents ==
    /\ step = "contents"
    /\ contentHits' = queryBranch(contentBr, Depth, 0)
    /\ Goes("merge")
    /\ UNCHANGED <<branches, total, nameHits>>

Merge ==
    LET merged == mergeHitsBy(nameHits, contentHits) IN
    /\ step = "merge"
    /\ Replies("ok", IF offset >= Len(merged) THEN <<>>
                     ELSE Window(merged, offset, limit), total)

-----------------------------------------------------------------------------
(* The client (web SearchView) turns the page while there is one.          *)

TurnPage ==
    /\ step = "replied" /\ reply = "ok" /\ offset + Len(hits) < total
    /\ offset' = offset + limit /\ step' = "ask" /\ reply' = "none"
    /\ hits' = <<>>
    /\ UNCHANGED <<world, query, scope, branches, total, fetched, shown>>

LastPage ==
    /\ step = "replied" /\ (reply # "ok" \/ offset + Len(hits) >= total)
    /\ step' = "over"
    /\ UNCHANGED <<world, asked, scope, branches, total, fetched, hits, reply, shown>>

SearchStep ==
    \/ Ask \/ CountFilter \/ PageFilter \/ CountName \/ CountLike
    \/ CountContent \/ Choose \/ Page \/ countUnion \/ FetchNames
    \/ FetchContents \/ Merge \/ QueryFails \/ TurnPage \/ LastPage

SearchNext == SearchStep \/ Others \/ (step = "over" /\ UNCHANGED searchVars)

SearchSpec == SearchInit /\ [][SearchNext]_searchVars

-----------------------------------------------------------------------------
(* Properties.                                                             *)

SearchTypeOK ==
    /\ index \in [Paths -> Shapes \union {NoRow}]
    /\ roots \subseteq {s.root : s \in Shapes} /\ writes \in Nat
    /\ step \in {"ask", "count_filter", "page_filter", "count_name",
                 "count_like", "count_content", "choose", "page", "union",
                 "names", "contents", "merge", "replied", "over"}
    /\ offset \in 0..MaxWindow
    /\ nameBr \in {"none", "fts", "like"} /\ contentBr \in {"none", "content"}
    /\ total \in 0..Cardinality(Paths)
    /\ \A s \in {nameHits, contentHits, hits} :
         PathsOf(s) \subseteq Paths /\ Len(s) <= Cardinality(Paths)
    /\ reply \in {"none", "ok", "bad_request", "indexing"}

\* "Results are always confined to the live index roots and, as a second
\* belt, to AllowedRoots": whatever is written or configured during a call,
\* every hit was a row of it, beneath a root of the configuration the call
\* began with and of the allowed ones, letters' case apart; and no path comes
\* twice in a page.
HitsAreConfined ==
    step = "replied" =>
      /\ Len(hits) <= limit /\ Cardinality(PathsOf(hits)) = Len(hits)
      /\ \A p \in PathsOf(hits) : \E w \in were :
           /\ w[1] = p
           /\ \A rs \in {scope, AllowedRoots} :
                \E r \in rs : Folded[r] = Folded[w[2].root]

\* What a search stands for: the files that match, in one order.
TextHits(b) == {p \in Filtered(roots) : Selects(b, p)}
NameKind == IF TextHits("fts") = {} /\ query.long THEN "like" ELSE "fts"
Kinds ==
    IF ~query.text THEN {"filter"}
    ELSE {b \in CASE query.mode = "name" -> {NameKind}
                  [] query.mode = "content" -> {"content"}
                  [] query.mode = "both" -> {NameKind, "content"} :
            TextHits(b) # {}}
Found == UNION {TextHits(b) : b \in Kinds}
Scores(p) == {Score(b, p) : b \in {k \in Kinds : Selects(k, p)}}
Best(p) == [path |-> p, name |-> index[p].name, size |-> index[p].size,
            score |-> CHOOSE s \in Scores(p) : \A t \in Scores(p) : t <= s,
            kind |-> IF \E b \in Kinds \ {"content"} : Selects(b, p)
                     THEN "name" ELSE "content"]
AnswerOrder == IF Cardinality(Kinds) = 2 THEN "merge"
               ELSE IF Kinds = {"like"} THEN "like" ELSE "fts"
Answer == LET s == Ranked({Best(p) : p \in Found}, AnswerOrder)
          IN  [i \in DOMAIN s |-> s[i].path]

\* The content of the file ranks above its name: the boost of the merge.
Lifted(p) == /\ p \in TextHits(NameKind) /\ p \in TextHits("content")
             /\ Score("content", p) > Score(NameKind, p)

\* "Both branches and the merge share one total order" (search.go): NOCASE and
\* ToLower agree on the names found, LIKE's names lie as their paths do, and no
\* file has the score of one that is ranked by its content and found by its
\* name as well.
OneOrder ==
    Cardinality(Kinds) = 2 =>
      /\ sortKey = "name" =>
           \A p, q \in Found : NoCase[index[p].name] < NoCase[index[q].name]
                                 <=> Lower[index[p].name] < Lower[index[q].name]
      /\ sortKey = "relevance" =>
           /\ \A p, q \in TextHits("like") :
                NameKind = "like" /\ index[p].name < index[q].name => p < q
           /\ \A p, q \in Found : p # q /\ Lifted(p) => Best(p).score # Best(q).score

\* "So the page is exact" (search.go), with nothing written in between: the
\* total is, and pages are full until all of it was shown.  Where the ground
\* for it is given, that there is one order, they are the answer laid end to
\* end, no file twice and none left out.
PagesAreExact ==
    ~moved /\ reply = "ok" =>
      /\ total = Cardinality(Found)
      /\ Len(shown) = Len(Window(Answer, 0, offset + limit))
      /\ step = "over" => Len(shown) = Len(Answer)
      /\ OneOrder => /\ shown = Window(Answer, 0, offset + limit)
                     /\ step = "over" => shown = Answer

\* Whatever the orders are, by relevance each place of a page has a file of the
\* score that belongs there, though it may be one that was on a page before.
PagesAreAsGood ==
    ~moved /\ reply = "ok" /\ sortKey = "relevance" =>
      \A i \in DOMAIN shown : Best(shown[i]).score = Best(Answer[i]).score

\* What "so the page is exact" says to a client that turns the pages, with no
\* ground asked for: while nothing is written, no file comes twice.
NoFileTwice ==
    ~moved => \A i, j \in DOMAIN shown : shown[i] = shown[j] => i = j
=============================================================================
