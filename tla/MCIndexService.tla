--------------------------- MODULE MCIndexService ---------------------------
(* The instance of IndexService for TLC: two streams without a crawl,   *)
(* one stream beside a crawl, and two callers without a stream.            *)
EXTENDS IndexService

CONSTANTS h1, h2, c1, c2

MCClients == {h1, h2}
MCCallers == {c1, c2}

Load(streams_, callers_, crawls_, phases_, changes, stops_) ==
    [streams |-> streams_, callers |-> callers_, crawls |-> crawls_,
     phases |-> phases_, configs |-> changes, pauses |-> changes,
     stops |-> stops_]

MCLoads == {Load({h1, h2}, {}, 0, {}, FALSE, TRUE),
            Load({h1}, {c1}, 1, {"extracting"}, FALSE, FALSE),
            Load({}, {c1, c2}, 2, {}, TRUE, TRUE)}
=============================================================================
