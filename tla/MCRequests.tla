----------------------------- MODULE MCRequests -----------------------------
(***************************************************************************)
(* One request of the API: a path request, while other programs change the *)
(* file system, or a search, while others change the index.  The other of  *)
(* the two stays where a request ends.                                     *)
(***************************************************************************)
EXTENDS PathWalk, MCSearch

-----------------------------------------------------------------------------
(* The file system.                                                        *)

\*  /r is the root, configured by a link /l to it; /x is outside.
MCNames == {"r", "l", "x", "a", "b", "s"}
MCKind == [o \in {"top", "R", "D", "X"} |-> "dir"]
          @@ [o \in {"F", "G", "secret"} |-> "file"]
          @@ [o \in {"toRoot", "toX", "toB", "toSelf", "upOut", "back"} |-> "link"]
          @@ [o \in {"pipe"} |-> "other"]
MCObjects == DOMAIN MCKind
MCText == [toRoot |-> [abs |-> TRUE, path |-> <<"r">>],
           toX    |-> [abs |-> TRUE, path |-> <<"x">>],
           toB    |-> [abs |-> FALSE, path |-> <<"b">>],
           toSelf |-> [abs |-> TRUE, path |-> <<"r", "a">>],
           upOut  |-> [abs |-> FALSE, path |-> <<"..", "..", "x", "s">>],
           back   |-> [abs |-> TRUE, path |-> <<"l", "b">>]]
MCInside == {"R", "D", "F", "G", "pipe"}
Only(f) == [n \in MCNames |-> IF n \in DOMAIN f THEN f[n] ELSE {"absent"}]
MCMayName ==
    [top |-> Only([r |-> {"R"}, l |-> {"toRoot"}, x |-> {"X"}]),
     X   |-> Only([s |-> {"secret"}, b |-> {"back"}, r |-> {"toRoot"}]),
     R   |-> Only([a |-> {"D", "F", "toX", "toB", "toSelf", "absent"},
                        b |-> {"G", "upOut", "pipe", "absent"}]),
     D   |-> Only([s |-> {"G", "upOut", "absent"}])]
MCTrees ==
    {[d \in DOMAIN MCMayName |-> [n \in MCNames |->
        CASE d = "R" /\ n = "a" -> a
          [] d = "R" /\ n = "b" -> b
          [] d = "D" /\ n = "s" -> s
          [] OTHER -> CHOOSE o \in MCMayName[d][n] : TRUE]] :
       a \in MCMayName.R.a, b \in MCMayName.R.b, s \in MCMayName.D.s}
MCRoots == {[clean |-> <<"l">>, resolved |-> <<"r">>, dir |-> "R"]}
MCAsked    == {<<"l">>, <<"l", "a">>, <<"r", "a", "s">>, <<"r", "a", "b">>,
               <<"x", "s">>, <<"x", "b">>, <<"x", "r">>}

-----------------------------------------------------------------------------
SearchRests ==
    /\ index = [p \in MCPaths |-> NoRow] /\ roots = {} /\ writes = 0
    /\ moved = FALSE /\ were = {}
    /\ query = CHOOSE q \in MCQueries : TRUE
    /\ offset = 0 /\ step = "over" /\ scope = {}
    /\ nameBr = "none" /\ contentBr = "none" /\ total = 0
    /\ nameHits = <<>> /\ contentHits = <<>> /\ hits = <<>>
    /\ reply = "none" /\ shown = <<>>

WalkRests ==
    /\ tree = CHOOSE t \in MCTrees : TRUE
    /\ changed = FALSE /\ op = "open" /\ path = <<"x", "s">> /\ pc = "done"
    /\ goal = <<>> /\ leaf = "any" /\ hops = 0 /\ dir = Absent
    /\ phys = <<>> /\ todo = <<>> /\ tries = 0 /\ fault = "none"
    /\ found = {} /\ names = {} /\ fds = 0 /\ opened = {} /\ bytes = {}
    /\ answer = "forbidden"

Walks    == Init /\ SearchRests
Searches == SearchInit /\ WalkRests

RequestsInit == Walks \/ Searches
RequestsNext ==
    \/ Next /\ UNCHANGED searchVars
    \/ SearchNext /\ UNCHANGED vars

RequestsSpec ==
    RequestsInit /\ [][RequestsNext]_<<vars, searchVars>> /\ WF_vars(Step)
=============================================================================
