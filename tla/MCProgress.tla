----------------------------- MODULE MCProgress -----------------------------
(***************************************************************************)
(* Whatever was begun ends: the index with one crawl, the media service    *)
(* with requests that share one slot, or the archive resolver with         *)
(* operations that share one.  The three have nothing to do with one       *)
(* another; in a behaviour only one of them works.                         *)
(***************************************************************************)
EXTENDS MCFileIndex

CONSTANTS Players, Sessions, None, MaxProcs, MaxSessions, HW
CONSTANTS Ops, MaxDepth, MaxConcurrent, MaxTempBytes, MaxLayerBytes, Chunk,
          CacheSlots, MaxCacheBytes, Keyless, MaxLitter

VARIABLES
    works,  \* which of the three
    sem, running, made, live, order, stale, active, hwFailed, mu, scan, req,
    archive, tokens, used, cache, op, going, litter

Media == INSTANCE MediaSessions

Archive == INSTANCE ArchiveResolver WITH
    ver <- archive, sem <- tokens,
    TableSize <- [v \in 1..MaxVersion |-> [i \in 0..MaxDepth |-> 1]]

mediaVars ==
    <<sem, running, made, live, order, stale, active, hwFailed, mu, scan, req>>

archiveVars == <<archive, tokens, used, cache, op, going, litter>>

ProgressInit ==
    works \in {"index", "media", "archive"} /\ Init /\ Media!Init /\ Archive!Init

ProgressNext ==
    \/ works = "index" /\ Next /\ UNCHANGED <<works, mediaVars, archiveVars>>
    \/ works = "media" /\ Media!Next /\ UNCHANGED <<works, vars, archiveVars>>
    \/ works = "archive" /\ Archive!Next /\ UNCHANGED <<works, vars, mediaVars>>

\* The fairness each of the three states for itself.
ProgressSpec ==
    /\ ProgressInit /\ [][ProgressNext]_<<works, vars, mediaVars, archiveVars>>
    /\ Fairness
    /\ \A p \in Players : WF_mediaVars(Media!Progress(p))
    /\ Archive!Fairness

\* Every request to the media service is answered, with what it asked for or
\* with "server busy": the property of MediaSessions.
RequestsAreAnswered == Media!RequestsAreAnswered

\* Every operation of the archive resolver ends: the property of
\* ArchiveResolver.
OperationsEnd == Archive!OperationsEnd
=============================================================================
