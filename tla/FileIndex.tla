------------------------------ MODULE FileIndex ------------------------------
(***************************************************************************)
(* The persistent file index of the daemon (internal/index): the crawl     *)
(* that keeps three SQLite tables -- files, content_fts and file_meta --   *)
(* in step with the disk, and the two things that run beside it: changes   *)
(* of the configuration (SetConfig) and process death.                     *)
(*                                                                         *)
(* A step of this module is one SQL statement, one transaction or one file *)
(* operation of the code; whatever the code does between two of them       *)
(* without touching shared state belongs to the step.                      *)
(***************************************************************************)
EXTENDS Integers, FiniteSets, Functions

CONSTANTS
    Files,        \* regular files the crawler can meet (SkipDir already applied)
    Dirs,         \* directories usable as roots, scopes and include paths
    Under,        \* Under[d]: the files beneath d, as within() and WalkDir see it
    Like,         \* Like[d]: the files the SQL prefix condition of d matches
    SubDirs,      \* SubDirs[d]: the directories within d, d included
    TextFiles,    \* files with an allowlisted content extension, small enough
    MediaFiles,   \* files with an extension some metadata extractor covers
    Configs,      \* the configurations SetConfig may be called with
    FallbackRoots,\* roots a restart puts in place of an empty list
    Clients,      \* concurrent callers of PUT /index/config
    BatchSize,    \* metaBatchSize: rows per upsert transaction
    ContentBatch, \* contentBatchSize: documents per transaction
    MetaBatch,    \* metaRowBatchSize: files per file_meta transaction
    MaxGen, MaxVersion, MaxSets, MaxFaults, MaxBoots,  \* bounds of the model
    Pausing       \* whether the admin may pause the crawler

\* SQLite's LIKE folds ASCII case, so what a prefix matches may be more than
\* what lies beneath it, never less.
ASSUME PathAssumption ==
    /\ Under \in [Dirs -> SUBSET Files]
    /\ Like \in [Dirs -> SUBSET Files]
    /\ SubDirs \in [Dirs -> SUBSET Dirs]
    /\ \A d \in Dirs : Under[d] \subseteq Like[d] /\ d \in SubDirs[d]

ASSUME ConfigAssumption ==
    /\ Configs # {} /\ FallbackRoots \subseteq Dirs
    /\ Configs \subseteq
         [roots : SUBSET Dirs, include : SUBSET Dirs, content : BOOLEAN]

ASSUME BoundAssumption ==
    /\ {BatchSize, ContentBatch, MetaBatch} \subseteq Nat \ {0}
    /\ {MaxGen, MaxVersion, MaxSets, MaxFaults, MaxBoots} \subseteq Nat
    /\ Pausing \in BOOLEAN

VARIABLES
    disk,      \* disk[f]: whether f exists, and how often that or its content changed
    row,       \* table files, keyed by path
    doc,       \* table content_fts: path -> version of the text it holds
    met,       \* table file_meta: file -> version its rows were read from
    gen,       \* meta.generation
    lastFull,  \* meta.last_full_scan, as the generation of that crawl
    saved,     \* the configuration in config.json
    cfg,       \* Service.cfg, the live configuration
    closing,   \* Close: "no", "begun" (Service.closed is set), "waits" (it has
               \* cancelled what it found), "done" (the store is closed)
    tested,    \* Rescan calls past their tests that have not claimed crawlBusy
    cancelled, \* the context of the running crawl is cancelled
    paused,    \* Service.resumeCh # nil
    pc,        \* where the holder of crawlBusy is; "off" when nobody holds it
    crawl,     \* the crawl's snapshot: its configuration, roots and fullness
    rootsLeft, \* roots not yet walked
    todo,      \* files of the current root not yet visited
    batch,     \* stat results not yet written: path -> version
    pending,   \* candidates of the current pass not yet extracted
    results,   \* extracted, not yet written: path -> version, 0 for nothing
    client,    \* callers of SetConfig: step, requested and swept-with config
    sweepCfg,  \* the configuration the crawl-end sweep has read
    sets, faults, boots,  \* history: changes, failures and restarts so far
    stable,    \* history: files nothing disturbed since the crawl began
    missed     \* history: the last sweep with the live configuration failed

tables    == <<row, doc, met>>
crawlVars == <<pc, crawl, rootsLeft, todo, batch, pending, results, sweepCfg>>
control   == <<cfg, saved, closing, tested, cancelled, paused>>
vars == <<disk, tables, gen, lastFull, control, crawlVars, client,
          sets, faults, boots, stable, missed>>

-----------------------------------------------------------------------------
(* Rows, prefixes and configurations.                                      *)

Row    == [gen : Nat, ver : Nat, ci : BOOLEAN, me : BOOLEAN]
Config == [roots : SUBSET Dirs, include : SUBSET Dirs, content : BOOLEAN]
Crawl  == [cfg : Config, roots : SUBSET Dirs, full : BOOLEAN]
Call   == [roots : SUBSET Dirs, full : BOOLEAN]
Client == [at : {"idle", "read", "sweep", "save"}, req : Config, seen : Config]

Indexed == DOMAIN row

\* A table, or a batch of rows, is a partial function of the path.
Empty        == [f \in {} |-> 0]
One(f, v)    == [g \in {f} |-> v]
Stored(s, t) == [f \in DOMAIN s \union DOMAIN t |-> IF f \in DOMAIN s THEN s[f] ELSE t[f]]

\* What WalkDir reaches from a set of roots, and what prefixCond selects.
UnderAny(ds)   == UNION {Under[d] : d \in ds}
prefixCond(ds) == UNION {Like[d] : d \in ds}

\* The files whose documents a configuration allows; no include paths means
\* no restriction.
Included(c) == IF c.include = {} THEN Files ELSE prefixCond(c.include)

pathInRoots(d) == \E r \in cfg.roots : d \in SubDirs[r]

\* Fillers for fields that mean nothing while nothing runs.
AnyConfig  == CHOOSE c \in Configs : TRUE
NoCrawl    == [cfg |-> AnyConfig, roots |-> {}, full |-> FALSE]
IdleClient == [at |-> "idle", req |-> AnyConfig, seen |-> AnyConfig]

\* main: an empty list of roots is replaced before the index is opened.
Restored(c) == [c EXCEPT !.roots = IF @ = {} THEN FallbackRoots ELSE @]

Passes   == {"sweepDocs", "sweepMeta", "sweepFiles", "cleanDocs", "pickDocs",
             "docs", "cleanMeta", "pickMeta", "meta", "stamp"}
Starting == {"claimed", "registered"}
Steps    == {"off", "begin", "walk", "endRead", "endSweep"} \union Starting \union Passes
Working  == {"begin", "walk"} \union Passes

-----------------------------------------------------------------------------
(* Failures and the initial state.                                         *)

\* A statement fails: for a reason of its own, which MaxFaults bounds, or
\* because Close has closed the store.
Fault == (faults < MaxFaults \/ closing = "done") /\ faults' = faults + 1

Open == closing # "done"

Init ==
    /\ disk = [f \in Files |-> [there |-> TRUE, ver |-> 1]]
    /\ row = Empty /\ doc = Empty /\ met = Empty
    /\ gen = 0 /\ lastFull = 0
    /\ saved \in Configs /\ cfg = Restored(saved)
    /\ closing = "no" /\ tested = {} /\ cancelled = FALSE /\ paused = FALSE
    /\ pc = "off"
    /\ crawl = NoCrawl
    /\ rootsLeft = {} /\ todo = {} /\ batch = Empty
    /\ pending = {} /\ results = Empty
    /\ client = [c \in Clients |-> IdleClient]
    /\ sweepCfg = AnyConfig
    /\ sets = 0 /\ faults = 0 /\ boots = 0
    /\ stable = {} /\ missed = FALSE

-----------------------------------------------------------------------------
(* The disk, which other programs change at any time.                      *)

Write(f) ==
    /\ disk[f].ver < MaxVersion
    /\ disk' = [disk EXCEPT ![f] = [there |-> TRUE, ver |-> @.ver + 1]]
    /\ stable' = stable \ {f}
    /\ UNCHANGED <<tables, gen, lastFull, control, crawlVars, client,
                   sets, faults, boots, missed>>

Remove(f) ==
    /\ disk[f].there /\ disk[f].ver < MaxVersion
    /\ disk' = [disk EXCEPT ![f] = [there |-> FALSE, ver |-> @.ver + 1]]
    /\ stable' = stable \ {f}
    /\ UNCHANGED <<tables, gen, lastFull, control, crawlVars, client,
                   sets, faults, boots, missed>>

-----------------------------------------------------------------------------
(* Starting a crawl.                                                       *)

\* Rescan is refused when the service is closed or the path outside the roots.
\* Bound: one call at a time is between this and its claim of crawlBusy.
Rescan(full, ds) ==
    /\ closing = "no"
    /\ \A d \in ds : pathInRoots(d)
    /\ tested = {} /\ gen + (IF pc \in Starting \union {"begin"} THEN 1 ELSE 0) < MaxGen
    /\ tested' = {[roots |-> ds, full |-> full]}
    /\ UNCHANGED <<disk, tables, gen, lastFull, cfg, saved, closing, cancelled,
                   paused, crawlVars, client, sets, faults, boots, stable, missed>>

\* CompareAndSwap of crawlBusy: the call starts a crawl, or one is running.
Claim(call) ==
    /\ tested' = tested \ {call}
    /\ IF pc = "off"
       THEN /\ pc' = "claimed"
            /\ crawl' = [NoCrawl EXCEPT !.roots = call.roots, !.full = call.full]
       ELSE UNCHANGED <<pc, crawl>>
    /\ UNCHANGED <<disk, tables, gen, lastFull, cfg, saved, closing, cancelled,
                   paused, rootsLeft, todo, batch, pending, results, sweepCfg,
                   client, sets, faults, boots, stable, missed>>

\* Its cancel is stored where Close looks for it; then the crawl is counted in
\* the wait group and runs.
Advance(from, to) ==
    /\ pc = from /\ pc' = to
    /\ UNCHANGED <<disk, tables, gen, lastFull, control, crawl, rootsLeft, todo,
                   batch, pending, results, sweepCfg, client, sets, faults,
                   boots, stable, missed>>

Register == Advance("claimed", "registered")
Spawn    == Advance("registered", "begin")

\* runCrawl takes its snapshot of the configuration and a new generation.
Begin ==
    /\ pc = "begin" /\ ~cancelled /\ Open
    /\ LET rs == IF crawl.full THEN cfg.roots ELSE crawl.roots IN
         /\ crawl' = [crawl EXCEPT !.cfg = cfg, !.roots = rs]
         /\ rootsLeft' = rs
    /\ gen' = gen + 1
    /\ pc' = "walk"
    /\ stable' = IF \A c \in Clients : client[c].at = "idle" THEN Files ELSE {}
    /\ UNCHANGED <<disk, tables, lastFull, control, todo, batch, pending,
                   results, sweepCfg, client, sets, faults, boots, missed>>

-----------------------------------------------------------------------------
(* walkRoot: list, stat, upsert in batches.                                *)

Listing(r) ==
    /\ pc = "walk" /\ ~cancelled
    /\ todo = {} /\ batch = Empty
    /\ rootsLeft' = rootsLeft \ {r}
    /\ UNCHANGED <<disk, tables, gen, lastFull, control, pc, crawl, batch,
                   pending, results, sweepCfg, client, sets, boots, missed>>

\* Directories are listed one after the other: the files that are there now
\* are met, others may have appeared by the time their directory is read.
NextRoot(r) ==
    /\ Listing(r)
    /\ todo' \in {S \in SUBSET Under[r] : {f \in Under[r] : disk[f].there} \subseteq S}
    /\ UNCHANGED <<faults, stable>>

\* A directory that cannot be read is skipped with all it holds.
RootFails(r) ==
    /\ Listing(r)
    /\ todo' = {}
    /\ faults < MaxFaults /\ faults' = faults + 1
    /\ stable' = stable \ Under[r]

Visiting(f) ==
    /\ pc = "walk" /\ ~cancelled /\ ~paused
    /\ Cardinality(DOMAIN batch) < BatchSize
    /\ todo' = todo \ {f}
    /\ UNCHANGED <<disk, tables, gen, lastFull, control, pc, crawl, rootsLeft,
                   pending, results, sweepCfg, client, sets, boots, missed>>

\* A file that vanished after its directory was listed is skipped.
VisitFile(f) ==
    /\ Visiting(f)
    /\ batch' = IF disk[f].there THEN Stored(One(f, disk[f].ver), batch) ELSE batch
    /\ UNCHANGED <<faults, stable>>

\* "unreadable entry: skip, keep walking"
VisitFails(f) ==
    /\ Visiting(f)
    /\ disk[f].there
    /\ faults < MaxFaults /\ faults' = faults + 1
    /\ stable' = stable \ {f}
    /\ UNCHANGED batch

\* Mutant: the processed marks survive a change of the file.
UpsertedKeepingMarks(f) ==
    IF f \in Indexed THEN [row[f] EXCEPT !.gen = gen, !.ver = batch[f]]
    ELSE [gen |-> gen, ver |-> batch[f], ci |-> FALSE, me |-> FALSE]

\* upsertSQL: stamp the generation; a changed file loses both processed marks.
Upserted(f) ==
    IF f \in Indexed /\ row[f].ver = batch[f]
    THEN [row[f] EXCEPT !.gen = gen]
    ELSE [gen |-> gen, ver |-> batch[f], ci |-> FALSE, me |-> FALSE]

\* Mutant: only full batches are written, the last one is forgotten.
FlushingFull ==
    /\ pc = "walk" /\ ~cancelled
    /\ Cardinality(DOMAIN batch) >= BatchSize
    /\ batch' = Empty
    /\ UNCHANGED <<disk, doc, met, gen, lastFull, control, pc, crawl,
                   rootsLeft, todo, pending, results, sweepCfg, client, sets,
                   boots, missed>>

Flushing ==
    /\ pc = "walk" /\ ~cancelled
    /\ batch # Empty
    /\ todo = {} \/ Cardinality(DOMAIN batch) >= BatchSize
    /\ batch' = Empty
    /\ UNCHANGED <<disk, doc, met, gen, lastFull, control, pc, crawl,
                   rootsLeft, todo, pending, results, sweepCfg, client, sets,
                   boots, missed>>

flushBatch ==
    /\ Flushing /\ Open
    /\ row' = Stored([f \in DOMAIN batch |-> Upserted(f)], row)
    /\ UNCHANGED <<faults, stable>>

\* "metadata batch failed" is logged and the crawl goes on.
flushBatchFails ==
    /\ Flushing /\ Fault
    /\ stable' = stable \ DOMAIN batch
    /\ UNCHANGED row

EndWalk ==
    /\ pc = "walk" /\ ~cancelled
    /\ rootsLeft = {} /\ todo = {} /\ batch = Empty
    /\ pc' = "sweepDocs"
    /\ UNCHANGED <<disk, tables, gen, lastFull, control, crawl, rootsLeft,
                   todo, batch, pending, results, sweepCfg, client, sets,
                   faults, boots, stable, missed>>

-----------------------------------------------------------------------------
(* After the walk: three sweep statements, the content pass, the metadata  *)
(* pass and the full-scan stamp.  After[p] is the step that follows p.     *)

After(p) ==
    CASE p = "sweepDocs"  -> "sweepMeta"
      [] p = "sweepMeta"  -> "sweepFiles"
      [] p = "sweepFiles" -> IF crawl.cfg.content THEN "cleanDocs" ELSE "cleanMeta"
      [] p = "cleanDocs"  -> "pickDocs"
      [] p \in {"pickDocs", "docs"} -> "cleanMeta"
      [] p = "cleanMeta"  -> "pickMeta"
      [] p \in {"pickMeta", "meta"} -> "stamp"
      [] p = "stamp"      -> "endRead"

InScope == Indexed \intersect prefixCond(crawl.roots)
\* Mutant: rows stamped by this very crawl count as stale.
StaleAll == {f \in InScope : row[f].gen <= gen}

Stale   == {f \in InScope : row[f].gen < gen}

Passing(p) ==
    /\ pc = p /\ ~cancelled
    /\ pc' = After(p)
    /\ UNCHANGED <<disk, gen, control, crawl, rootsLeft, todo, batch, results,
                   sweepCfg, client, sets, boots, missed>>

Statement(p) == Passing(p) /\ Open

\* The three DELETEs of sweep(), each a transaction of its own.
SweepDocs ==
    /\ Statement("sweepDocs")
    /\ doc' = Restrict(doc, DOMAIN doc \ Stale)
    /\ UNCHANGED <<row, met, lastFull, pending, faults, stable>>

SweepMeta ==
    /\ Statement("sweepMeta")
    /\ met' = Restrict(met, DOMAIN met \ Stale)
    /\ UNCHANGED <<row, doc, lastFull, pending, faults, stable>>

\* file_meta follows files by its foreign key's ON DELETE CASCADE.
SweepFiles ==
    /\ Statement("sweepFiles")
    /\ row' = Restrict(row, Indexed \ Stale)
    /\ met' = Restrict(met, DOMAIN met \ Stale)
    /\ UNCHANGED <<doc, lastFull, pending, faults, stable>>

\* Old documents of changed files go before anything is extracted.
CleanDocs ==
    /\ Statement("cleanDocs")
    /\ doc' = Restrict(doc, DOMAIN doc \ {f \in InScope : ~row[f].ci})
    /\ UNCHANGED <<row, met, lastFull, pending, faults, stable>>

CleanMeta ==
    /\ Statement("cleanMeta")
    /\ met' = Restrict(met, DOMAIN met \ {f \in InScope : ~row[f].me})
    /\ UNCHANGED <<row, doc, lastFull, pending, faults, stable>>

DocCandidates ==
    {f \in InScope \intersect TextFiles \intersect Included(crawl.cfg) : ~row[f].ci}
MetaCandidates == {f \in InScope \intersect MediaFiles : ~row[f].me}

\* A pass with candidates starts its workers, one without is over.
Picking(p, cands) ==
    /\ pc = p /\ ~cancelled /\ Open
    /\ pending' = cands
    /\ pc' = IF cands = {} THEN After(p)
             ELSE IF p = "pickDocs" THEN "docs" ELSE "meta"
    /\ UNCHANGED <<disk, tables, gen, lastFull, control, crawl, rootsLeft, todo,
                   batch, results, sweepCfg, client, sets, faults, boots,
                   stable, missed>>

PickDocs == Picking("pickDocs", DocCandidates)
PickMeta == Picking("pickMeta", MetaCandidates)

\* A worker reads one candidate and hands what it found to the writer.
Extracting(f, v) ==
    /\ pc \in {"docs", "meta"} /\ ~cancelled /\ ~paused
    /\ pending' = pending \ {f}
    /\ results' = Stored(One(f, v), results)
    /\ UNCHANGED <<disk, tables, gen, lastFull, control, pc, crawl, rootsLeft,
                   todo, batch, sweepCfg, client, sets, boots, missed>>

Extract(f) ==
    /\ Extracting(f, IF disk[f].there THEN disk[f].ver ELSE 0)
    /\ UNCHANGED <<faults, stable>>

\* Unreadable or binary after all: processed, but with nothing to store.
ExtractFails(f) ==
    /\ Extracting(f, 0)
    /\ faults < MaxFaults /\ faults' = faults + 1
    /\ stable' = stable \ {f}

\* The single writer flushes full batches, and what is left at the end.
FullBatch(B, n) ==
    /\ B # {} /\ B \subseteq DOMAIN results /\ Cardinality(B) <= n
    /\ Cardinality(B) = n \/ (pending = {} /\ B = DOMAIN results)

Flush(p, B) ==
    /\ pc = p /\ ~cancelled
    /\ results' = Restrict(results, DOMAIN results \ B)
    /\ UNCHANGED <<disk, gen, lastFull, control, pc, crawl, rootsLeft, todo,
                   batch, pending, sweepCfg, client, sets, boots, missed>>

\* The fields of B in a table after its old entries were replaced.
Replaced(table, B) ==
    LET found == {f \in B : results[f] > 0} IN
      Stored(Restrict(results, found), Restrict(table, DOMAIN table \ B))

flushContent(B) ==
    /\ FullBatch(B, ContentBatch) /\ Flush("docs", B) /\ Open
    /\ doc' = Replaced(doc, B)
    /\ row' = [f \in Indexed |-> IF f \in B THEN [row[f] EXCEPT !.ci = TRUE] ELSE row[f]]
    /\ UNCHANGED <<met, faults, stable>>

\* An INSERT for a file whose row is gone breaks the foreign key, and the
\* whole transaction is rolled back.
BreaksForeignKey(B) == \E f \in B \ Indexed : results[f] > 0

flushMeta(B) ==
    /\ FullBatch(B, MetaBatch) /\ Flush("meta", B) /\ Open
    /\ IF BreaksForeignKey(B)
       THEN UNCHANGED <<met, row>>
       ELSE /\ met' = Replaced(met, B)
            /\ row' = [f \in Indexed |-> IF f \in B THEN [row[f] EXCEPT !.me = TRUE]
                                         ELSE row[f]]
    /\ UNCHANGED <<doc, faults, stable>>

FlushFails(p, B, n) ==
    /\ FullBatch(B, n) /\ Flush(p, B) /\ Fault
    /\ stable' = stable \ B
    /\ UNCHANGED tables

EndPass ==
    /\ pc \in {"docs", "meta"} /\ ~cancelled
    /\ pending = {} /\ results = Empty
    /\ pc' = After(pc)
    /\ UNCHANGED <<disk, tables, gen, lastFull, control, crawl, rootsLeft, todo,
                   batch, pending, results, sweepCfg, client, sets, faults,
                   boots, stable, missed>>

\* Mutant: the stamp names the crawl that comes next.
StampNext ==
    /\ Statement("stamp")
    /\ lastFull' = IF crawl.full THEN gen + 1 ELSE lastFull
    /\ UNCHANGED <<tables, pending, faults, stable>>

\* Only a full crawl moves last_full_scan.
Stamp ==
    /\ Statement("stamp")
    /\ lastFull' = IF crawl.full THEN gen ELSE lastFull
    /\ UNCHANGED <<tables, pending, faults, stable>>

\* Any of these statements may fail: it is logged and the crawl goes on.
StatementFails ==
    /\ \E p \in Passes \ {"docs", "meta"} : Passing(p)
    /\ Fault
    /\ stable' = {}
    /\ UNCHANGED <<tables, lastFull, pending>>

\* No generation, or a cancelled context: straight to the deferred end of
\* runCrawl, whatever the batches still hold.
Abandon ==
    /\ pc' = "endRead"
    /\ rootsLeft' = {} /\ todo' = {} /\ batch' = Empty
    /\ pending' = {} /\ results' = Empty
    /\ stable' = {}
    /\ UNCHANGED <<disk, tables, gen, lastFull, control, crawl, sweepCfg, client,
                   sets, boots, missed>>

BeginFails ==
    /\ pc = "begin" /\ ~cancelled
    /\ Fault
    /\ Abandon

\* Mutant: a paused worker waits for Resume only.
CancelledUnlessPaused ==
    /\ pc \in Working /\ cancelled /\ ~paused
    /\ Abandon
    /\ UNCHANGED faults

Cancelled ==
    /\ pc \in Working /\ cancelled
    /\ Abandon
    /\ UNCHANGED faults

-----------------------------------------------------------------------------
(* sweepOutsideRoots: the configuration is read first, one transaction     *)
(* then deletes what it does not cover.                                    *)

\* Mutant: documents outside the include paths go, their marks stay.
SweepKeepingMarks(c) ==
    /\ doc' = Restrict(doc, DOMAIN doc \intersect prefixCond(c.roots)
                                       \intersect Included(c))
    /\ row' = Restrict(row, Indexed \intersect prefixCond(c.roots))
    /\ met' = Restrict(met, DOMAIN met \intersect prefixCond(c.roots))

sweepOutsideRoots(c) ==
    /\ doc' = Restrict(doc, DOMAIN doc \intersect prefixCond(c.roots)
                                       \intersect Included(c))
    /\ row' = [f \in Indexed \intersect prefixCond(c.roots) |->
                 IF f \in Included(c) THEN row[f] ELSE [row[f] EXCEPT !.ci = FALSE]]
    /\ met' = Restrict(met, DOMAIN met \intersect prefixCond(c.roots))

\* A sweep with the live configuration makes up for one that failed.
Commits(c) == Open /\ sweepOutsideRoots(c) /\ missed' = (missed /\ c # cfg)

\* The transaction fails.
RollsBack ==
    /\ Fault
    /\ missed' = TRUE /\ stable' = {}
    /\ UNCHANGED tables

\* The deferred end of runCrawl.
EndRead ==
    /\ pc = "endRead"
    /\ sweepCfg' = cfg
    /\ pc' = "endSweep"
    /\ UNCHANGED <<disk, tables, gen, lastFull, control, crawl, rootsLeft, todo,
                   batch, pending, results, client, sets, faults, boots,
                   stable, missed>>

\* With it the goroutine ends: crawlBusy is released, and what is left -- the
\* cancel of its own context, the wait group -- keeps only Close waiting.
EndingSweep ==
    /\ pc = "endSweep"
    /\ pc' = "off"
    /\ crawl' = NoCrawl /\ sweepCfg' = AnyConfig
    /\ cancelled' = FALSE
    /\ UNCHANGED <<disk, gen, lastFull, cfg, saved, closing, tested, paused, rootsLeft,
                   todo, batch, pending, results, client, sets, boots>>

\* Mutant: the last sweep uses the snapshot the crawl began with.
EndSweepSnapshot ==
    EndingSweep /\ Commits(crawl.cfg) /\ UNCHANGED <<faults, stable>>

EndSweep == EndingSweep /\ Commits(sweepCfg) /\ UNCHANGED <<faults, stable>>

EndSweepFails == EndingSweep /\ RollsBack

-----------------------------------------------------------------------------
(* PUT /index/config: set, sweep, save.  Callers are not serialized.       *)

Becomes(c, r) == client' = [client EXCEPT ![c] = r]

SetConfig(c, new) ==
    /\ closing = "no" /\ client[c].at = "idle"
    /\ sets < MaxSets /\ sets' = sets + 1
    /\ cfg' = new
    /\ Becomes(c, [IdleClient EXCEPT !.at = "read", !.req = new])
    /\ stable' = {}
    /\ UNCHANGED <<disk, tables, gen, lastFull, saved, closing, tested, cancelled,
                   paused, crawlVars, faults, boots, missed>>

SetRead(c) ==
    /\ client[c].at = "read"
    /\ Becomes(c, [client[c] EXCEPT !.at = "sweep", !.seen = cfg])
    /\ UNCHANGED <<disk, tables, gen, lastFull, control, crawlVars,
                   sets, faults, boots, stable, missed>>

SettingSweep(c) ==
    /\ client[c].at = "sweep"
    /\ Becomes(c, [client[c] EXCEPT !.at = "save", !.seen = AnyConfig])
    /\ UNCHANGED <<disk, gen, lastFull, control, crawlVars, sets, boots>>

SetSweep(c) ==
    /\ SettingSweep(c)
    /\ Commits(client[c].seen)
    /\ UNCHANGED <<faults, stable>>

SetSweepFails(c) == SettingSweep(c) /\ RollsBack

\* persistingIndex.SetConfig: a failed save is logged, the change stands.
SetSave(c) ==
    /\ client[c].at = "save"
    /\ \/ saved' = client[c].req /\ UNCHANGED faults
       \/ faults < MaxFaults /\ faults' = faults + 1 /\ UNCHANGED saved
    /\ Becomes(c, IdleClient)
    /\ UNCHANGED <<disk, tables, gen, lastFull, cfg, closing, tested, cancelled,
                   paused, crawlVars, sets, boots, stable, missed>>

-----------------------------------------------------------------------------
(* Pause and resume, shutdown, process death and start.                    *)

\* Neither asks whether the service is closed.
Pause ==
    /\ Pausing
    /\ paused' = ~paused
    /\ UNCHANGED <<disk, tables, gen, lastFull, cfg, saved, closing, tested,
                   cancelled, crawlVars, client, sets, faults, boots, stable, missed>>

Closing(from, to) ==
    /\ closing = from /\ closing' = to
    /\ UNCHANGED <<disk, tables, gen, lastFull, cfg, saved, tested, paused,
                   crawlVars, client, sets, faults, boots, stable, missed>>

Close == Closing("no", "begun") /\ UNCHANGED cancelled

\* Close calls the cancel it finds; that of an earlier crawl does nothing.
CloseCancels ==
    /\ Closing("begun", "waits")
    /\ cancelled' = (pc \notin {"off", "claimed"})

\* wg.Wait returns, and the store is closed.
CloseStore ==
    /\ pc \in {"off"} \union Starting
    /\ Closing("waits", "done") /\ UNCHANGED cancelled

\* The process dies, or has shut down, and the daemon starts again: New loads
\* the saved configuration and sweeps with it.
Reboot ==
    /\ boots < MaxBoots /\ boots' = boots + 1
    /\ cfg' = Restored(saved)
    /\ closing' = "no" /\ tested' = {} /\ cancelled' = FALSE /\ paused' = FALSE
    /\ pc' = "off"
    /\ crawl' = NoCrawl /\ sweepCfg' = AnyConfig
    /\ rootsLeft' = {} /\ todo' = {} /\ batch' = Empty
    /\ pending' = {} /\ results' = Empty
    /\ client' = [c \in Clients |-> IdleClient]
    /\ stable' = {}
    /\ \/ sweepOutsideRoots(cfg') /\ missed' = FALSE /\ UNCHANGED faults
       \/ /\ faults < MaxFaults /\ faults' = faults + 1
          /\ missed' = TRUE /\ UNCHANGED tables
    /\ UNCHANGED <<disk, gen, lastFull, saved, sets>>

-----------------------------------------------------------------------------
CrawlStep ==
    \/ Begin \/ BeginFails \/ Cancelled
    \/ \E r \in rootsLeft : NextRoot(r) \/ RootFails(r)
    \/ \E f \in todo : VisitFile(f) \/ VisitFails(f)
    \/ flushBatch \/ flushBatchFails \/ EndWalk
    \/ SweepDocs \/ SweepMeta \/ SweepFiles
    \/ CleanDocs \/ PickDocs \/ CleanMeta \/ PickMeta
    \/ \E f \in pending : Extract(f) \/ ExtractFails(f)
    \/ \E B \in SUBSET DOMAIN results :
         \/ flushContent(B) \/ FlushFails("docs", B, ContentBatch)
         \/ flushMeta(B) \/ FlushFails("meta", B, MetaBatch)
    \/ EndPass \/ Stamp \/ StatementFails
    \/ EndRead \/ EndSweep \/ EndSweepFails

RescanStep == (\E call \in tested : Claim(call)) \/ Register \/ Spawn

CloseStep == CloseCancels \/ CloseStore

ClientStep(c) == SetRead(c) \/ SetSweep(c) \/ SetSweepFails(c) \/ SetSave(c)

Environment ==
    \/ \E f \in Files : Write(f) \/ Remove(f)
    \/ Rescan(TRUE, {}) \/ \E d \in Dirs : Rescan(FALSE, {d})
    \/ \E c \in Clients, new \in Configs : SetConfig(c, new)
    \/ Pause \/ Close \/ Reboot

Next ==
    \/ CrawlStep \/ RescanStep \/ CloseStep
    \/ \E c \in Clients : ClientStep(c)
    \/ Environment

Spec == Init /\ [][Next]_vars

\* The goroutine of a crawl, the handler of a request and a Close that was begun
\* keep running; nobody has to rescan, resume, close or restart.
Fairness ==
    /\ WF_vars(CrawlStep) /\ WF_vars(RescanStep) /\ WF_vars(CloseStep)
    /\ \A c \in Clients : WF_vars(ClientStep(c))

FairSpec == Spec /\ Fairness

-----------------------------------------------------------------------------
(* Properties.                                                             *)

IsTable(t, T) == DOMAIN t \subseteq Files /\ t \in [DOMAIN t -> T]

TableTypes == IsTable(row, Row) /\ IsTable(doc, Nat) /\ IsTable(met, Nat)

CrawlTypes ==
    /\ pc \in Steps /\ crawl \in Crawl /\ sweepCfg \in Config
    /\ rootsLeft \subseteq Dirs /\ todo \subseteq Files /\ pending \subseteq Files
    /\ IsTable(batch, Nat) /\ IsTable(results, Nat)

ControlTypes ==
    /\ cfg \in Config /\ saved \in Config
    /\ closing \in {"no", "begun", "waits", "done"} /\ tested \subseteq Call
    /\ cancelled \in BOOLEAN /\ paused \in BOOLEAN
    /\ client \in [Clients -> Client]

\* Every variable has its type, and the full-scan stamp is that of a crawl
\* that has begun (the meta table, nextGeneration and setMeta).
TypeOK ==
    /\ disk \in [Files -> [there : BOOLEAN, ver : Nat]]
    /\ TableTypes /\ CrawlTypes /\ ControlTypes
    /\ gen \in Nat /\ lastFull \in 0..gen
    /\ sets \in Nat /\ faults \in Nat /\ boots \in Nat
    /\ stable \subseteq Files /\ missed \in BOOLEAN

\* No crawl runs and no SetConfig has its sweep before it.
Quiet == pc = "off" /\ \A c \in Clients : client[c].at \in {"idle", "save"}

Confined ==
    /\ Indexed \subseteq prefixCond(cfg.roots)
    /\ DOMAIN doc \subseteq prefixCond(cfg.roots) \intersect Included(cfg)
    /\ DOMAIN met \subseteq prefixCond(cfg.roots)
    /\ \A f \in Indexed \ Included(cfg) : ~row[f].ci

\* Once nothing runs, no row, document or metadata row is left of a file the
\* live configuration does not cover, whatever crawls with older snapshots and
\* overlapping calls of SetConfig wrote: the last of their sweeps saw the live
\* configuration.  (sweepOutsideRoots at the end of runCrawl and of SetConfig.)
ConfinedWhenQuiet == Quiet /\ ~missed => Confined

\* A sweep with the live configuration is still to come: that of the running
\* crawl, or that of a SetConfig which has yet to read the configuration or
\* has read the one that is still live.
SweepAhead ==
    \/ pc \in Working \union {"endRead"}
    \/ pc = "endSweep" /\ sweepCfg = cfg
    \/ \E c \in Clients :
         \/ client[c].at = "read"
         \/ client[c].at = "sweep" /\ client[c].seen = cfg

\* Why the index is confined whenever nothing runs: at every moment either it
\* is confined already, or a sweep with the live configuration is ahead, or
\* the last such sweep failed.  (The read of Config before each sweep.)
ConfinedOrSwept == missed \/ SweepAhead \/ Confined

\* What is marked as processed was read no earlier than the size and time the
\* row records: no row is marked whose text or metadata is older than itself.
\* (upsertSQL's resets against flushContent and flushMeta.  A search also shows
\* what is not marked: contentHits does not look at content_indexed.)
MarksAreFresh ==
    \A f \in Indexed :
        /\ row[f].ci /\ f \in DOMAIN doc => doc[f] >= row[f].ver
        /\ row[f].me /\ f \in DOMAIN met => met[f] >= row[f].ver

\* Why marks are fresh: nothing recorded, listed or extracted is newer than the
\* disk, and what a pass has extracted is not older than the row it is for,
\* because rows change their version only during a walk, when no result is
\* waiting.  (The order of walk and passes in runCrawl.)
FreshByOrder ==
    /\ \A f \in Indexed : row[f].ver <= disk[f].ver
    /\ \A f \in DOMAIN batch : batch[f] <= disk[f].ver
    /\ \A f \in Indexed \intersect DOMAIN results :
          results[f] > 0 => results[f] >= row[f].ver
    /\ pc \notin {"docs", "meta"} => DOMAIN results = {}
    /\ MarksAreFresh

\* When the newest crawl was a full one and ran to its end, the index agrees
\* with the disk on every file that nothing has disturbed since that crawl
\* began: it is in the index exactly if it exists under the roots, and its
\* text and metadata are the current ones.
FullCrawlIsExact ==
    pc = "off" /\ gen > 0 /\ lastFull = gen =>
      \A f \in stable :
        LET wanted == f \in TextFiles \intersect Included(cfg) /\ cfg.content IN
          /\ f \in Indexed <=> disk[f].there /\ f \in UnderAny(cfg.roots)
          /\ f \in Indexed =>
               /\ row[f].ver = disk[f].ver
               /\ wanted => row[f].ci
               /\ wanted /\ faults = 0 => f \in DOMAIN doc
               /\ row[f].ci /\ f \in DOMAIN doc => doc[f] = disk[f].ver
               /\ f \in MediaFiles => row[f].me
               /\ row[f].me /\ f \in DOMAIN met => met[f] = disk[f].ver

\* The sweep of a crawl deletes only rows of files that are gone ("those files
\* no longer exist"), for a full crawl and for the rescan of one subtree.
SweptFilesAreGone ==
    [][pc = "sweepFiles" /\ pc' = After(pc) =>
         \A f \in (Indexed \ DOMAIN row') \intersect stable : ~disk[f].there]_vars

\* After the metadata pass every candidate in scope is marked processed.
MetaPassIsComplete ==
    pc = "stamp" /\ ~cancelled /\ faults = 0 =>
      \A f \in InScope \intersect MediaFiles : row[f].me

\* "so settings survive a daemon restart": once the requests that set it are
\* answered, the live configuration is the one the daemon restarts with.
SettingsSurviveRestart ==
    [][boots' > boots /\ faults = 0 /\ (\A c \in Clients : client[c].at = "idle")
         => cfg' = cfg]_vars

\* A crawl ends, unless the crawler is paused and not resumed.
CrawlEnds == <>[]~paused => (pc # "off" ~> pc = "off")

\* A crawl whose cancel Close did not find: its Rescan was past the test of
\* closed when Close came, and registered after Close had looked.
MissedCancel == closing = "waits" /\ pc # "off" /\ ~cancelled

\* Close comes to its end whatever runs, paused crawls included: the gate also
\* waits for the context (waitGate).  The one crawl it can wait for in vain is
\* one it did not cancel, while the crawler is paused.
CloseReturns == closing # "no" ~> (closing \in {"no", "done"} \/ (MissedCancel /\ paused))
=============================================================================
