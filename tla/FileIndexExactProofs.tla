------------------------ MODULE FileIndexExactProofs ------------------------
(***************************************************************************)
(* Proofs that a full crawl leaves an exact index of every file nothing    *)
(* has disturbed meanwhile, and that a sweep deletes only rows of files    *)
(* that are gone, both where no two names differ only in case.             *)
(***************************************************************************)
EXTENDS FileIndexProofs

-----------------------------------------------------------------------------
(* What a full crawl has established when it ends.                         *)

\* No two names differ only in case.
NoFolding == \A d \in Dirs : Like[d] = Under[d]

\* A file is listed once the newest crawl has stamped its row, and ahead while
\* the walk has still to come to it or to write it.
Listed(f) == f \in Indexed /\ row[f].gen = gen
Ahead(f)  == \/ f \in todo \/ f \in DOMAIN batch
             \/ \E r \in rootsLeft : f \in Under[r]

\* Nothing is newer than the disk or the crawl, nor outside the crawl's roots.
NothingNewer ==
    /\ \A f \in Files : disk[f].ver > 0
    /\ \A f \in DOMAIN doc : doc[f] <= disk[f].ver
    /\ \A f \in DOMAIN met : met[f] <= disk[f].ver
    /\ \A f \in DOMAIN results : results[f] <= disk[f].ver
    /\ \A f \in Indexed : row[f].gen <= gen

\* The walk stays under its roots and is over before the passes, and the stamp
\* is the last thing a crawl writes.
CrawlOrder ==
    /\ rootsLeft \subseteq crawl.roots
    /\ todo \subseteq UnderAny(crawl.roots)
    /\ DOMAIN batch \subseteq UnderAny(crawl.roots)
    /\ pc # "walk" => rootsLeft = {} /\ todo = {} /\ DOMAIN batch = {}
    /\ pc \in {"walk"} \union Passes => lastFull < gen

\* A file is gone only in a newer version than the one recorded.
GoneIsNewer ==
    /\ \A f \in Indexed : ~disk[f].there => row[f].ver < disk[f].ver
    /\ \A f \in DOMAIN batch : ~disk[f].there => batch[f] < disk[f].ver

\* While nothing fails, only a file that has changed since its row was written
\* loses its text, is found to have none, or is passed over by the walk.
Changed(f) == row[f].ver < disk[f].ver
Sweeping   == {"walk", "sweepDocs", "sweepMeta", "sweepFiles"}

TextIsThere == \A f \in Indexed : row[f].ci => f \in DOMAIN doc \/ Changed(f)
TextIsFound == \A f \in Indexed \intersect DOMAIN results :
                   results[f] = 0 => Changed(f)
FilesAreMet ==
    pc \in Sweeping => \A f \in Indexed \intersect UnderAny(crawl.roots) :
                         Listed(f) \/ Changed(f) \/ Ahead(f)

TextKept == faults = 0 => TextIsThere /\ TextIsFound /\ FilesAreMet

\* While a file is undisturbed, so is the configuration.
Undisturbed ==
    stable # {} =>
      /\ \A c \in Clients : client[c].at = "idle"
      /\ pc \notin {"off", "claimed", "registered", "begin"} =>
           crawl.cfg = cfg /\ (crawl.full => crawl.roots = cfg.roots)
      /\ pc = "endSweep" => sweepCfg = cfg
      /\ pc \in {"endRead", "endSweep"} /\ lastFull = gen => crawl.full
      /\ pc \in {"docs", "meta"} => pending \union DOMAIN results \subseteq Indexed

\* No walk, of one directory or of all roots, passes over an undisturbed file.
Reached(f) ==
    pc \in Sweeping /\ disk[f].there /\ f \in UnderAny(crawl.roots)
      => Listed(f) \/ Ahead(f)

Wanted(f) == f \in TextFiles \intersect Included(cfg) /\ cfg.content

MetaDone == {"stamp", "endRead", "endSweep"}
DocsDone == {"cleanMeta", "pickMeta", "meta"} \union MetaDone
Swept    == {"cleanDocs", "pickDocs", "docs"} \union DocsDone

\* What a full crawl knows of an undisturbed file so far.
InWalk(f) ==
    /\ f \in DOMAIN batch => disk[f].there /\ batch[f] = disk[f].ver
    /\ Listed(f) => /\ disk[f].there /\ f \in UnderAny(cfg.roots)
                    /\ row[f].ver = disk[f].ver
    /\ disk[f].there /\ f \in UnderAny(cfg.roots) => Listed(f) \/ Ahead(f)

InPasses(f) ==
    /\ pc \in Swept /\ f \in Indexed \intersect prefixCond(cfg.roots) => Listed(f)
    /\ pc \in DocsDone /\ Listed(f) /\ Wanted(f) => row[f].ci
    /\ pc = "docs" /\ Listed(f) /\ Wanted(f) =>
         row[f].ci \/ f \in pending \union DOMAIN results
    /\ pc \in MetaDone /\ Listed(f) /\ f \in MediaFiles => row[f].me
    /\ pc = "meta" /\ Listed(f) /\ f \in MediaFiles =>
         row[f].me \/ f \in pending \union DOMAIN results

AtEnd(f) ==
    /\ f \in Indexed <=> disk[f].there /\ f \in UnderAny(cfg.roots)
    /\ f \in Indexed => /\ row[f].ver = disk[f].ver
                        /\ Wanted(f) => row[f].ci
                        /\ f \in MediaFiles => row[f].me

Known(f) ==
    /\ pc \notin {"off", "claimed", "registered", "begin"} /\ crawl.full =>
         InWalk(f) /\ InPasses(f)
    /\ pc = "off" /\ lastFull = gen => AtEnd(f)

ExactInv ==
    /\ NothingNewer /\ CrawlOrder /\ GoneIsNewer /\ TextKept /\ Undisturbed
    /\ \A f \in stable : Reached(f) /\ Known(f)

-----------------------------------------------------------------------------
(* Versions.                                                               *)

\* A step that moves the disk on, and otherwise only deletes and forgets.
Moves   == \A f \in Files : disk'[f] = disk[f] \/ disk'[f].ver > disk[f].ver
Forgets == /\ \A f \in DOMAIN batch' : f \in DOMAIN batch /\ batch'[f] = batch[f]
           /\ \A f \in DOMAIN results' : f \in DOMAIN results /\ results'[f] = results[f]
KeepsGens == /\ gen' \in {gen, gen + 1}
             /\ \A f \in DOMAIN row' : row'[f].gen = row[f].gen

LEMMA VersionsStay ==
    ASSUME TypeOK, VersionTypes, VersionTypes', FreshByOrder,
           NothingNewer, GoneIsNewer, OnlyDeletes, KeepsGens, Forgets, Moves
    PROVE  NothingNewer' /\ GoneIsNewer'
<1>1. ASSUME NEW f \in Files
      PROVE  /\ disk[f].ver \in Nat /\ disk'[f].ver \in Nat
             /\ disk'[f].ver >= disk[f].ver /\ disk'[f].ver > 0
             /\ disk'[f].there # disk[f].there => disk'[f].ver > disk[f].ver
  BY DEF VersionTypes, Moves, NothingNewer
<1>2. NothingNewer'
  <2>5. DOMAIN doc \subseteq Files /\ DOMAIN met \subseteq Files /\ gen \in Nat
    BY DEF TypeOK, TableTypes, IsTable
  <2>1. \A f \in DOMAIN doc' : doc'[f] <= disk'[f].ver
    BY <1>1, <2>5 DEF OnlyDeletes, NothingNewer, VersionTypes
  <2>2. \A f \in DOMAIN met' : met'[f] <= disk'[f].ver
    BY <1>1, <2>5 DEF OnlyDeletes, NothingNewer, VersionTypes
  <2>3. \A f \in DOMAIN results' : results'[f] <= disk'[f].ver
    BY <1>1 DEF Forgets, NothingNewer, VersionTypes
  <2>4. \A f \in DOMAIN row' : row'[f].gen <= gen'
    BY <2>5 DEF OnlyDeletes, KeepsGens, NothingNewer, VersionTypes, Row
  <2> QED BY <1>1, <2>1, <2>2, <2>3, <2>4 DEF NothingNewer, Indexed
<1>3. GoneIsNewer'
  <2>1. ASSUME NEW f \in DOMAIN row', ~disk'[f].there
        PROVE  row'[f].ver < disk'[f].ver
    <3>1. /\ f \in Indexed /\ row'[f].ver = row[f].ver /\ f \in Files
          /\ row[f].ver \in Nat /\ row[f].ver <= disk[f].ver
      BY DEF OnlyDeletes, VersionTypes, Row, FreshByOrder
    <3>2. disk[f].there => disk'[f].there # disk[f].there
      BY <2>1, <3>1 DEF VersionTypes
    <3> QED BY <1>1, <3>1, <3>2 DEF GoneIsNewer
  <2>2. ASSUME NEW f \in DOMAIN batch', ~disk'[f].there
        PROVE  batch'[f] < disk'[f].ver
    <3>1. /\ f \in DOMAIN batch /\ batch'[f] = batch[f] /\ f \in Files
          /\ batch[f] \in Nat /\ batch[f] <= disk[f].ver
      BY DEF Forgets, VersionTypes, FreshByOrder
    <3>2. disk[f].there => disk'[f].there # disk[f].there
      BY <2>2, <3>1 DEF VersionTypes
    <3> QED BY <1>1, <3>1, <3>2 DEF GoneIsNewer
  <2> QED BY <2>1, <2>2 DEF GoneIsNewer, Indexed
<1> QED BY <1>2, <1>3

\* The steps that put something into a table, a batch or the results.
Puts ==
    \/ \E f \in todo : VisitFile(f)
    \/ flushBatch
    \/ \E f \in pending : Extract(f) \/ ExtractFails(f)
    \/ \E B \in SUBSET DOMAIN results : flushContent(B) \/ flushMeta(B)

LEMMA SweepKeepsGens ==
    ASSUME VersionTypes, NEW c, sweepOutsideRoots(c)
    PROVE  \A f \in DOMAIN row' : row'[f].gen = row[f].gen
BY DEF VersionTypes, sweepOutsideRoots, Row

\* A step that leaves the tables alone, or sweeps them.
LEMMA SweepOrNot ==
    ASSUME VersionTypes, UNCHANGED tables \/ \E c \in Config : sweepOutsideRoots(c)
    PROVE  OnlyDeletes /\ \A f \in DOMAIN row' : row'[f].gen = row[f].gen
BY SweepKeepsGens, SweepOnlyDeletes, NoWriteOnlyDeletes DEF tables

LEMMA OtherStepsDelete ==
    ASSUME TypeOK, TypeOK', VersionTypes, [Next]_vars, ~Puts
    PROVE  OnlyDeletes /\ KeepsGens /\ Forgets /\ Moves
<1>1. CASE UNCHANGED vars
  BY <1>1, SweepOrNot DEF vars, tables, crawlVars, KeepsGens, Forgets, Moves
<1>2. CASE \/ Begin \/ BeginFails \/ Cancelled \/ EndWalk \/ EndPass \/ EndRead
           \/ \E r \in rootsLeft : NextRoot(r) \/ RootFails(r)
           \/ \E f \in todo : VisitFails(f)
           \/ flushBatchFails \/ PickDocs \/ PickMeta
  <2>1. /\ UNCHANGED <<tables, disk>> /\ gen' \in {gen, gen + 1}
    BY <1>2 DEF Begin, BeginFails, Cancelled, Abandon, EndWalk, EndPass, EndRead,
       NextRoot, RootFails, Listing, VisitFails, Visiting, flushBatchFails,
       Flushing, PickDocs, PickMeta, Picking, tables
  <2>2. Forgets
    BY <1>2 DEF Begin, BeginFails, Cancelled, Abandon, EndWalk, EndPass, EndRead,
       NextRoot, RootFails, Listing, VisitFails, Visiting, flushBatchFails,
       Flushing, PickDocs, PickMeta, Picking, Forgets, Empty
  <2> QED BY <2>1, <2>2, SweepOrNot DEF KeepsGens, Moves
<1>3. CASE \/ SweepDocs \/ SweepMeta \/ SweepFiles
           \/ CleanDocs \/ CleanMeta \/ Stamp \/ StatementFails
  <2> PICK p \in Passes \ {"docs", "meta"} : Passing(p)
    BY <1>3 DEF SweepDocs, SweepMeta, SweepFiles, CleanDocs, CleanMeta, Stamp,
                StatementFails, Statement, Passing, Fault, Passes
  <2>1. OnlyDeletes /\ \A f \in DOMAIN row' : row'[f] = row[f]
    BY <1>3 DEF SweepDocs, SweepMeta, SweepFiles, CleanDocs, CleanMeta, Stamp,
                StatementFails, Statement, Passing, Fault, OnlyDeletes, Restrict, Indexed, tables
  <2> QED BY <2>1 DEF Statement, Passing, KeepsGens, Forgets, Moves
<1>4. CASE \E B \in SUBSET DOMAIN results :
             \/ FlushFails("docs", B, ContentBatch) \/ FlushFails("meta", B, MetaBatch)
  <2>1. UNCHANGED <<tables, disk, gen, batch>> /\ Forgets
    BY <1>4 DEF FlushFails, Flush, Restrict, Forgets, tables
  <2> QED BY <2>1, SweepOrNot DEF KeepsGens, Moves
<1>5. CASE EndSweep \/ EndSweepFails \/ \E c \in Clients : ClientStep(c)
  <2>1. UNCHANGED <<disk, gen, batch, results>>
    BY <1>5 DEF EndSweep, EndSweepFails, EndingSweep, ClientStep, SetRead, SetSweep,
       SetSweepFails, SettingSweep, SetSave, crawlVars
  <2>2. UNCHANGED tables \/ \E c \in Config : sweepOutsideRoots(c)
    BY <1>5 DEF EndSweep, EndSweepFails, ClientStep, SetRead, SetSweep, SetSweepFails,
       SetSave, Commits, RollsBack, TypeOK, CrawlTypes, ControlTypes, Client
  <2> QED BY <2>1, <2>2, SweepOrNot DEF KeepsGens, Forgets, Moves
<1>6. CASE \E f \in Files : Write(f) \/ Remove(f)
  <2> PICK f \in Files, b \in BOOLEAN :
        /\ disk' = [disk EXCEPT ![f] = [there |-> b, ver |-> disk[f].ver + 1]]
        /\ UNCHANGED <<tables, gen, batch, results>>
    BY <1>6 DEF Write, Remove, crawlVars
  <2>1. Moves
    BY DEF VersionTypes, Moves
  <2> QED BY <2>1, SweepOrNot DEF KeepsGens, Forgets
<1>7. CASE StartsOrCloses \/ \E c \in Clients, new \in Configs : SetConfig(c, new)
  <2>1. UNCHANGED <<tables, disk, gen, batch, results>>
    BY <1>7 DEF StartsOrCloses, SetConfig, crawlVars
  <2> QED BY <2>1, SweepOrNot DEF KeepsGens, Forgets, Moves
<1>8. CASE Reboot
  <2>1. UNCHANGED <<disk, gen>> /\ Forgets /\ cfg' \in Config
    BY <1>8 DEF Reboot, Forgets, Empty, TypeOK, ControlTypes
  <2>2. UNCHANGED tables \/ \E c \in Config : sweepOutsideRoots(c)
    BY <1>8, <2>1 DEF Reboot
  <2> QED BY <2>1, <2>2, SweepOrNot DEF KeepsGens, Moves
<1> QED BY <1>1, <1>2, <1>3, <1>4, <1>5, <1>6, <1>7, <1>8, StartingOrClosing
        DEF Next, CrawlStep, Environment, Puts

\* The steps that put something down put what the disk holds, or less.
LEMMA VersionsPut ==
    ASSUME TypeOK, VersionTypes, VersionTypes', FreshByOrder, FreshByOrder',
           NothingNewer, GoneIsNewer, Puts
    PROVE  NothingNewer' /\ GoneIsNewer'
<1>1. /\ \A f \in Files : disk[f].ver \in Nat /\ disk[f].ver > 0
      /\ DOMAIN doc \subseteq Files /\ DOMAIN met \subseteq Files /\ gen \in Nat
  BY DEF TypeOK, TableTypes, IsTable, VersionTypes, NothingNewer
<1>2. ASSUME NEW f \in todo, VisitFile(f) PROVE NothingNewer' /\ GoneIsNewer'
  <2>1. /\ UNCHANGED <<row, doc, met, disk, gen, results>> /\ f \in Files
        /\ \/ batch' = batch
           \/ disk[f].there /\ batch' = Stored(One(f, disk[f].ver), batch)
    BY <1>2 DEF VisitFile, Visiting, tables, VersionTypes
  <2>2. ASSUME NEW g \in DOMAIN batch'
        PROVE  \/ g \in DOMAIN batch /\ batch'[g] = batch[g]
               \/ g = f /\ disk[f].there
    <3>1. CASE batch' = batch
      BY <2>2, <3>1
    <3>2. CASE disk[f].there /\ batch' = Stored(One(f, disk[f].ver), batch)
      BY <2>2, <3>2 DEF Stored, One
    <3> QED BY <2>1, <3>1, <3>2
  <2> QED BY <2>1, <2>2 DEF NothingNewer, GoneIsNewer, Indexed
<1>3. CASE flushBatch
  <2>1. /\ UNCHANGED <<doc, met, disk, gen, results>> /\ DOMAIN batch' = {}
        /\ row' = Stored([f \in DOMAIN batch |-> Upserted(f)], row)
    BY <1>3 DEF flushBatch, Flushing, Empty
  <2>2. \A f \in DOMAIN row' : \/ f \in DOMAIN batch /\ row'[f] = Upserted(f)
                               \/ f \in Indexed /\ row'[f] = row[f]
    BY <2>1 DEF Stored, Indexed
  <2>3. \A f \in DOMAIN batch : Upserted(f).gen = gen /\ Upserted(f).ver = batch[f]
    BY DEF Upserted, VersionTypes, Row
  <2>4. \A f \in DOMAIN row' : row'[f].gen <= gen
    BY <1>1, <2>2, <2>3 DEF NothingNewer
  <2>5. \A f \in DOMAIN row' : ~disk[f].there => row'[f].ver < disk[f].ver
    BY <2>2, <2>3 DEF GoneIsNewer
  <2> QED BY <2>1, <2>4, <2>5 DEF NothingNewer, GoneIsNewer, Indexed
<1>4. ASSUME NEW f \in pending, Extract(f) \/ ExtractFails(f)
      PROVE  NothingNewer' /\ GoneIsNewer'
  <2>1. f \in Files
    BY DEF VersionTypes
  <2>2. PICK v \in {0, disk[f].ver} : Extracting(f, v)
    BY <1>4 DEF Extract, ExtractFails
  <2>3. /\ UNCHANGED <<row, doc, met, disk, gen, batch>>
        /\ results' = Stored(One(f, v), results)
    BY <2>2 DEF Extracting, tables
  <2>4. \A g \in DOMAIN results' : \/ g \in DOMAIN results /\ results'[g] = results[g]
                                   \/ g = f /\ results'[g] = v
    BY <2>3 DEF Stored, One
  <2>5. \A g \in DOMAIN results' : results'[g] <= disk[g].ver
    BY <1>1, <2>1, <2>4 DEF NothingNewer
  <2> QED BY <2>3, <2>5 DEF NothingNewer, GoneIsNewer, Indexed
<1>5. ASSUME NEW B \in SUBSET DOMAIN results, flushContent(B) \/ flushMeta(B)
      PROVE  NothingNewer' /\ GoneIsNewer'
  <2>1. /\ UNCHANGED <<disk, gen, batch>>
        /\ \A f \in DOMAIN results' : f \in DOMAIN results /\ results'[f] = results[f]
    BY <1>5 DEF flushContent, flushMeta, Flush, Restrict
  <2>2. \A f \in DOMAIN row' : f \in Indexed /\ row'[f].gen = row[f].gen
                               /\ row'[f].ver = row[f].ver
    BY <1>5 DEF flushContent, flushMeta, VersionTypes, Row, Indexed
  <2>3. ASSUME NEW t, \A f \in DOMAIN t : t[f] <= disk[f].ver
        PROVE  \A f \in DOMAIN Replaced(t, B) : Replaced(t, B)[f] <= disk[f].ver
    <3> DEFINE found == {g \in B : results[g] > 0}
    <3>1. Replaced(t, B) = Stored(Restrict(results, found), Restrict(t, DOMAIN t \ B))
      BY DEF Replaced
    <3>2. \A f \in DOMAIN Replaced(t, B) :
             \/ f \in DOMAIN results /\ Replaced(t, B)[f] = results[f]
             \/ f \in DOMAIN t /\ Replaced(t, B)[f] = t[f]
      BY <3>1 DEF Stored, Restrict
    <3> QED BY <2>3, <3>2 DEF NothingNewer
  <2>4. /\ doc' = doc \/ doc' = Replaced(doc, B)
        /\ met' = met \/ met' = Replaced(met, B)
    BY <1>5 DEF flushContent, flushMeta
  <2>5. \A f \in DOMAIN doc' : doc'[f] <= disk[f].ver
    BY <2>3, <2>4 DEF NothingNewer
  <2>6. \A f \in DOMAIN met' : met'[f] <= disk[f].ver
    BY <2>3, <2>4 DEF NothingNewer
  <2> QED BY <2>1, <2>2, <2>5, <2>6 DEF NothingNewer, GoneIsNewer, Indexed
<1> QED BY <1>2, <1>3, <1>4, <1>5 DEF Puts

LEMMA VersionsStep ==
    ASSUME TypeOK, TypeOK', FreshByOrder, FreshByOrder',
           NothingNewer, GoneIsNewer, [Next]_vars
    PROVE  NothingNewer' /\ GoneIsNewer'
<1>1. VersionTypes /\ VersionTypes'
  BY VersionsTyped DEF TypeOK, TableTypes, CrawlTypes, IsTable, VersionTypes, Indexed
<1> QED BY <1>1, VersionsStay, VersionsPut, OtherStepsDelete

-----------------------------------------------------------------------------
(* The order of a crawl.                                                   *)

LEMMA AfterIsLater ==
    ASSUME NEW p \in Passes
    PROVE  /\ After(p) \in Passes \union {"endRead"}
           /\ After(p) = "endRead" <=> p = "stamp"
BY DEF After, Passes

LEMMA OrderStep ==
    ASSUME TypeOK, CrawlOrder, [Next]_vars
    PROVE  CrawlOrder'
<1>1. gen \in Nat /\ lastFull \in Nat /\ lastFull <= gen
  BY DEF TypeOK
<1>2. CASE /\ rootsLeft' \subseteq rootsLeft /\ todo' \subseteq todo
           /\ DOMAIN batch' \subseteq DOMAIN batch
           /\ UNCHANGED <<pc, crawl, gen, lastFull>>
  BY <1>2 DEF CrawlOrder
<1>3. CASE /\ pc' \notin {"walk"} \union Passes
           /\ rootsLeft' = {} /\ todo' = {} /\ batch' = Empty
  BY <1>3 DEF CrawlOrder, Empty
<1>4. CASE /\ pc \in Passes /\ pc' \in Passes \union {"endRead"}
           /\ UNCHANGED <<rootsLeft, todo, batch, crawl, gen>>
           /\ pc' \in Passes => UNCHANGED lastFull
  BY <1>4 DEF CrawlOrder, Passes
<1>5. CASE Begin
  BY <1>1, <1>5 DEF Begin, CrawlOrder, Passes
<1>6. CASE BeginFails \/ Cancelled \/ Reboot
  BY <1>3, <1>6 DEF BeginFails, Cancelled, Abandon, Reboot, Passes
<1>7. ASSUME NEW r \in rootsLeft, NextRoot(r) \/ RootFails(r)
      PROVE  CrawlOrder'
  <2>1. /\ todo' \subseteq Under[r] /\ rootsLeft' \subseteq rootsLeft
        /\ UNCHANGED <<pc, crawl, batch, gen, lastFull>> /\ pc = "walk"
    BY <1>7 DEF NextRoot, RootFails, Listing
  <2>2. todo' \subseteq UnderAny(crawl.roots)
    BY <2>1 DEF CrawlOrder, UnderAny
  <2> QED BY <2>1, <2>2 DEF CrawlOrder
<1>8. ASSUME NEW f \in todo, VisitFile(f) \/ VisitFails(f)
      PROVE  CrawlOrder'
  <2>1. /\ UNCHANGED <<pc, crawl, rootsLeft, gen, lastFull>> /\ pc = "walk"
        /\ todo' \subseteq todo /\ DOMAIN batch' \subseteq DOMAIN batch \union {f}
    BY <1>8 DEF VisitFile, VisitFails, Visiting, Stored, One
  <2> QED BY <2>1 DEF CrawlOrder
<1>9. CASE flushBatch \/ flushBatchFails
  BY <1>2, <1>9 DEF flushBatch, flushBatchFails, Flushing, Empty
<1>10. CASE EndWalk
  BY <1>10 DEF EndWalk, CrawlOrder, Empty, Passes
<1>11. CASE \/ SweepDocs \/ SweepMeta \/ SweepFiles
            \/ CleanDocs \/ CleanMeta \/ Stamp \/ StatementFails
  <2> PICK p \in Passes : Passing(p) /\ (p # "stamp" => UNCHANGED lastFull)
    BY <1>11 DEF SweepDocs, SweepMeta, SweepFiles, CleanDocs, CleanMeta, Stamp,
                 StatementFails, Statement, Passing, Fault, Passes
  <2>1. /\ pc = p /\ pc' = After(p)
        /\ UNCHANGED <<rootsLeft, todo, batch, crawl, gen>>
    BY DEF Statement, Passing
  <2> QED BY <1>4, <2>1, AfterIsLater DEF Passes
<1>12. CASE PickDocs \/ PickMeta \/ EndPass
  <2>1. UNCHANGED <<rootsLeft, todo, batch, crawl, gen, lastFull>> /\ pc \in Passes
    BY <1>12 DEF PickDocs, PickMeta, Picking, EndPass, Passes
  <2>2. pc' \in {After(pc), "docs", "meta"}
    BY <1>12 DEF PickDocs, PickMeta, Picking, EndPass
  <2> QED BY <1>4, <2>1, <2>2, AfterIsLater DEF Passes
<1>13. CASE \/ \E f \in pending : Extract(f) \/ ExtractFails(f)
            \/ \E B \in SUBSET DOMAIN results :
                 \/ flushContent(B) \/ FlushFails("docs", B, ContentBatch)
                 \/ flushMeta(B) \/ FlushFails("meta", B, MetaBatch)
  BY <1>2, <1>13 DEF Extract, ExtractFails, Extracting, flushContent, flushMeta,
                     FlushFails, Flush
<1>14. CASE EndRead
  BY <1>14 DEF EndRead, CrawlOrder, Passes
<1>15. CASE EndSweep \/ EndSweepFails
  BY <1>15 DEF EndSweep, EndSweepFails, EndingSweep, CrawlOrder, Passes
<1>16. CASE \E c \in Clients : ClientStep(c)
  BY <1>2, <1>16 DEF ClientStep, SetRead, SetSweep, SetSweepFails, SettingSweep,
                     SetSave, crawlVars
<1>17. CASE \/ \E f \in Files : Write(f) \/ Remove(f)
            \/ \E c \in Clients, new \in Configs : SetConfig(c, new)
            \/ UNCHANGED vars
  BY <1>2, <1>17 DEF Write, Remove, SetConfig, vars, crawlVars
<1>18. CASE StartsOrCloses
  BY <1>2, <1>18 DEF StartsOrCloses, Starting, CrawlOrder, Passes
<1> QED BY StartingOrClosing, <1>5, <1>6, <1>7, <1>8, <1>9, <1>10, <1>11, <1>12, <1>13, <1>14, <1>15,
           <1>16, <1>17, <1>18 DEF Next, CrawlStep, Environment

-----------------------------------------------------------------------------
(* Text.                                                                   *)

LEMMA FaultsCount ==
    ASSUME TypeOK, [Next]_vars
    PROVE  faults' = 0 => faults = 0
<1>1. faults \in Nat
  BY DEF TypeOK
<1>2. CASE CrawlStep
  BY <1>1, <1>2 DEF CrawlStep, Begin, BeginFails, Cancelled, Abandon, NextRoot,
     RootFails, Listing, VisitFile, VisitFails, flushBatch, flushBatchFails,
     EndWalk, SweepDocs, SweepMeta, SweepFiles, CleanDocs, PickDocs, CleanMeta,
     PickMeta, Picking, Extract, ExtractFails, flushContent, flushMeta,
     FlushFails, EndPass, Stamp, StatementFails, Statement, Passing, Fault,
     EndRead, EndSweep,
     EndSweepFails, RollsBack
<1>3. CASE \E c \in Clients : ClientStep(c)
  BY <1>1, <1>3 DEF ClientStep, SetRead, SetSweep, SetSweepFails, SetSave, RollsBack,
     Fault
<1>4. CASE Environment
  <2>1. faults' \in {faults, faults + 1}
    BY <1>4, StartingOrClosing
       DEF Environment, StartsOrCloses, Write, Remove, SetConfig, Reboot
  <2> QED BY <1>1, <2>1
<1>5. CASE RescanStep \/ CloseStep
  BY <1>5, StartingOrClosing DEF StartsOrCloses
<1> QED BY <1>2, <1>3, <1>4, <1>5 DEF Next, vars

\* The file has changed still, if its row was not written.
LEMMA ChangedStays ==
    ASSUME VersionTypes, VersionTypes', OnlyDeletes, Moves,
           NEW f \in DOMAIN row', Changed(f)
    PROVE  Changed(f)'
<1>1. /\ f \in Indexed /\ f \in Files
      /\ row'[f].ver = row[f].ver /\ row[f].ver \in Nat
  BY DEF OnlyDeletes, VersionTypes, Row
<1>2. disk[f].ver \in Nat /\ disk'[f].ver \in Nat /\ disk'[f].ver >= disk[f].ver
  BY <1>1 DEF VersionTypes, Moves
<1> QED BY <1>1, <1>2 DEF Changed

\* A step that writes no text and deletes only what is marked no longer, or
\* has changed.
KeepsText == \A f \in DOMAIN row' \intersect DOMAIN doc :
               row'[f].ci => f \in DOMAIN doc' \/ Changed(f)

LEMMA TextStays ==
    ASSUME VersionTypes, VersionTypes', OnlyDeletes, Moves, Forgets, KeepsText,
           TextIsThere, TextIsFound
    PROVE  TextIsThere' /\ TextIsFound'
<1>1. ASSUME NEW f \in DOMAIN row', row'[f].ci
      PROVE  f \in DOMAIN doc' \/ Changed(f)'
  <2>1. f \in Indexed /\ row[f].ci
    BY <1>1 DEF OnlyDeletes
  <2>2. f \in DOMAIN doc' \/ Changed(f)
    BY <1>1, <2>1 DEF TextIsThere, KeepsText
  <2> QED BY <2>2, ChangedStays
<1>2. ASSUME NEW f \in DOMAIN row', f \in DOMAIN results', results'[f] = 0
      PROVE  Changed(f)'
  <2>1. Changed(f)
    BY <1>2 DEF OnlyDeletes, Forgets, TextIsFound
  <2> QED BY <2>1, ChangedStays
<1> QED BY <1>1, <1>2 DEF TextIsThere, TextIsFound, Indexed

\* The sweep of what the configuration leaves out takes the mark with the text.
LEMMA SweepKeepsText ==
    ASSUME VersionTypes, NEW c, sweepOutsideRoots(c)
    PROVE  KeepsText
BY DEF VersionTypes, sweepOutsideRoots, KeepsText, Restrict, Row

LEMMA SameTablesKeepText == UNCHANGED tables => KeepsText
BY DEF KeepsText, tables

\* The walk passes over nothing while its plan stays the same.
KeepsPlan == pc' \in Sweeping =>
    pc \in Sweeping /\ UNCHANGED <<crawl, gen, rootsLeft, todo, batch>>

LEMMA MetStays ==
    ASSUME VersionTypes, VersionTypes', OnlyDeletes, KeepsGens, Moves, KeepsPlan,
           FilesAreMet
    PROVE  FilesAreMet'
<1> SUFFICES ASSUME pc' \in Sweeping,
                    NEW f \in DOMAIN row', f \in UnderAny(crawl.roots)'
             PROVE  Listed(f)' \/ Changed(f)' \/ Ahead(f)'
  BY DEF FilesAreMet, Indexed
<1>1. /\ pc \in Sweeping /\ f \in Indexed \intersect UnderAny(crawl.roots)
      /\ UNCHANGED <<crawl, gen, rootsLeft, todo, batch>>
  BY DEF KeepsPlan, OnlyDeletes, UnderAny
<1>2. CASE Listed(f)
  BY <1>1, <1>2 DEF Listed, KeepsGens, Indexed
<1>3. CASE Changed(f)
  BY <1>3, ChangedStays
<1>4. CASE Ahead(f)
  BY <1>1, <1>4 DEF Ahead
<1> QED BY <1>1, <1>2, <1>3, <1>4 DEF FilesAreMet

LEMMA PrefixesAreExact ==
    ASSUME NoFolding, NEW ds, ds \subseteq Dirs
    PROVE  prefixCond(ds) = UnderAny(ds)
BY DEF NoFolding, prefixCond, UnderAny

LEMMA CrawlTyped ==
    ASSUME TypeOK
    PROVE  /\ crawl.roots \subseteq Dirs /\ crawl.full \in BOOLEAN
           /\ cfg.roots \subseteq Dirs /\ cfg.content \in BOOLEAN
BY DEF TypeOK, CrawlTypes, ControlTypes, Crawl, Config

\* What a crawl takes for stale when nothing has failed has changed.
LEMMA StaleHasChanged ==
    ASSUME TypeOK, VersionTypes, NoFolding, CrawlOrder, FilesAreMet,
           pc \in {"sweepDocs", "sweepMeta", "sweepFiles"}, NEW f \in Stale
    PROVE  Changed(f)
<1>1. f \in Indexed \intersect UnderAny(crawl.roots) /\ row[f].gen < gen
  BY CrawlTyped, PrefixesAreExact DEF Stale, InScope
<1>2. row[f].gen \in Nat /\ gen \in Nat
  BY <1>1 DEF VersionTypes, Row, TypeOK
<1>3. ~Listed(f) /\ ~Ahead(f)
  BY <1>1, <1>2 DEF Listed, Ahead, CrawlOrder
<1> QED BY <1>1, <1>3 DEF FilesAreMet, Sweeping

LEMMA OthersKeepText ==
    ASSUME TypeOK, TypeOK', VersionTypes, NoFolding, CrawlOrder, FilesAreMet,
           [Next]_vars, ~Puts
    PROVE  KeepsText
<1>1. CASE SweepDocs
  <2>1. ASSUME NEW f \in DOMAIN row' \intersect DOMAIN doc
        PROVE  f \in DOMAIN doc' \/ Changed(f)
    BY <1>1, StaleHasChanged DEF SweepDocs, Statement, Passing, Restrict
  <2> QED BY <2>1 DEF KeepsText
<1>2. CASE CleanDocs
  BY <1>2 DEF CleanDocs, Restrict, KeepsText
<1>3. CASE SweepMeta \/ SweepFiles \/ CleanMeta
  BY <1>3 DEF SweepMeta, SweepFiles, CleanMeta, KeepsText
<1>4. CASE \/ Begin \/ BeginFails \/ Cancelled \/ EndWalk \/ EndPass \/ EndRead
           \/ \E r \in rootsLeft : NextRoot(r) \/ RootFails(r)
           \/ \E f \in todo : VisitFails(f)
           \/ flushBatchFails \/ PickDocs \/ PickMeta \/ Stamp \/ StatementFails
           \/ \E B \in SUBSET DOMAIN results :
                FlushFails("docs", B, ContentBatch) \/ FlushFails("meta", B, MetaBatch)
  BY <1>4, SameTablesKeepText DEF Begin, BeginFails, Cancelled, Abandon, EndWalk,
     EndPass, EndRead, NextRoot, RootFails, Listing, VisitFails, Visiting,
     flushBatchFails, Flushing, PickDocs, PickMeta, Picking, Stamp,
     StatementFails, Statement, Passing, Fault, FlushFails, tables
<1>5. CASE EndSweep \/ EndSweepFails \/ \E c \in Clients : ClientStep(c)
  <2>1. UNCHANGED tables \/ \E c \in Config : sweepOutsideRoots(c)
    BY <1>5 DEF EndSweep, EndSweepFails, ClientStep, SetRead, SetSweep, SetSweepFails,
       SetSave, Commits, RollsBack, TypeOK, CrawlTypes, ControlTypes, Client
  <2> QED BY <2>1, SameTablesKeepText, SweepKeepsText
<1>6. CASE Reboot
  <2>1. cfg' \in Config
    BY DEF TypeOK, ControlTypes
  <2>2. UNCHANGED tables \/ \E c \in Config : sweepOutsideRoots(c)
    BY <1>6, <2>1 DEF Reboot
  <2> QED BY <2>2, SameTablesKeepText, SweepKeepsText
<1>7. CASE \/ \E f \in Files : Write(f) \/ Remove(f)
           \/ \E c \in Clients, new \in Configs : SetConfig(c, new)
           \/ StartsOrCloses \/ UNCHANGED vars
  BY <1>7, SameTablesKeepText DEF Write, Remove, StartsOrCloses, SetConfig, vars
<1> QED BY StartingOrClosing, <1>1, <1>2, <1>3, <1>4, <1>5, <1>6, <1>7
        DEF Next, CrawlStep, Environment, Puts

\* Only Begin and NextRoot change what a crawl without failures has before it.
LEMMA OthersKeepPlan ==
    ASSUME TypeOK, [Next]_vars, ~Puts, faults' = 0, ~Begin,
           \A r \in rootsLeft : ~NextRoot(r)
    PROVE  KeepsPlan
<1>1. CASE \/ BeginFails \/ Cancelled \/ EndWalk \/ EndPass \/ EndRead
           \/ PickDocs \/ PickMeta \/ EndSweep \/ EndSweepFails \/ Reboot
  BY <1>1 DEF BeginFails, Cancelled, Abandon, EndWalk, EndPass, EndRead, After,
     PickDocs, PickMeta, Picking, EndSweep, EndSweepFails, EndingSweep, Reboot,
     KeepsPlan, Sweeping
<1>2. CASE \/ \E r \in rootsLeft : RootFails(r)
           \/ \E f \in todo : VisitFails(f)
           \/ flushBatchFails \/ StatementFails
  <2>1. faults' = faults + 1 /\ faults \in Nat
    BY <1>2 DEF RootFails, VisitFails, flushBatchFails, StatementFails, Fault, TypeOK
  <2> QED BY <2>1
<1>3. CASE \/ SweepDocs \/ SweepMeta \/ SweepFiles \/ CleanDocs \/ CleanMeta \/ Stamp
  <2> PICK p \in Passes \ {"docs", "meta", "pickDocs", "pickMeta"} : Passing(p)
    BY <1>3 DEF SweepDocs, SweepMeta, SweepFiles, CleanDocs, CleanMeta, Stamp,
                Statement, Passes
  <2>1. pc' \in Sweeping => pc \in Sweeping
    BY DEF Passing, After, Passes, Sweeping
  <2> QED BY <2>1 DEF Passing, KeepsPlan
<1>4. CASE \/ \E B \in SUBSET DOMAIN results :
                FlushFails("docs", B, ContentBatch) \/ FlushFails("meta", B, MetaBatch)
           \/ \E c \in Clients : ClientStep(c)
           \/ \E f \in Files : Write(f) \/ Remove(f)
           \/ \E c \in Clients, new \in Configs : SetConfig(c, new)
           \/ UNCHANGED vars
  <2>1. UNCHANGED <<pc, crawl, gen, rootsLeft, todo, batch>>
    BY <1>4 DEF FlushFails, Flush, ClientStep, SetRead, SetSweep, SetSweepFails,
       SettingSweep, SetSave, Write, Remove, SetConfig, vars, crawlVars
  <2> QED BY <2>1 DEF KeepsPlan
<1>5. CASE StartsOrCloses
  BY <1>5 DEF StartsOrCloses, Starting, KeepsPlan, Sweeping
<1> QED BY <1>1, <1>2, <1>3, <1>4, <1>5, StartingOrClosing DEF Next, CrawlStep, Environment, Puts

LEMMA BeginMeets ==
    ASSUME Begin
    PROVE  FilesAreMet'
<1>1. rootsLeft' = crawl'.roots
  BY DEF Begin
<1> QED BY <1>1 DEF FilesAreMet, UnderAny, Ahead

LEMMA NextRootMeets ==
    ASSUME VersionTypes, GoneIsNewer, FilesAreMet, NEW r \in rootsLeft, NextRoot(r)
    PROVE  FilesAreMet'
<1>1. /\ pc = "walk" /\ todo = {} /\ DOMAIN batch = {}
      /\ UNCHANGED <<row, disk, gen, crawl, batch>>
      /\ rootsLeft' = rootsLeft \ {r}
      /\ {f \in Under[r] : disk[f].there} \subseteq todo'
  BY DEF NextRoot, Listing, tables, Empty
<1>2. ASSUME NEW f \in Indexed \intersect UnderAny(crawl.roots)
      PROVE  Listed(f)' \/ Changed(f)' \/ Ahead(f)'
  <2>1. CASE Listed(f) \/ Changed(f)
    BY <1>1, <2>1 DEF Listed, Changed, Indexed
  <2>2. CASE f \in Under[r] /\ disk[f].there
    BY <1>1, <2>2 DEF Ahead
  <2>3. CASE f \in Under[r] /\ ~disk[f].there
    BY <1>1, <2>3 DEF GoneIsNewer, Changed
  <2>4. CASE f \notin Under[r] /\ Ahead(f)
    BY <1>1, <2>4 DEF Ahead
  <2> QED BY <1>1, <2>1, <2>2, <2>3, <2>4 DEF FilesAreMet, Sweeping
<1> QED BY <1>1, <1>2 DEF FilesAreMet, UnderAny, Indexed

LEMMA VisitKeepsText ==
    ASSUME VersionTypes, GoneIsNewer, NEW f \in todo, VisitFile(f),
           TextIsThere, TextIsFound, FilesAreMet
    PROVE  TextIsThere' /\ TextIsFound' /\ FilesAreMet'
<1>1. /\ pc = "walk" /\ UNCHANGED <<row, doc, disk, gen, crawl, results, pc, rootsLeft>>
      /\ todo' = todo \ {f} /\ DOMAIN batch \subseteq DOMAIN batch'
      /\ disk[f].there => f \in DOMAIN batch'
  BY DEF VisitFile, Visiting, tables, Stored, One
<1>2. ASSUME NEW g \in Indexed \intersect UnderAny(crawl.roots)
      PROVE  Listed(g)' \/ Changed(g)' \/ Ahead(g)'
  <2>1. CASE Listed(g) \/ Changed(g)
    BY <1>1, <2>1 DEF Listed, Changed, Indexed
  <2>2. CASE g = f
    BY <1>1, <2>2 DEF Ahead, GoneIsNewer, Changed
  <2>3. CASE g # f /\ Ahead(g)
    BY <1>1, <2>3 DEF Ahead
  <2> QED BY <1>1, <2>1, <2>2, <2>3 DEF FilesAreMet, Sweeping
<1> QED BY <1>1, <1>2
        DEF TextIsThere, TextIsFound, FilesAreMet, Changed, Indexed, UnderAny

LEMMA flushBatchKeepsText ==
    ASSUME VersionTypes, FreshByOrder, flushBatch, TextIsThere, FilesAreMet
    PROVE  TextIsThere' /\ TextIsFound' /\ FilesAreMet'
<1>1. /\ pc = "walk" /\ UNCHANGED <<doc, disk, gen, crawl, results, pc, rootsLeft, todo>>
      /\ DOMAIN results = {}
      /\ row' = Stored([f \in DOMAIN batch |-> Upserted(f)], row)
  BY DEF flushBatch, Flushing, FreshByOrder
<1>2. \A f \in DOMAIN batch : f \in DOMAIN row' /\ row'[f] = Upserted(f)
  BY <1>1 DEF Stored
<1>3. \A f \in DOMAIN row' \ DOMAIN batch : f \in Indexed /\ row'[f] = row[f]
  BY <1>1 DEF Stored, Indexed
<1>4. ASSUME NEW f \in DOMAIN batch
      PROVE  /\ Upserted(f).gen = gen
             /\ Upserted(f).ci => /\ f \in Indexed /\ row[f].ci
                                  /\ Upserted(f).ver = row[f].ver
  BY DEF Upserted, VersionTypes, Row
<1>5. TextIsThere'
  BY <1>1, <1>2, <1>3, <1>4 DEF TextIsThere, Changed, Indexed
<1>6. ASSUME NEW f \in DOMAIN row', f \in UnderAny(crawl.roots)
      PROVE  Listed(f)' \/ Changed(f)' \/ Ahead(f)'
  <2>1. CASE f \in DOMAIN batch
    BY <1>1, <1>2, <1>4, <2>1 DEF Listed, Indexed
  <2>2. CASE f \notin DOMAIN batch
    <3>1. f \in Indexed /\ row'[f] = row[f]
      BY <1>3, <2>2
    <3>2. Listed(f) \/ Changed(f) \/ f \in todo \/ \E r \in rootsLeft : f \in Under[r]
      BY <1>1, <1>6, <2>2, <3>1 DEF FilesAreMet, Ahead, Sweeping
    <3> QED BY <1>1, <3>1, <3>2 DEF Listed, Changed, Ahead, Indexed
  <2> QED BY <2>1, <2>2
<1> QED BY <1>1, <1>5, <1>6 DEF TextIsFound, FilesAreMet, Indexed, UnderAny

LEMMA ExtractKeepsText ==
    ASSUME VersionTypes, NothingNewer, GoneIsNewer, NEW f \in pending, Extract(f),
           TextIsThere, TextIsFound
    PROVE  TextIsThere' /\ TextIsFound' /\ FilesAreMet'
<1>1. /\ UNCHANGED <<row, doc, disk>> /\ pc' \notin Sweeping
      /\ results' = Stored(One(f, IF disk[f].there THEN disk[f].ver ELSE 0), results)
  BY DEF Extract, Extracting, tables, Sweeping
<1>2. ASSUME NEW g \in Indexed \intersect DOMAIN results', results'[g] = 0
      PROVE  Changed(g)
  <2>1. CASE g = f
    <3>1. disk[f].ver > 0
      BY DEF VersionTypes, NothingNewer
    <3>2. ~disk[f].there
      BY <1>1, <1>2, <2>1, <3>1 DEF Stored, One
    <3> QED BY <2>1, <3>2 DEF GoneIsNewer, Changed
  <2>2. CASE g # f
    BY <1>1, <1>2, <2>2 DEF Stored, One, TextIsFound
  <2> QED BY <2>1, <2>2
<1> QED BY <1>1, <1>2 DEF TextIsThere, TextIsFound, FilesAreMet, Changed, Indexed

LEMMA FlushKeepsText ==
    ASSUME VersionTypes, NEW B \in SUBSET DOMAIN results,
           flushContent(B) \/ flushMeta(B), TextIsThere, TextIsFound
    PROVE  TextIsThere' /\ TextIsFound' /\ FilesAreMet'
<1>1. /\ UNCHANGED disk /\ pc' \notin Sweeping
      /\ results' = Restrict(results, DOMAIN results \ B)
  BY DEF flushContent, flushMeta, Flush, Sweeping
<1>2. DOMAIN row' = Indexed /\ \A f \in Indexed : row'[f].ver = row[f].ver
  BY DEF flushContent, flushMeta, VersionTypes, Row, Indexed
<1>3. TextIsFound'
  BY <1>1, <1>2 DEF TextIsFound, Changed, Restrict, Indexed
<1>4. CASE flushMeta(B)
  <2>1. UNCHANGED doc /\ \A f \in Indexed : row'[f].ci = row[f].ci
    BY <1>4 DEF flushMeta, VersionTypes, Row, Indexed
  <2>2. TextIsThere'
    BY <1>1, <1>2, <2>1 DEF TextIsThere, Changed, Indexed
  <2> QED BY <1>1, <1>3, <2>2 DEF FilesAreMet
<1>5. CASE flushContent(B)
  <2>1. ASSUME NEW f \in Indexed, row'[f].ci
        PROVE  f \in DOMAIN doc' \/ Changed(f)
    <3>1. doc' = Replaced(doc, B)
      BY <1>5 DEF flushContent
    <3>2. DOMAIN doc' = {g \in B : results[g] > 0} \union (DOMAIN doc \ B)
      BY <3>1 DEF Replaced, Stored, Restrict
    <3>3. CASE f \in B
      <4>1. results[f] \in Nat
        BY <3>3 DEF VersionTypes
      <4>2. CASE results[f] = 0
        BY <3>3, <4>2 DEF TextIsFound
      <4>3. CASE results[f] > 0
        BY <3>2, <3>3, <4>3
      <4> QED BY <4>1, <4>2, <4>3
    <3>4. CASE f \notin B
      <4>1. row[f].ci
        BY <1>5, <2>1, <3>4 DEF flushContent
      <4> QED BY <3>2, <3>4, <4>1 DEF TextIsThere
    <3> QED BY <3>3, <3>4
  <2>2. TextIsThere'
    BY <1>1, <1>2, <2>1 DEF TextIsThere, Changed, Indexed
  <2> QED BY <1>1, <1>3, <2>2 DEF FilesAreMet
<1> QED BY <1>4, <1>5

LEMMA TextStep ==
    ASSUME TypeOK, TypeOK', FreshByOrder, NoFolding, NothingNewer, CrawlOrder,
           GoneIsNewer, TextKept, [Next]_vars
    PROVE  TextKept'
<1> SUFFICES ASSUME faults' = 0
             PROVE  TextIsThere' /\ TextIsFound' /\ FilesAreMet'
  BY DEF TextKept
<1>1. TextIsThere /\ TextIsFound /\ FilesAreMet
  BY FaultsCount DEF TextKept
<1>2. VersionTypes /\ VersionTypes'
  BY VersionsTyped DEF TypeOK, TableTypes, CrawlTypes, IsTable, VersionTypes, Indexed
<1>3. CASE Puts
  <2>1. \A f \in pending : ~ExtractFails(f)
    BY DEF ExtractFails, TypeOK
  <2> QED BY <1>1, <1>2, <1>3, <2>1, VisitKeepsText, flushBatchKeepsText,
             ExtractKeepsText, FlushKeepsText DEF Puts
<1>4. CASE ~Puts
  <2>1. OnlyDeletes /\ KeepsGens /\ Forgets /\ Moves /\ KeepsText
    BY <1>1, <1>2, <1>4, OtherStepsDelete, OthersKeepText
  <2>2. TextIsThere' /\ TextIsFound'
    BY <1>1, <1>2, <2>1, TextStays
  <2>3. FilesAreMet'
    <3>1. CASE Begin
      BY <3>1, BeginMeets
    <3>2. CASE \E r \in rootsLeft : NextRoot(r)
      BY <1>1, <1>2, <3>2, NextRootMeets
    <3>3. CASE ~Begin /\ \A r \in rootsLeft : ~NextRoot(r)
      BY <1>1, <1>2, <1>4, <2>1, <3>3, OthersKeepPlan, MetStays
    <3> QED BY <3>1, <3>2, <3>3
  <2> QED BY <2>2, <2>3
<1> QED BY <1>3, <1>4

-----------------------------------------------------------------------------
(* Nothing moves the configuration of a crawl while files are undisturbed. *)

\* No call of SetConfig is on its way then.
LEMMA UndisturbedClients ==
    ASSUME Undisturbed, stable' # {}, NEW c \in Clients, ClientStep(c)
    PROVE  FALSE
<1>1. client[c].at # "idle"
  BY DEF ClientStep, SetRead, SetSweep, SetSweepFails, SettingSweep, SetSave
<1>2. stable' = stable \/ stable' = {}
  BY DEF ClientStep, SetRead, SetSweep, SetSweepFails, RollsBack, SetSave
<1> QED BY <1>1, <1>2 DEF Undisturbed

\* These steps leave nothing undisturbed.
LEMMA Disturbing ==
    ASSUME \/ BeginFails \/ Cancelled \/ StatementFails \/ EndSweepFails \/ Reboot
           \/ \E c \in Clients, new \in Configs : SetConfig(c, new)
    PROVE  stable' = {}
BY DEF BeginFails, Cancelled, Abandon, StatementFails, Statement, Passing, Fault, EndSweepFails, RollsBack,
       Reboot, SetConfig

LEMMA UndisturbedStep ==
    ASSUME TypeOK, FreshByOrder, CrawlOrder, Undisturbed, [Next]_vars
    PROVE  Undisturbed'
<1> SUFFICES ASSUME stable' # {}
             PROVE  Undisturbed'
  BY DEF Undisturbed
<1>1. CASE Begin
  <2>1. crawl'.cfg = cfg /\ crawl'.full = crawl.full
        /\ crawl'.full => crawl'.roots = cfg.roots
    BY <1>1 DEF Begin, TypeOK, CrawlTypes, Crawl
  <2>2. \A c \in Clients : client[c].at = "idle"
    BY <1>1 DEF Begin
  <2> QED BY <1>1, <2>1, <2>2 DEF Begin, control, Undisturbed
<1>2. CASE /\ stable' \subseteq stable
           /\ UNCHANGED <<client, pc, crawl, cfg, sweepCfg, lastFull, gen>>
           /\ pc \in {"docs", "meta"} =>
                /\ pending' \union DOMAIN results' \subseteq pending \union DOMAIN results
                /\ DOMAIN row' = Indexed
  BY <1>2 DEF Undisturbed, Indexed
<1>3. CASE \/ \E r \in rootsLeft : NextRoot(r) \/ RootFails(r)
           \/ \E f \in todo : VisitFile(f) \/ VisitFails(f)
           \/ flushBatch \/ flushBatchFails
  BY <1>2, <1>3 DEF NextRoot, RootFails, Listing, VisitFile, VisitFails, Visiting,
     flushBatch, flushBatchFails, Flushing, control
<1>4. ASSUME NEW f \in pending, Extract(f) \/ ExtractFails(f)
      PROVE  Undisturbed'
  <2>1. DOMAIN results' = DOMAIN results \union {f} /\ pending' = pending \ {f}
    BY <1>4 DEF Extract, ExtractFails, Extracting, Stored, One
  <2> QED BY <1>2, <1>4, <2>1
          DEF Extract, ExtractFails, Extracting, control, tables, Indexed
<1>5. ASSUME NEW B \in SUBSET DOMAIN results,
             \/ flushContent(B) \/ FlushFails("docs", B, ContentBatch)
             \/ flushMeta(B) \/ FlushFails("meta", B, MetaBatch)
      PROVE  Undisturbed'
  <2>1. DOMAIN results' = DOMAIN results \ B /\ DOMAIN row' = Indexed
    BY <1>5 DEF flushContent, flushMeta, FlushFails, Flush, Restrict, tables, Indexed
  <2> QED BY <1>2, <1>5, <2>1 DEF flushContent, flushMeta, FlushFails, Flush, control
<1>6. CASE (\E f \in Files : Write(f) \/ Remove(f)) \/ UNCHANGED vars
  BY <1>2, <1>6 DEF Write, Remove, vars, control, crawlVars, tables, Indexed
<1>7. CASE /\ stable' \subseteq stable
           /\ UNCHANGED <<client, crawl, cfg>>
           /\ pc \notin {"off", "claimed", "registered", "begin"}
           /\ pc' \in Passes \ {"docs", "meta"}
  BY <1>7 DEF Undisturbed, Passes
<1>8. CASE \/ EndWalk \/ EndPass
           \/ SweepDocs \/ SweepMeta \/ SweepFiles \/ CleanDocs \/ CleanMeta
  BY <1>7, <1>8 DEF EndWalk, EndPass, SweepDocs, SweepMeta, SweepFiles, CleanDocs,
     CleanMeta, Statement, Passing, After, Passes, control
<1>9. CASE PickDocs \/ PickMeta
  <2> PICK cands \in {DocCandidates, MetaCandidates} :
        Picking("pickDocs", cands) \/ Picking("pickMeta", cands)
    BY <1>9 DEF PickDocs, PickMeta
  <2>1. cands \subseteq Indexed /\ DOMAIN results = {}
    BY DEF DocCandidates, MetaCandidates, InScope, Picking, FreshByOrder
  <2>2. pending' \union DOMAIN results' \subseteq DOMAIN row'
    BY <2>1 DEF Picking, tables, Indexed
  <2>3. /\ UNCHANGED <<stable, client, crawl, cfg>>
        /\ pc \notin {"off", "claimed", "registered", "begin"} /\ pc' \in Passes
    BY DEF Picking, After, Passes, control
  <2> QED BY <2>2, <2>3 DEF Undisturbed, Passes, Indexed
<1>10. CASE Stamp
  <2>1. lastFull' = gen => crawl.full
    BY <1>10 DEF Stamp, Statement, Passing, CrawlOrder, Passes, TypeOK
  <2> QED BY <1>10, <2>1 DEF Stamp, Statement, Passing, After, Undisturbed, control
<1>11. CASE EndRead
  BY <1>11 DEF EndRead, Undisturbed, control
<1>12. CASE EndSweep
  BY <1>12 DEF EndSweep, EndingSweep, Undisturbed
<1>13. CASE StartsOrCloses
  BY <1>2, <1>13 DEF StartsOrCloses, Starting, Undisturbed, tables, Indexed
<1> QED BY StartingOrClosing, <1>1, <1>3, <1>4, <1>5, <1>6, <1>8, <1>9, <1>10, <1>11, <1>12, <1>13,
           UndisturbedClients, Disturbing DEF Next, CrawlStep, Environment

\* Only the begin of a crawl adds to what is undisturbed.
LEMMA OnceUndisturbed ==
    ASSUME Undisturbed, [Next]_vars, ~Begin, NEW f \in stable'
    PROVE  f \in stable
BY UndisturbedClients, Disturbing, StartingOrClosing
   DEF Next, CrawlStep, Environment, StartsOrCloses, NextRoot,
   RootFails, Listing, VisitFile, VisitFails, flushBatch, flushBatchFails, EndWalk,
   SweepDocs, SweepMeta, SweepFiles, CleanDocs, CleanMeta, PickDocs, PickMeta,
   Picking, Extract, ExtractFails, flushContent, flushMeta, FlushFails, EndPass,
   Stamp, EndRead, EndSweep, Write, Remove, vars

-----------------------------------------------------------------------------
(* A walk and the files nothing has disturbed.                             *)

LEMMA ReachedStep ==
    ASSUME TypeOK, Undisturbed, [Next]_vars, \A f \in stable : Reached(f),
           NEW f \in stable'
    PROVE  Reached(f)'
<1>1. CASE Begin
  <2>1. rootsLeft' = crawl'.roots
    BY <1>1 DEF Begin
  <2> QED BY <2>1 DEF Reached, Ahead, UnderAny
<1>2. CASE ~Begin
  <2>1. f \in stable /\ f \in Files
    BY <1>2, OnceUndisturbed DEF TypeOK
  <2>2. pc \in Sweeping /\ disk[f].there /\ f \in UnderAny(crawl.roots)
          => Listed(f) \/ Ahead(f)
    BY <2>1 DEF Reached
  <2>3. CASE pc' \notin Sweeping
    BY <2>3 DEF Reached
  <2>4. CASE pc \in Sweeping /\ UNCHANGED <<crawl, gen, row, rootsLeft, todo, batch, disk[f]>>
    BY <2>2, <2>4 DEF Reached, Listed, Ahead, Indexed, UnderAny
  <2>5. ASSUME NEW r \in rootsLeft, NextRoot(r) \/ RootFails(r)
        PROVE  Reached(f)'
    <3>1. /\ UNCHANGED <<row, disk, batch, gen, crawl>> /\ todo = {} /\ pc = "walk"
          /\ rootsLeft' = rootsLeft \ {r}
          /\ f \in Under[r] /\ disk[f].there => f \in todo'
      BY <2>5 DEF NextRoot, RootFails, Listing, tables
    <3> QED BY <2>2, <3>1 DEF Reached, Listed, Ahead, Indexed, UnderAny, Sweeping
  <2>6. ASSUME NEW g \in todo, VisitFile(g) \/ VisitFails(g)
        PROVE  Reached(f)'
    <3>1. /\ UNCHANGED <<row, disk, gen, crawl, rootsLeft>> /\ todo' = todo \ {g}
          /\ pc = "walk"
      BY <2>6 DEF VisitFile, VisitFails, Visiting, tables
    <3>2. DOMAIN batch \subseteq DOMAIN batch'
      BY <2>6 DEF VisitFile, VisitFails, Stored
    <3>3. f = g /\ disk[f].there => f \in DOMAIN batch'
      BY <2>6 DEF VisitFile, VisitFails, Stored, One
    <3> QED BY <2>2, <3>1, <3>2, <3>3 DEF Reached, Listed, Ahead, Indexed, UnderAny, Sweeping
  <2>7. CASE flushBatch
    <3>1. /\ UNCHANGED <<disk, gen, crawl, rootsLeft, todo>> /\ pc = "walk"
          /\ row' = Stored([g \in DOMAIN batch |-> Upserted(g)], row)
      BY <2>7 DEF flushBatch, Flushing
    <3>2. CASE f \in DOMAIN batch
      <4>1. f \in DOMAIN row' /\ row'[f] = Upserted(f)
        BY <3>1, <3>2 DEF Stored
      <4>2. Upserted(f).gen = gen
        BY DEF Upserted, TypeOK, TableTypes, IsTable, Indexed, Row
      <4> QED BY <3>1, <4>1, <4>2 DEF Reached, Listed, Indexed
    <3>3. CASE f \notin DOMAIN batch
      <4>1. (f \in DOMAIN row' <=> f \in Indexed) /\ (f \in Indexed => row'[f] = row[f])
        BY <3>1, <3>3 DEF Stored, Indexed
      <4> QED BY <2>2, <3>1, <3>3, <4>1 DEF Reached, Listed, Ahead, Indexed, UnderAny, Sweeping
    <3> QED BY <3>2, <3>3
  <2>8. CASE flushBatchFails
    <3>1. /\ UNCHANGED <<row, disk, gen, crawl, rootsLeft, todo>> /\ pc = "walk"
          /\ f \notin DOMAIN batch
      BY <2>8 DEF flushBatchFails, Flushing
    <3> QED BY <2>2, <3>1 DEF Reached, Listed, Ahead, Indexed, UnderAny, Sweeping
  <2>9. CASE EndWalk \/ SweepDocs \/ SweepMeta
    BY <2>4, <2>9 DEF EndWalk, SweepDocs, SweepMeta, Statement, Passing, tables, Sweeping
  <2>10. CASE \/ SweepFiles \/ CleanDocs \/ CleanMeta \/ PickDocs \/ PickMeta
              \/ EndPass \/ Stamp \/ EndRead \/ EndSweep
    BY <2>3, <2>10 DEF SweepFiles, CleanDocs, CleanMeta, PickDocs, PickMeta, Picking,
       EndPass, Stamp, Statement, Passing, EndRead, EndSweep, EndingSweep, After, Sweeping
  <2>11. CASE \/ \E g \in pending : Extract(g) \/ ExtractFails(g)
              \/ \E B \in SUBSET DOMAIN results :
                   \/ flushContent(B) \/ FlushFails("docs", B, ContentBatch)
                   \/ flushMeta(B) \/ FlushFails("meta", B, MetaBatch)
    BY <2>3, <2>11 DEF Extract, ExtractFails, Extracting, flushContent, flushMeta,
       FlushFails, Flush, Sweeping
  <2>12. CASE (\E g \in Files : Write(g) \/ Remove(g)) \/ UNCHANGED vars
    <3>1. disk'[f] = disk[f]
      BY <2>1, <2>12 DEF Write, Remove, vars, TypeOK
    <3>2. UNCHANGED <<crawl, gen, row, rootsLeft, todo, batch, pc>>
      BY <2>12 DEF Write, Remove, vars, tables, crawlVars
    <3> QED BY <2>3, <2>4, <3>1, <3>2
  <2>13. CASE StartsOrCloses
    BY <2>3, <2>4, <2>13 DEF StartsOrCloses, Starting, Sweeping, tables
  <2> QED BY <1>2, <2>13, StartingOrClosing, <2>5, <2>6, <2>7, <2>8, <2>9, <2>10, <2>11, <2>12,
             UndisturbedClients, Disturbing DEF Next, CrawlStep, Environment
<1> QED BY <1>1, <1>2

-----------------------------------------------------------------------------
(* What a full crawl knows of an undisturbed file.                         *)

LEMMA KnownAtBegin ==
    ASSUME TypeOK, VersionTypes, NothingNewer, CrawlOrder, Begin, NEW f
    PROVE  Known(f)'
<1>1. /\ UNCHANGED <<row, disk, cfg, batch>> /\ pc' = "walk" /\ gen' = gen + 1
      /\ crawl'.full => rootsLeft' = cfg.roots
      /\ DOMAIN batch = {}
  BY DEF Begin, tables, control, CrawlOrder, TypeOK, CrawlTypes, Crawl
<1>2. ~Listed(f)'
  <2>1. f \in Indexed => row[f].gen \in Nat /\ row[f].gen <= gen /\ gen \in Nat
    BY DEF VersionTypes, Row, NothingNewer, TypeOK
  <2> QED BY <1>1, <2>1 DEF Listed, Indexed
<1>3. crawl'.full => InWalk(f)'
  BY <1>1, <1>2 DEF InWalk, Ahead, UnderAny
<1>4. InPasses(f)'
  BY <1>1 DEF InPasses, Swept, DocsDone, MetaDone
<1> QED BY <1>1, <1>3, <1>4 DEF Known

\* While it walks.
LEMMA KnownInWalk ==
    ASSUME TypeOK, VersionTypes, CrawlOrder, Undisturbed, NEW f \in stable',
           f \in stable, crawl.full, InWalk(f),
           \/ \E r \in rootsLeft : NextRoot(r) \/ RootFails(r)
           \/ \E g \in todo : VisitFile(g) \/ VisitFails(g)
           \/ flushBatch \/ flushBatchFails
    PROVE  InWalk(f)'
<1>1. ASSUME NEW r \in rootsLeft, NextRoot(r) \/ RootFails(r)
      PROVE  InWalk(f)'
  <2>1. /\ UNCHANGED <<row, disk, cfg, batch, gen>> /\ todo = {}
        /\ rootsLeft' = rootsLeft \ {r}
        /\ f \in Under[r] /\ disk[f].there => f \in todo'
    BY <1>1 DEF NextRoot, RootFails, Listing, tables, control
  <2>2. UNCHANGED <<UnderAny(cfg.roots), Indexed, Listed(f)>>
    BY <2>1 DEF Listed, Indexed
  <2> QED BY <2>1, <2>2 DEF InWalk, Ahead
<1>2. ASSUME NEW g \in todo, VisitFile(g) \/ VisitFails(g)
      PROVE  InWalk(f)'
  <2>1. /\ UNCHANGED <<row, disk, cfg, gen, rootsLeft>> /\ todo' = todo \ {g}
        /\ DOMAIN batch \subseteq DOMAIN batch'
        /\ \A h \in DOMAIN batch' : \/ h \in DOMAIN batch /\ batch'[h] = batch[h]
                                    \/ h = g /\ disk[g].there /\ batch'[g] = disk[g].ver
    BY <1>2 DEF VisitFile, VisitFails, Visiting, tables, control, Stored, One
  <2>2. f = g /\ disk[f].there => f \in DOMAIN batch'
    BY <1>2 DEF VisitFile, VisitFails, Stored, One
  <2>3. UNCHANGED <<UnderAny(cfg.roots), Indexed, Listed(f)>>
    BY <2>1 DEF Listed, Indexed
  <2> QED BY <2>1, <2>2, <2>3 DEF InWalk, Ahead
<1>3. CASE flushBatch
  <2>1. /\ UNCHANGED <<disk, cfg, gen, rootsLeft, todo>> /\ DOMAIN batch' = {}
        /\ pc = "walk"
        /\ row' = Stored([g \in DOMAIN batch |-> Upserted(g)], row)
    BY <1>3 DEF flushBatch, Flushing, control, Empty
  <2>2. CASE f \in DOMAIN batch
    <3>1. f \in DOMAIN row' /\ row'[f] = Upserted(f)
      BY <2>1, <2>2 DEF Stored
    <3>2. Upserted(f).gen = gen /\ Upserted(f).ver = batch[f]
      BY <2>2 DEF Upserted, VersionTypes, Row
    <3>3. f \in UnderAny(cfg.roots)
      BY <2>1, <2>2 DEF CrawlOrder, Undisturbed
    <3> QED BY <2>1, <2>2, <3>1, <3>2, <3>3 DEF InWalk, Listed, Indexed, UnderAny
  <2>3. CASE f \notin DOMAIN batch
    <3>1. (f \in DOMAIN row' <=> f \in Indexed) /\ (f \in Indexed => row'[f] = row[f])
      BY <2>1, <2>3 DEF Stored, Indexed
    <3> QED BY <2>1, <2>3, <3>1 DEF InWalk, Listed, Ahead, Indexed, UnderAny
  <2> QED BY <2>2, <2>3
<1>4. CASE flushBatchFails
  <2>1. /\ UNCHANGED <<row, disk, cfg, gen, rootsLeft, todo>> /\ DOMAIN batch' = {}
        /\ f \notin DOMAIN batch
    BY <1>4 DEF flushBatchFails, Flushing, control, Empty
  <2> QED BY <2>1 DEF InWalk, Listed, Ahead, Indexed, UnderAny
<1> QED BY <1>1, <1>2, <1>3, <1>4

\* After the walk its rows keep their stamps, and only rows without go.
KeepsListed(f) ==
    /\ f \in DOMAIN row' => f \in Indexed
    /\ f \in Indexed /\ f \notin DOMAIN row' => row[f].gen # gen
    /\ f \in DOMAIN row' => row'[f].gen = row[f].gen /\ row'[f].ver = row[f].ver

LEMMA InWalkStays ==
    ASSUME NEW f, InWalk(f), KeepsListed(f),
           UNCHANGED <<disk, gen, cfg, rootsLeft, todo, batch>>
    PROVE  InWalk(f)'
<1>1. Listed(f)' <=> Listed(f)
  BY DEF KeepsListed, Listed, Indexed
<1> QED BY <1>1 DEF InWalk, KeepsListed, Listed, Ahead, Indexed, UnderAny

LEMMA NoRowKeepsListed ==
    ASSUME NEW f, UNCHANGED row
    PROVE  KeepsListed(f)
BY DEF KeepsListed, Indexed

\* In the passes, at a step that writes no mark.
LEMMA InPassesStays ==
    ASSUME NEW f, InPasses(f), UNCHANGED <<row, gen, cfg>>,
           pc' \in Swept => pc \in Swept,
           pc' \in DocsDone => pc \in DocsDone,
           pc' \in MetaDone => pc \in MetaDone,
           pc' \in {"docs", "meta"} =>
             /\ pc' = pc
             /\ f \in pending \union DOMAIN results
                  => f \in pending' \union DOMAIN results'
    PROVE  InPasses(f)'
<1>1. /\ UNCHANGED <<Indexed, prefixCond(cfg.roots), Wanted(f), Listed(f)>>
      /\ f \in Indexed => row'[f] = row[f]
  BY DEF Indexed, prefixCond, Wanted, Included, Listed
<1>2. Listed(f) => f \in Indexed
  BY DEF Listed
<1> QED BY <1>1, <1>2 DEF InPasses

LEMMA UnderIsMatched ==
    ASSUME NEW ds, ds \subseteq Dirs
    PROVE  UnderAny(ds) \subseteq prefixCond(ds)
BY PathAssumption DEF UnderAny, prefixCond

\* The sweep of the files leaves no row in scope that the walk has not stamped.
LEMMA SweepFilesLists ==
    ASSUME TypeOK, VersionTypes, NothingNewer, Undisturbed, NEW f \in stable,
           crawl.full, InWalk(f), SweepFiles
    PROVE  InWalk(f)' /\ InPasses(f)'
<1>1. /\ UNCHANGED <<disk, gen, cfg, rootsLeft, todo, batch>> /\ pc = "sweepFiles"
      /\ pc' = IF crawl.cfg.content THEN "cleanDocs" ELSE "cleanMeta"
      /\ row' = Restrict(row, Indexed \ Stale)
  BY DEF SweepFiles, Statement, Passing, After, control
<1>2. crawl.cfg = cfg /\ crawl.roots = cfg.roots
  BY <1>1 DEF Undisturbed
<1>3. KeepsListed(f)
  BY <1>1 DEF KeepsListed, Restrict, Stale, TypeOK
<1>4. InWalk(f)'
  BY <1>1, <1>3, InWalkStays
<1>5. f \in DOMAIN row' /\ f \in prefixCond(cfg.roots) => Listed(f)'
  <2> SUFFICES ASSUME f \in DOMAIN row', f \in prefixCond(cfg.roots)
               PROVE  row'[f].gen = gen
    BY <1>1 DEF Listed, Indexed
  <2>1. f \in Indexed \ Stale /\ row'[f] = row[f]
    BY <1>1 DEF Restrict
  <2>2. ~(row[f].gen < gen)
    BY <1>2, <2>1 DEF Stale, InScope
  <2>3. row[f].gen \in Nat /\ gen \in Nat /\ row[f].gen <= gen
    BY <2>1 DEF VersionTypes, Row, TypeOK, NothingNewer
  <2> QED BY <2>1, <2>2, <2>3
<1>6. pc' \in DocsDone => ~Wanted(f)'
  BY <1>1, <1>2 DEF DocsDone, MetaDone, Wanted
<1> QED BY <1>1, <1>4, <1>5, <1>6 DEF InPasses, MetaDone, Indexed, prefixCond

\* What a pass does not pick is marked already.
LEMMA PickDocsKnows ==
    ASSUME TypeOK, Undisturbed, NEW f \in stable,
           crawl.full, InWalk(f), InPasses(f), PickDocs
    PROVE  InPasses(f)'
<1>1. /\ UNCHANGED <<row, gen, cfg, disk>> /\ pc = "pickDocs"
      /\ pending' = DocCandidates
      /\ pc' = IF DocCandidates = {} THEN "cleanMeta" ELSE "docs"
  BY DEF PickDocs, Picking, After, tables, control
<1>2. crawl.cfg = cfg /\ crawl.roots = cfg.roots
  BY <1>1 DEF Undisturbed
<1>3. Listed(f) /\ Wanted(f) => row[f].ci \/ f \in DocCandidates
  <2> SUFFICES ASSUME Listed(f), Wanted(f), ~row[f].ci PROVE f \in DocCandidates
    OBVIOUS
  <2>1. f \in Indexed /\ f \in prefixCond(cfg.roots)
    BY CrawlTyped, UnderIsMatched DEF InWalk, Listed
  <2> QED BY <1>2, <2>1 DEF DocCandidates, InScope, Wanted
<1>4. /\ UNCHANGED <<Indexed, prefixCond(cfg.roots), Wanted(f), Listed(f)>>
      /\ f \in Indexed => row'[f] = row[f]
  BY <1>1 DEF Indexed, prefixCond, Wanted, Included, Listed
<1>5. Listed(f) => f \in Indexed
  BY DEF Listed
<1>6. f \in Indexed \intersect prefixCond(cfg.roots) => Listed(f)
  BY <1>1 DEF InPasses, Swept
<1> QED BY <1>1, <1>3, <1>4, <1>5, <1>6 DEF InPasses, DocsDone, MetaDone

LEMMA PickMetaKnows ==
    ASSUME TypeOK, Undisturbed, NEW f \in stable,
           crawl.full, InWalk(f), InPasses(f), PickMeta
    PROVE  InPasses(f)'
<1>1. /\ UNCHANGED <<row, gen, cfg, disk>> /\ pc = "pickMeta"
      /\ pending' = MetaCandidates
      /\ pc' = IF MetaCandidates = {} THEN "stamp" ELSE "meta"
  BY DEF PickMeta, Picking, After, tables, control
<1>2. crawl.cfg = cfg /\ crawl.roots = cfg.roots
  BY <1>1 DEF Undisturbed
<1>3. Listed(f) /\ f \in MediaFiles => row[f].me \/ f \in MetaCandidates
  <2> SUFFICES ASSUME Listed(f), f \in MediaFiles, ~row[f].me PROVE f \in MetaCandidates
    OBVIOUS
  <2>1. f \in Indexed /\ f \in prefixCond(cfg.roots)
    BY CrawlTyped, UnderIsMatched DEF InWalk, Listed
  <2> QED BY <1>2, <2>1 DEF MetaCandidates, InScope
<1>4. /\ UNCHANGED <<Indexed, prefixCond(cfg.roots), Wanted(f), Listed(f)>>
      /\ f \in Indexed => row'[f] = row[f]
  BY <1>1 DEF Indexed, prefixCond, Wanted, Included, Listed
<1>5. Listed(f) => f \in Indexed
  BY DEF Listed
<1>6. /\ f \in Indexed \intersect prefixCond(cfg.roots) => Listed(f)
      /\ Listed(f) /\ Wanted(f) => row[f].ci
  BY <1>1 DEF InPasses, Swept, DocsDone
<1> QED BY <1>1, <1>3, <1>4, <1>5, <1>6 DEF InPasses, MetaDone

\* The writer marks every file it takes: its rows are all there.
LEMMA FlushKnows ==
    ASSUME TypeOK, VersionTypes, Undisturbed, NEW f \in stable',
           f \in stable, crawl.full, InWalk(f), InPasses(f),
           NEW B \in SUBSET DOMAIN results,
           \/ flushContent(B) \/ FlushFails("docs", B, ContentBatch)
           \/ flushMeta(B) \/ FlushFails("meta", B, MetaBatch)
    PROVE  InWalk(f)' /\ InPasses(f)'
<1>1. /\ UNCHANGED <<disk, gen, cfg, rootsLeft, todo, batch, pc, pending>>
      /\ pc \in {"docs", "meta"}
      /\ DOMAIN results' = DOMAIN results \ B
  BY DEF flushContent, flushMeta, FlushFails, Flush, Restrict, control
<1>2. B \subseteq Indexed
  BY <1>1 DEF Undisturbed
<1>3. /\ DOMAIN row' = Indexed
      /\ \A g \in Indexed : /\ row'[g].gen = row[g].gen /\ row'[g].ver = row[g].ver
                            /\ row[g].ci => row'[g].ci
                            /\ row[g].me => row'[g].me
  BY DEF flushContent, flushMeta, FlushFails, tables, VersionTypes, Row, Indexed
<1>4. f \in B => /\ pc = "docs" => row'[f].ci
                 /\ pc = "meta" => row'[f].me
  BY <1>2 DEF flushContent, flushMeta, FlushFails, Flush, BreaksForeignKey,
              VersionTypes, Row
<1>5. KeepsListed(f)
  BY <1>3 DEF KeepsListed
<1>6. InWalk(f)'
  BY <1>1, <1>5, InWalkStays
<1>7. /\ UNCHANGED <<Indexed, prefixCond(cfg.roots), Wanted(f), Listed(f)>>
      /\ Listed(f) => f \in Indexed
  BY <1>1, <1>3 DEF Indexed, prefixCond, Wanted, Included, Listed
<1>8. InPasses(f)'
  BY <1>1, <1>3, <1>4, <1>7 DEF InPasses, MetaDone, DocsDone, Swept
<1> QED BY <1>6, <1>8

\* The last sweep, with the configuration of the crawl, takes no listed file.
LEMMA EndSweepKnows ==
    ASSUME TypeOK, VersionTypes, CrawlOrder, Undisturbed, NEW f \in stable,
           crawl.full, InWalk(f), InPasses(f), EndSweep
    PROVE  AtEnd(f)'
<1>1. /\ UNCHANGED <<disk, cfg>> /\ pc = "endSweep"
      /\ DOMAIN row' = Indexed \intersect prefixCond(sweepCfg.roots)
      /\ f \in DOMAIN row' => /\ row'[f].ver = row[f].ver /\ row'[f].me = row[f].me
                              /\ f \in Included(sweepCfg) => row'[f].ci = row[f].ci
  BY DEF EndSweep, EndingSweep, Commits, sweepOutsideRoots, VersionTypes, Row
<1>2. sweepCfg = cfg
  BY <1>1 DEF Undisturbed
<1>3. ~Ahead(f)
  BY <1>1 DEF CrawlOrder, Ahead
<1>4. f \in UnderAny(cfg.roots) => f \in prefixCond(cfg.roots)
  BY CrawlTyped, UnderIsMatched
<1>5. f \in Indexed \intersect prefixCond(cfg.roots)
        <=> disk[f].there /\ f \in UnderAny(cfg.roots)
  BY <1>1, <1>3, <1>4 DEF InWalk, InPasses, Swept, DocsDone, MetaDone, Listed
<1>6. f \in Indexed \intersect prefixCond(cfg.roots) =>
        /\ row[f].ver = disk[f].ver
        /\ Wanted(f) => row[f].ci
        /\ f \in MediaFiles => row[f].me
  BY <1>1 DEF InWalk, InPasses, Swept, DocsDone, MetaDone
<1>7. UNCHANGED <<UnderAny(cfg.roots), Wanted(f), Included(cfg)>>
  BY <1>1 DEF UnderAny, Wanted, Included, prefixCond
<1> QED BY <1>1, <1>2, <1>5, <1>6, <1>7 DEF AtEnd, Indexed, Wanted

LEMMA KnownStep ==
    ASSUME TypeOK, FreshByOrder, NothingNewer, CrawlOrder, Undisturbed, [Next]_vars,
           \A f \in stable : Known(f), NEW f \in stable'
    PROVE  Known(f)'
<1> USE DEF Known
<1>1. VersionTypes
  BY VersionsTyped DEF TypeOK, TableTypes, CrawlTypes, IsTable, VersionTypes, Indexed
<1>2. CASE Begin
  BY <1>1, <1>2, KnownAtBegin
<1>3. CASE ~Begin
  <2>1. f \in stable
    BY <1>3, OnceUndisturbed
  <2>2. pc \notin {"off", "claimed", "registered", "begin"} /\ crawl.full =>
         InWalk(f) /\ InPasses(f)
    BY <2>1
  <2>3. CASE \/ \E r \in rootsLeft : NextRoot(r) \/ RootFails(r)
             \/ \E g \in todo : VisitFile(g) \/ VisitFails(g)
             \/ flushBatch \/ flushBatchFails
    <3>1. pc = "walk" /\ UNCHANGED <<pc, crawl>>
      BY <2>3 DEF NextRoot, RootFails, Listing, VisitFile, VisitFails, Visiting,
         flushBatch, flushBatchFails, Flushing
    <3>2. InPasses(f)'
      BY <3>1 DEF InPasses, Swept, DocsDone, MetaDone
    <3> QED BY <1>1, <2>1, <2>2, <2>3, <3>1, <3>2, KnownInWalk
  <2>4. CASE \/ EndWalk \/ SweepDocs \/ SweepMeta \/ CleanDocs \/ CleanMeta
             \/ EndPass \/ Stamp \/ EndRead
    <3>1. /\ UNCHANGED <<disk, row, gen, cfg, crawl, rootsLeft, todo, batch>>
          /\ pc \notin {"off", "claimed", "registered", "begin"}
          /\ pc' \notin {"off", "claimed", "registered", "begin", "docs", "meta"}
          /\ pc = "docs" => pending = {} /\ DOMAIN results = {} /\ pc' = "cleanMeta"
          /\ pc = "meta" => pending = {} /\ DOMAIN results = {} /\ pc' = "stamp"
          /\ pc' \in Swept => pc \in Swept
          /\ pc' \in DocsDone => pc \in DocsDone \/ pc = "docs"
          /\ pc' \in MetaDone => pc \in MetaDone \/ pc = "meta"
      BY <2>4 DEF EndWalk, SweepDocs, SweepMeta, CleanDocs, CleanMeta, EndPass,
         Stamp, EndRead, Statement, Passing, After, tables, control, Swept, DocsDone,
         MetaDone, Empty
    <3>2. crawl.full => InWalk(f)'
      BY <2>2, <3>1, NoRowKeepsListed, InWalkStays
    <3>3. CASE pc \notin {"docs", "meta"}
      BY <2>2, <3>1, <3>2, <3>3, InPassesStays
    <3>4. CASE pc \in {"docs", "meta"}
      <4>1. /\ UNCHANGED <<Indexed, prefixCond(cfg.roots), Wanted(f), Listed(f)>>
            /\ f \in Indexed => row'[f] = row[f]
        BY <3>1 DEF Indexed, prefixCond, Wanted, Included, Listed
      <4>2. Listed(f) => f \in Indexed
        BY DEF Listed
      <4>3. crawl.full => InPasses(f)'
        BY <2>2, <3>1, <3>4, <4>1, <4>2 DEF InPasses, Swept, DocsDone, MetaDone
      <4> QED BY <3>1, <3>2, <4>3
    <3> QED BY <3>3, <3>4
  <2>5. CASE SweepFiles
    <3>1. UNCHANGED crawl /\ pc = "sweepFiles"
          /\ pc' \notin {"off", "claimed", "registered", "begin"}
      BY <2>5 DEF SweepFiles, Statement, Passing, After
    <3> QED BY <1>1, <2>1, <2>2, <2>5, <3>1, SweepFilesLists
  <2>6. CASE PickDocs \/ PickMeta
    <3>1. /\ UNCHANGED <<disk, row, gen, cfg, crawl, rootsLeft, todo, batch>>
          /\ pc \notin {"off", "claimed", "registered", "begin"}
          /\ pc' \notin {"off", "claimed", "registered", "begin"}
      BY <2>6 DEF PickDocs, PickMeta, Picking, After, tables, control
    <3>2. crawl.full => InWalk(f)'
      BY <2>2, <3>1, NoRowKeepsListed, InWalkStays
    <3> QED BY <2>1, <2>2, <2>6, <3>1, <3>2, PickDocsKnows, PickMetaKnows
  <2>7. ASSUME NEW g \in pending, Extract(g) \/ ExtractFails(g)
        PROVE  Known(f)'
    <3>1. /\ UNCHANGED <<disk, row, gen, cfg, crawl, rootsLeft, todo, batch, pc>>
          /\ pc \in {"docs", "meta"}
          /\ pending' = pending \ {g} /\ DOMAIN results' = DOMAIN results \union {g}
      BY <2>7 DEF Extract, ExtractFails, Extracting, Stored, One, tables, control
    <3>2. crawl.full => InWalk(f)'
      BY <2>2, <3>1, NoRowKeepsListed, InWalkStays
    <3>3. crawl.full => InPasses(f)'
      BY <2>2, <3>1, InPassesStays
    <3> QED BY <3>1, <3>2, <3>3
  <2>8. ASSUME NEW B \in SUBSET DOMAIN results,
               \/ flushContent(B) \/ FlushFails("docs", B, ContentBatch)
               \/ flushMeta(B) \/ FlushFails("meta", B, MetaBatch)
        PROVE  Known(f)'
    <3>1. UNCHANGED <<pc, crawl>> /\ pc \in {"docs", "meta"}
      BY <2>8 DEF flushContent, flushMeta, FlushFails, Flush
    <3> QED BY <1>1, <2>1, <2>2, <2>8, <3>1, FlushKnows
  <2>9. CASE EndSweep
    <3>1. pc = "endSweep" /\ pc' = "off" /\ UNCHANGED <<gen, lastFull>>
      BY <2>9 DEF EndSweep, EndingSweep
    <3>2. lastFull = gen => crawl.full
      BY <2>1, <3>1 DEF Undisturbed
    <3> QED BY <1>1, <2>1, <2>2, <2>9, <3>1, <3>2, EndSweepKnows
  <2>10. CASE \/ \E g \in Files : Write(g) \/ Remove(g)
              \/ StartsOrCloses /\ UNCHANGED <<pc, crawl>>
              \/ UNCHANGED vars
    <3> f \in Files
      BY <2>1 DEF TypeOK
    <3>0. disk'[f] = disk[f]
      BY <1>1, <2>10 DEF Write, Remove, StartsOrCloses, vars, VersionTypes
    <3>1. UNCHANGED <<row, gen, lastFull, cfg, crawl, rootsLeft, todo, batch, pc,
                      pending, results>>
      BY <2>10 DEF Write, Remove, StartsOrCloses, vars, tables, crawlVars, control
    <3>2. /\ UNCHANGED <<Indexed, prefixCond(cfg.roots), UnderAny(cfg.roots),
                         Wanted(f), Listed(f), Ahead(f)>>
          /\ f \in Indexed => row'[f] = row[f]
      BY <3>1 DEF Indexed, prefixCond, UnderAny, Wanted, Included, Listed, Ahead
    <3>3. UNCHANGED <<InWalk(f), InPasses(f), AtEnd(f)>>
      BY <3>0, <3>1, <3>2 DEF InWalk, InPasses, AtEnd
    <3> QED BY <2>1, <2>2, <3>1, <3>3
  <2>11. CASE StartsOrCloses /\ ~UNCHANGED <<pc, crawl>>
    BY <2>11 DEF StartsOrCloses, Starting
  <2> QED BY <1>3, StartingOrClosing, <2>3, <2>4, <2>5, <2>6, <2>7, <2>8, <2>9, <2>10, <2>11,
             UndisturbedClients, Disturbing DEF Next, CrawlStep, Environment
<1> QED BY <1>2, <1>3

-----------------------------------------------------------------------------
LEMMA InitExact == Init => ExactInv
<1> SUFFICES ASSUME Init PROVE ExactInv
  OBVIOUS
<1>1. /\ DOMAIN row = {} /\ DOMAIN doc = {} /\ DOMAIN met = {}
      /\ DOMAIN batch = {} /\ DOMAIN results = {}
      /\ rootsLeft = {} /\ todo = {} /\ stable = {} /\ pc = "off"
      /\ \A f \in Files : disk[f].ver = 1
  BY DEF Init, Empty
<1>2. NothingNewer /\ CrawlOrder /\ GoneIsNewer
  BY <1>1 DEF NothingNewer, CrawlOrder, GoneIsNewer, Indexed, Passes
<1>3. TextKept /\ Undisturbed /\ \A f \in stable : Reached(f) /\ Known(f)
  BY <1>1 DEF TextKept, TextIsThere, TextIsFound, FilesAreMet, Sweeping,
              Undisturbed, Indexed
<1> QED BY <1>2, <1>3 DEF ExactInv

LEMMA ExactStep ==
    ASSUME TypeOK, TypeOK', FreshByOrder, FreshByOrder', NoFolding, ExactInv, [Next]_vars
    PROVE  ExactInv'
<1>1. NothingNewer' /\ GoneIsNewer'
  BY VersionsStep DEF ExactInv
<1>2. CrawlOrder'
  BY OrderStep DEF ExactInv
<1>3. TextKept'
  BY TextStep DEF ExactInv
<1>4. Undisturbed'
  BY UndisturbedStep DEF ExactInv
<1>5. \A f \in stable' : Reached(f)'
  BY ReachedStep DEF ExactInv
<1>6. \A f \in stable' : Known(f)'
  BY KnownStep DEF ExactInv
<1> QED BY <1>1, <1>2, <1>3, <1>4, <1>5, <1>6 DEF ExactInv

LEMMA ExactSuffices ==
    ASSUME TypeOK, FreshByOrder, ExactInv
    PROVE  FullCrawlIsExact
<1> SUFFICES ASSUME pc = "off", lastFull = gen, NEW f \in stable
             PROVE  /\ f \in Indexed <=> disk[f].there /\ f \in UnderAny(cfg.roots)
                    /\ f \in Indexed =>
                         /\ row[f].ver = disk[f].ver
                         /\ Wanted(f) => row[f].ci
                         /\ Wanted(f) /\ faults = 0 => f \in DOMAIN doc
                         /\ row[f].ci /\ f \in DOMAIN doc => doc[f] = disk[f].ver
                         /\ f \in MediaFiles => row[f].me
                         /\ row[f].me /\ f \in DOMAIN met => met[f] = disk[f].ver
  BY DEF FullCrawlIsExact, Wanted
<1>1. AtEnd(f)
  BY DEF ExactInv, Known
<1>2. ASSUME f \in Indexed
      PROVE  /\ Wanted(f) /\ faults = 0 => f \in DOMAIN doc
             /\ row[f].ci /\ f \in DOMAIN doc => doc[f] = disk[f].ver
             /\ row[f].me /\ f \in DOMAIN met => met[f] = disk[f].ver
  <2>1. VersionTypes
    BY VersionsTyped DEF TypeOK, TableTypes, CrawlTypes, IsTable, VersionTypes, Indexed
  <2>2. row[f].ver = disk[f].ver /\ disk[f].ver \in Nat
    BY <1>1, <1>2, <2>1 DEF AtEnd, VersionTypes
  <2>3. f \in DOMAIN doc => doc[f] \in Nat /\ doc[f] <= disk[f].ver
    BY <2>1 DEF VersionTypes, ExactInv, NothingNewer
  <2>4. f \in DOMAIN met => met[f] \in Nat /\ met[f] <= disk[f].ver
    BY <2>1 DEF VersionTypes, ExactInv, NothingNewer
  <2>5. /\ row[f].ci /\ f \in DOMAIN doc => doc[f] >= row[f].ver
        /\ row[f].me /\ f \in DOMAIN met => met[f] >= row[f].ver
    BY <1>2 DEF FreshByOrder, MarksAreFresh
  <2>6. Wanted(f) /\ faults = 0 => f \in DOMAIN doc
    BY <1>1, <1>2, <2>2 DEF AtEnd, ExactInv, TextKept, TextIsThere, Changed
  <2> QED BY <2>2, <2>3, <2>4, <2>5, <2>6
<1> QED BY <1>1, <1>2 DEF AtEnd

\* When the newest crawl was a full one and ran to its end, the index agrees
\* with the disk on every file that nothing has disturbed since that crawl
\* began: its row, its text and its metadata are there exactly if the file is,
\* and they are the current ones.  Where names differ only in case the sweep
\* of a rescan takes the text of another directory's files, and a crash then
\* leaves them marked without it; hence the assumption.
THEOREM ExactAfterFullCrawl ==
    ASSUME NoFolding
    PROVE  Spec => []FullCrawlIsExact
<1>1. Init => ExactInv
  BY InitExact
<1>2. TypeOK /\ TypeOK' /\ FreshByOrder /\ FreshByOrder' /\ ExactInv /\ [Next]_vars
        => ExactInv'
  BY ExactStep
<1>3. TypeOK /\ FreshByOrder /\ ExactInv => FullCrawlIsExact
  BY ExactSuffices
<1> QED BY <1>1, <1>2, <1>3, TypeCorrect, AlwaysFreshByOrder, PTL DEF Spec

\* A sweep, of a full crawl or of one directory, deletes no row of a file that
\* exists and that nothing has disturbed since the crawl began: only the names
\* the walk could not have met are stale.  Where names differ only in case the
\* sweep reaches into directories the walk has not seen.
THEOREM SweepsOnlyGone ==
    ASSUME NoFolding
    PROVE  Spec => SweptFilesAreGone
<1>1. TypeOK /\ ExactInv /\ [Next]_vars =>
        [pc = "sweepFiles" /\ pc' = After(pc) =>
           \A f \in (Indexed \ DOMAIN row') \intersect stable : ~disk[f].there]_vars
  <2> SUFFICES ASSUME TypeOK, ExactInv, [Next]_vars,
                      pc = "sweepFiles", pc' = After(pc),
                      NEW f \in (Indexed \ DOMAIN row') \intersect stable
               PROVE  ~disk[f].there
    OBVIOUS
  <2>1. pc' \in {"cleanDocs", "cleanMeta"}
    BY DEF After
  <2>2. SweepFiles
    <3>1. row' # row
      BY DEF Indexed
    <3> QED BY <2>1, <3>1, StartingOrClosing
       DEF Next, CrawlStep, Environment, ClientStep, StartsOrCloses, Begin,
       BeginFails, Cancelled, Abandon, NextRoot, RootFails, Listing, VisitFile,
       VisitFails, Visiting, flushBatch, flushBatchFails, Flushing, EndWalk,
       SweepDocs, SweepMeta, CleanDocs, CleanMeta, PickDocs, PickMeta, Picking,
       Extract, ExtractFails, Extracting, flushContent, flushMeta, FlushFails,
       Flush, EndPass, Stamp, StatementFails, Statement, Passing, Fault,
     EndRead, EndSweep, EndSweepFails,
       EndingSweep, SetRead, SetSweep, SetSweepFails, SettingSweep, SetSave,
       Write, Remove, SetConfig, Reboot, tables, vars,
       crawlVars
  <2>3. f \in Stale
    BY <2>2 DEF SweepFiles, Restrict
  <2>4. f \in UnderAny(crawl.roots) /\ row[f].gen < gen
    BY <2>3, CrawlTyped, PrefixesAreExact DEF Stale, InScope
  <2>5. ~Listed(f) /\ ~Ahead(f)
    BY <2>4 DEF Listed, Ahead, ExactInv, CrawlOrder, TypeOK
  <2> QED BY <2>4, <2>5 DEF ExactInv, Reached, Sweeping
<1> QED BY <1>1, InitExact, ExactStep, TypeCorrect, AlwaysFreshByOrder, PTL
        DEF Spec, SweptFilesAreGone

=============================================================================
