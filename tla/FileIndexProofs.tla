--------------------------- MODULE FileIndexProofs ---------------------------
(***************************************************************************)
(* Proofs about FileIndex, for every set of files, directories, clients    *)
(* and configurations and whatever the bounds.                             *)
(***************************************************************************)
EXTENDS FileIndex, TLAPS

-----------------------------------------------------------------------------
(* Tables, configurations and idle records.                                *)

\* What a DELETE leaves of a table is a table.
LEMMA RestrictIsTable ==
    ASSUME NEW T, NEW t, IsTable(t, T), NEW S, S \subseteq DOMAIN t
    PROVE  IsTable(Restrict(t, S), T) /\ DOMAIN Restrict(t, S) = S
BY DEF IsTable, Restrict

\* What an INSERT OR REPLACE makes of two tables is a table.
LEMMA MergeIsTable ==
    ASSUME NEW T, NEW s, NEW t, IsTable(s, T), IsTable(t, T)
    PROVE  IsTable(Stored(s, t), T) /\ DOMAIN Stored(s, t) = DOMAIN s \union DOMAIN t
BY DEF IsTable, Stored

LEMMA SingleIsTable ==
    ASSUME NEW T, NEW f \in Files, NEW v \in T
    PROVE  IsTable(One(f, v), T)
BY DEF IsTable, One

LEMMA EmptyIsTable ==
    ASSUME NEW T
    PROVE  IsTable(Empty, T)
BY DEF IsTable, Empty

LEMMA ConfigTypes ==
    /\ AnyConfig \in Config
    /\ Configs \subseteq Config
    /\ \A c \in Config : Restored(c) \in Config
    /\ NoCrawl \in Crawl
    /\ IdleClient \in Client
<1>1. Configs \subseteq Config /\ Configs # {} /\ FallbackRoots \subseteq Dirs
  BY ConfigAssumption DEF Config
<1>2. AnyConfig \in Config
  BY <1>1 DEF AnyConfig
<1>3. \A c \in Config : Restored(c) \in Config
  BY <1>1 DEF Restored, Config
<1>4. NoCrawl \in Crawl
  BY <1>2 DEF NoCrawl, Crawl
<1>5. IdleClient \in Client
  BY <1>2 DEF IdleClient, Client
<1> QED BY <1>1, <1>2, <1>3, <1>4, <1>5

\* The last sweep leaves tables, whatever the configuration it runs with.
LEMMA SweepTypes ==
    ASSUME TableTypes, NEW c \in Config, sweepOutsideRoots(c)
    PROVE  TableTypes'
<1> DEFINE kept == Indexed \intersect prefixCond(c.roots)
<1>1. IsTable(doc', Nat) /\ IsTable(met', Nat)
  BY RestrictIsTable DEF TableTypes, sweepOutsideRoots
<1>2. IsTable(row', Row)
  <2>1. row \in [Indexed -> Row] /\ Indexed \subseteq Files
    BY DEF TableTypes, IsTable, Indexed
  <2>2. \A f \in Indexed : [row[f] EXCEPT !.ci = FALSE] \in Row
    BY <2>1 DEF Row
  <2>3. row' = [f \in kept |-> IF f \in Included(c) THEN row[f]
                                ELSE [row[f] EXCEPT !.ci = FALSE]]
    BY DEF sweepOutsideRoots
  <2> QED BY <2>1, <2>2, <2>3 DEF IsTable
<1> QED BY <1>1, <1>2 DEF TableTypes

LEMMA SweepCommits ==
    ASSUME TypeOK, NEW c \in Config, Commits(c)
    PROVE  TableTypes' /\ missed' \in BOOLEAN
<1>1. TableTypes'
  BY SweepTypes DEF TypeOK, Commits
<1>2. missed' \in BOOLEAN
  BY DEF Commits
<1> QED BY <1>1, <1>2

LEMMA SweepRollsBack ==
    ASSUME TypeOK, RollsBack
    PROVE  /\ TableTypes' /\ missed' \in BOOLEAN
           /\ faults' \in Nat /\ stable' \subseteq Files
<1>1. TableTypes' /\ missed' \in BOOLEAN
  BY DEF TypeOK, RollsBack, TableTypes, tables
<1> QED BY <1>1 DEF TypeOK, RollsBack, Fault

\* So do the statements of the passes.
LEMMA ReplacedIsTable ==
    ASSUME NEW t, IsTable(t, Nat), IsTable(results, Nat),
           NEW B, B \subseteq DOMAIN results
    PROVE  IsTable(Replaced(t, B), Nat)
BY RestrictIsTable, MergeIsTable DEF Replaced

-----------------------------------------------------------------------------
(* Type correctness.                                                       *)

LEMMA InitTypes == Init => TypeOK
<1> SUFFICES ASSUME Init PROVE TypeOK
  OBVIOUS
<1>1. TableTypes
  BY EmptyIsTable DEF Init, TableTypes
<1>2. CrawlTypes
  BY EmptyIsTable, ConfigTypes DEF Init, CrawlTypes, Steps
<1>3. ControlTypes
  BY ConfigTypes DEF Init, ControlTypes
<1>4. disk \in [Files -> [there : BOOLEAN, ver : Nat]]
  BY DEF Init
<1>5. /\ gen \in Nat /\ lastFull \in 0..gen
      /\ sets \in Nat /\ faults \in Nat /\ boots \in Nat
      /\ stable \subseteq Files /\ missed \in BOOLEAN
  <2>1. gen = 0 /\ lastFull = 0 /\ sets = 0 /\ faults = 0 /\ boots = 0
    BY DEF Init
  <2>2. /\ gen \in Nat /\ lastFull \in 0..gen
        /\ sets \in Nat /\ faults \in Nat /\ boots \in Nat
    BY <2>1
  <2>3. stable \subseteq Files /\ missed \in BOOLEAN
    BY DEF Init
  <2> QED BY <2>2, <2>3
<1> QED BY <1>1, <1>2, <1>3, <1>4, <1>5 DEF TypeOK

LEMMA WalkTypes ==
    ASSUME TypeOK,
           \/ Begin \/ BeginFails \/ Cancelled
           \/ \E r \in rootsLeft : NextRoot(r) \/ RootFails(r)
           \/ \E f \in todo : VisitFile(f) \/ VisitFails(f)
           \/ flushBatch \/ flushBatchFails \/ EndWalk
    PROVE  TypeOK'
<1> USE DEF TypeOK, tables, control
<1>1. CASE Begin
  <2>1. crawl' \in Crawl /\ rootsLeft' \subseteq Dirs
    <3> DEFINE rs == IF crawl.full THEN cfg.roots ELSE crawl.roots
    <3>1. crawl' = [crawl EXCEPT !.cfg = cfg, !.roots = rs] /\ rootsLeft' = rs
      BY <1>1 DEF Begin
    <3>2. rs \in SUBSET Dirs
      BY DEF CrawlTypes, ControlTypes, Crawl, Config
    <3> HIDE DEF rs
    <3> QED BY <3>1, <3>2 DEF CrawlTypes, ControlTypes, Crawl
  <2>2. CrawlTypes'
    BY <1>1, <2>1 DEF Begin, CrawlTypes, Steps
  <2> QED BY <1>1, <2>2 DEF Begin, TableTypes, ControlTypes
<1>2. CASE BeginFails \/ Cancelled
  <2>1. Abandon /\ faults' \in Nat
    BY <1>2 DEF BeginFails, Cancelled, Fault
  <2>2. CrawlTypes'
    BY <2>1, EmptyIsTable DEF Abandon, CrawlTypes, Steps
  <2> QED BY <2>1, <2>2 DEF Abandon, TableTypes, ControlTypes
<1>3. CASE \E r \in rootsLeft : NextRoot(r) \/ RootFails(r)
  <2> PICK r \in rootsLeft : NextRoot(r) \/ RootFails(r)
    BY <1>3
  <2>1. Listing(r)
    BY DEF NextRoot, RootFails
  <2>2. todo' \subseteq Files
    BY PathAssumption DEF NextRoot, RootFails, CrawlTypes
  <2>3. CrawlTypes'
    BY <2>1, <2>2 DEF Listing, CrawlTypes
  <2>4. faults' \in Nat /\ stable' \subseteq Files
    BY DEF NextRoot, RootFails
  <2> QED BY <2>1, <2>3, <2>4 DEF Listing, TableTypes, ControlTypes
<1>4. CASE \E f \in todo : VisitFile(f) \/ VisitFails(f)
  <2> PICK f \in todo : VisitFile(f) \/ VisitFails(f)
    BY <1>4
  <2>1. Visiting(f) /\ f \in Files
    BY DEF VisitFile, VisitFails, CrawlTypes
  <2>2. IsTable(batch', Nat)
    <3>1. IsTable(batch, Nat) /\ disk[f].ver \in Nat
      BY <2>1 DEF CrawlTypes
    <3>2. IsTable(One(f, disk[f].ver), Nat)
      BY <2>1, <3>1, SingleIsTable
    <3>3. IsTable(Stored(One(f, disk[f].ver), batch), Nat)
      BY <3>1, <3>2, MergeIsTable
    <3>4. batch' = Stored(One(f, disk[f].ver), batch) \/ batch' = batch
      BY DEF VisitFile, VisitFails
    <3> QED BY <3>1, <3>3, <3>4
  <2>3. CrawlTypes'
    BY <2>1, <2>2 DEF Visiting, CrawlTypes
  <2>4. faults' \in Nat /\ stable' \subseteq Files
    BY DEF VisitFile, VisitFails
  <2> QED BY <2>1, <2>3, <2>4 DEF Visiting, TableTypes, ControlTypes
<1>5. CASE flushBatch \/ flushBatchFails
  <2>1. Flushing
    BY <1>5 DEF flushBatch, flushBatchFails
  <2>2. IsTable(row', Row)
    <3>1. CASE flushBatch
      <4> DEFINE new == [f \in DOMAIN batch |-> Upserted(f)]
      <4>1. \A f \in DOMAIN batch : Upserted(f) \in Row
        BY DEF Upserted, TableTypes, CrawlTypes, IsTable, Indexed, Row
      <4>2. IsTable(new, Row)
        BY <4>1 DEF IsTable, CrawlTypes
      <4> QED BY <3>1, <4>2, MergeIsTable DEF flushBatch, TableTypes
    <3>2. CASE flushBatchFails
      BY <3>2 DEF flushBatchFails, TableTypes
    <3> QED BY <1>5, <3>1, <3>2
  <2>3. TableTypes'
    BY <2>1, <2>2 DEF Flushing, TableTypes
  <2>4. CrawlTypes'
    BY <2>1, EmptyIsTable DEF Flushing, CrawlTypes
  <2>5. faults' \in Nat /\ stable' \subseteq Files
    BY <1>5 DEF flushBatch, flushBatchFails, Fault
  <2> QED BY <2>1, <2>3, <2>4, <2>5 DEF Flushing, ControlTypes
<1>6. CASE EndWalk
  <2>1. CrawlTypes'
    BY <1>6 DEF EndWalk, CrawlTypes, Steps, Passes
  <2> QED BY <1>6, <2>1 DEF EndWalk, TableTypes, ControlTypes
<1> QED BY <1>1, <1>2, <1>3, <1>4, <1>5, <1>6

LEMMA PassTypes ==
    ASSUME TypeOK,
           \/ SweepDocs \/ SweepMeta \/ SweepFiles
           \/ CleanDocs \/ PickDocs \/ CleanMeta \/ PickMeta
           \/ EndPass \/ Stamp \/ StatementFails
    PROVE  TypeOK'
<1> USE DEF TypeOK, tables, control
<1>1. CASE \/ SweepDocs \/ SweepMeta \/ SweepFiles
           \/ CleanDocs \/ CleanMeta \/ Stamp \/ StatementFails
  <2> PICK p \in Passes \ {"docs", "meta"} : Passing(p)
    BY <1>1 DEF SweepDocs, SweepMeta, SweepFiles, CleanDocs, CleanMeta, Stamp,
                StatementFails, Statement, Passing, Fault, Passes
  <2>1. pending' = pending /\ faults' \in Nat /\ stable' \subseteq Files
    BY <1>1 DEF SweepDocs, SweepMeta, SweepFiles, CleanDocs, CleanMeta, Stamp,
                StatementFails, Statement, Passing, Fault
  <2>2. CrawlTypes'
    <3>1. pc' \in Steps
      BY DEF Statement, Passing, After, Passes, Steps
    <3> QED BY <2>1, <3>1 DEF Statement, Passing, CrawlTypes
  <2>3. IsTable(doc', Nat) /\ IsTable(met', Nat) /\ IsTable(row', Row)
    BY <1>1, RestrictIsTable
    DEF SweepDocs, SweepMeta, SweepFiles, CleanDocs, CleanMeta, Stamp,
        StatementFails, Statement, Passing, Fault, TableTypes, Indexed
  <2>4. lastFull' \in 0..gen
    BY <1>1 DEF SweepDocs, SweepMeta, SweepFiles, CleanDocs, CleanMeta, Stamp,
                StatementFails, Statement, Passing, Fault
  <2> QED BY <2>1, <2>2, <2>3, <2>4 DEF Statement, Passing, TableTypes, ControlTypes
<1>2. CASE PickDocs \/ PickMeta
  <2> PICK p \in {"pickDocs", "pickMeta"}, cands \in SUBSET Files : Picking(p, cands)
    <3>1. DocCandidates \subseteq Files /\ MetaCandidates \subseteq Files
      BY DEF DocCandidates, MetaCandidates, InScope, TableTypes, IsTable, Indexed
    <3> QED BY <1>2, <3>1 DEF PickDocs, PickMeta
  <2>1. pc' \in Steps
    BY DEF Picking, After, Passes, Steps
  <2>2. CrawlTypes'
    BY <2>1 DEF Picking, CrawlTypes
  <2> QED BY <2>2 DEF Picking, TableTypes, ControlTypes
<1>3. CASE EndPass
  <2>1. pc' \in Steps
    BY <1>3 DEF EndPass, After, Passes, Steps
  <2>2. CrawlTypes'
    BY <1>3, <2>1 DEF EndPass, CrawlTypes
  <2> QED BY <1>3, <2>2 DEF EndPass, TableTypes, ControlTypes
<1> QED BY <1>1, <1>2, <1>3

LEMMA ResultTypes ==
    ASSUME TypeOK,
           \/ \E f \in pending : Extract(f) \/ ExtractFails(f)
           \/ \E B \in SUBSET DOMAIN results :
                \/ flushContent(B) \/ FlushFails("docs", B, ContentBatch)
                \/ flushMeta(B) \/ FlushFails("meta", B, MetaBatch)
    PROVE  TypeOK'
<1> USE DEF TypeOK, tables, control
<1>1. CASE \E f \in pending : Extract(f) \/ ExtractFails(f)
  <2> PICK f \in pending, v \in Nat : /\ Extracting(f, v) /\ faults' \in Nat
                                      /\ stable' \subseteq Files
    <3>1. PICK f \in pending : Extract(f) \/ ExtractFails(f)
      BY <1>1
    <3>2. disk[f].ver \in Nat
      BY DEF CrawlTypes
    <3> QED BY <3>1, <3>2 DEF Extract, ExtractFails
  <2>1. f \in Files
    BY DEF CrawlTypes
  <2>2. IsTable(One(f, v), Nat)
    BY <2>1, SingleIsTable
  <2>3. IsTable(results', Nat)
    BY <2>2, MergeIsTable DEF Extracting, CrawlTypes
  <2>4. CrawlTypes'
    BY <2>3 DEF Extracting, CrawlTypes
  <2> QED BY <2>4 DEF Extracting, TableTypes, ControlTypes
<1>2. ASSUME NEW B \in SUBSET DOMAIN results,
             \/ flushContent(B) \/ FlushFails("docs", B, ContentBatch)
             \/ flushMeta(B) \/ FlushFails("meta", B, MetaBatch)
      PROVE  TypeOK'
  <2>1. PICK p \in {"docs", "meta"} : Flush(p, B)
    BY <1>2 DEF flushContent, flushMeta, FlushFails
  <2>2. CrawlTypes'
    <3>1. IsTable(results', Nat)
      BY <2>1, RestrictIsTable DEF Flush, CrawlTypes
    <3> QED BY <2>1, <3>1 DEF Flush, CrawlTypes
  <2>3. faults' \in Nat /\ stable' \subseteq Files
    BY <1>2 DEF flushContent, flushMeta, FlushFails, Fault
  <2>4. TableTypes'
    <3>1. /\ IsTable(Replaced(doc, B), Nat) /\ IsTable(Replaced(met, B), Nat)
          /\ IsTable(doc, Nat) /\ IsTable(met, Nat) /\ IsTable(row, Row)
      BY ReplacedIsTable DEF TableTypes, CrawlTypes
    <3>2. \A r \in Row : /\ [r EXCEPT !.ci = TRUE] \in Row
                         /\ [r EXCEPT !.me = TRUE] \in Row
      BY DEF Row
    <3>3. CASE flushContent(B)
      BY <3>1, <3>2, <3>3 DEF flushContent, TableTypes, IsTable, Indexed
    <3>4. CASE flushMeta(B)
      BY <3>1, <3>2, <3>4 DEF flushMeta, TableTypes, IsTable, Indexed
    <3> QED BY <1>2, <3>1, <3>3, <3>4 DEF FlushFails, TableTypes
  <2> QED BY <2>1, <2>2, <2>3, <2>4 DEF Flush, ControlTypes
<1> QED BY <1>1, <1>2

LEMMA CrawlStepTypes ==
    ASSUME TypeOK, CrawlStep
    PROVE  TypeOK'
<1>1. CASE EndRead
  <2>1. CrawlTypes'
    BY <1>1 DEF TypeOK, ControlTypes, EndRead, CrawlTypes, Steps
  <2> QED BY <1>1, <2>1 DEF TypeOK, EndRead, TableTypes, ControlTypes, tables, control
<1>2. CASE EndSweep \/ EndSweepFails
  <2>1. EndingSweep
    BY <1>2 DEF EndSweep, EndSweepFails
  <2>2. CrawlTypes'
    BY <2>1, ConfigTypes DEF TypeOK, EndingSweep, CrawlTypes, Steps
  <2>3. TableTypes' /\ faults' \in Nat /\ stable' \subseteq Files /\ missed' \in BOOLEAN
    <3>1. CASE EndSweep
      BY <3>1, SweepCommits DEF TypeOK, EndSweep, CrawlTypes
    <3>2. CASE EndSweepFails
      BY <3>2, SweepRollsBack DEF EndSweepFails
    <3> QED BY <1>2, <3>1, <3>2
  <2>4. ControlTypes'
    BY <2>1 DEF TypeOK, EndingSweep, ControlTypes
  <2> QED BY <2>1, <2>2, <2>3, <2>4 DEF TypeOK, EndingSweep
<1> QED BY <1>1, <1>2, WalkTypes, PassTypes, ResultTypes DEF CrawlStep

LEMMA ClientTypes ==
    ASSUME TypeOK, NEW c \in Clients, ClientStep(c)
    PROVE  TypeOK'
<1>1. client[c] \in Client /\ cfg \in Config /\ client \in [Clients -> Client]
  BY DEF TypeOK, ControlTypes
<1>2. CASE SetRead(c)
  <2>1. [client[c] EXCEPT !.at = "sweep", !.seen = cfg] \in Client
    BY <1>1 DEF Client
  <2>2. client' \in [Clients -> Client]
    BY <1>1, <1>2, <2>1 DEF SetRead, Becomes
  <2> QED BY <1>2, <2>2
          DEF TypeOK, SetRead, TableTypes, CrawlTypes, ControlTypes, tables, crawlVars, control
<1>3. CASE SetSweep(c) \/ SetSweepFails(c)
  <2>1. SettingSweep(c)
    BY <1>3 DEF SetSweep, SetSweepFails
  <2>2. [client[c] EXCEPT !.at = "save", !.seen = AnyConfig] \in Client
    BY <1>1, ConfigTypes DEF Client
  <2>3. client' \in [Clients -> Client]
    BY <1>1, <2>1, <2>2 DEF SettingSweep, Becomes
  <2>4. TableTypes' /\ faults' \in Nat /\ stable' \subseteq Files /\ missed' \in BOOLEAN
    <3>1. CASE SetSweep(c)
      <4>1. client[c].seen \in Config
        BY <1>1 DEF Client
      <4> QED BY <3>1, <4>1, SweepCommits DEF TypeOK, SetSweep
    <3>2. CASE SetSweepFails(c)
      BY <3>2, SweepRollsBack DEF SetSweepFails
    <3> QED BY <1>3, <3>1, <3>2
  <2> QED BY <2>1, <2>3, <2>4
          DEF TypeOK, SettingSweep, CrawlTypes, ControlTypes, crawlVars, control
<1>4. CASE SetSave(c)
  <2>1. client[c].req \in Config
    BY <1>1 DEF Client
  <2>2. client' \in [Clients -> Client]
    BY <1>1, <1>4, ConfigTypes DEF SetSave, Becomes
  <2>3. saved' \in Config /\ faults' \in Nat
    BY <1>4, <2>1 DEF TypeOK, SetSave, ControlTypes
  <2> QED BY <1>4, <2>2, <2>3
          DEF TypeOK, SetSave, TableTypes, CrawlTypes, ControlTypes, tables, crawlVars
<1> QED BY <1>2, <1>3, <1>4 DEF ClientStep

LEMMA EnvironmentTypes ==
    ASSUME TypeOK, Environment
    PROVE  TypeOK'
<1>1. CASE \E f \in Files : Write(f) \/ Remove(f)
  <2> PICK f \in Files : Write(f) \/ Remove(f)
    BY <1>1
  <2>1. disk' \in [Files -> [there : BOOLEAN, ver : Nat]]
    <3>1. PICK b \in BOOLEAN :
             disk' = [disk EXCEPT ![f] = [there |-> b, ver |-> disk[f].ver + 1]]
      BY DEF Write, Remove
    <3>2. disk \in [Files -> [there : BOOLEAN, ver : Nat]]
      BY DEF TypeOK
    <3>3. [there |-> b, ver |-> disk[f].ver + 1] \in [there : BOOLEAN, ver : Nat]
      BY <3>2
    <3> QED BY <3>1, <3>2, <3>3
  <2>2. stable' \subseteq Files
    BY DEF TypeOK, Write, Remove
  <2> QED BY <2>1, <2>2 DEF TypeOK, Write, Remove, TableTypes, CrawlTypes, ControlTypes,
                      tables, crawlVars, control
<1>2. CASE Rescan(TRUE, {}) \/ \E d \in Dirs : Rescan(FALSE, {d})
  <2> PICK full \in BOOLEAN, ds \in SUBSET Dirs : Rescan(full, ds)
    BY <1>2
  <2>1. tested' \subseteq Call
    BY DEF Rescan, Call
  <2> QED BY <2>1 DEF TypeOK, Rescan, TableTypes, CrawlTypes, ControlTypes, tables,
                      crawlVars
<1>3. CASE \E c \in Clients, new \in Configs : SetConfig(c, new)
  <2> PICK c \in Clients, new \in Configs : SetConfig(c, new)
    BY <1>3
  <2>1. new \in Config
    BY ConfigTypes
  <2>2. [IdleClient EXCEPT !.at = "read", !.req = new] \in Client
    BY <2>1, ConfigTypes DEF Client
  <2>3. client' \in [Clients -> Client]
    BY <2>2 DEF TypeOK, ControlTypes, SetConfig, Becomes
  <2> QED BY <2>1, <2>3 DEF TypeOK, SetConfig, TableTypes, CrawlTypes, ControlTypes,
                            tables, crawlVars
<1>4. CASE Pause
  BY <1>4 DEF TypeOK, Pause, TableTypes, CrawlTypes, ControlTypes, tables, crawlVars
<1>5. CASE Close
  BY <1>5 DEF TypeOK, Close, Closing, TableTypes, CrawlTypes, ControlTypes, tables, crawlVars
<1>6. CASE Reboot
  <2>1. cfg' \in Config
    BY <1>6, ConfigTypes DEF TypeOK, ControlTypes, Reboot
  <2>2. TableTypes' /\ faults' \in Nat /\ missed' \in BOOLEAN
    <3>1. CASE sweepOutsideRoots(cfg') /\ missed' = FALSE /\ faults' = faults
      BY <2>1, <3>1, SweepTypes DEF TypeOK
    <3>2. CASE faults' = faults + 1 /\ missed' = TRUE /\ UNCHANGED tables
      BY <3>2 DEF TypeOK, TableTypes, tables
    <3> QED BY <1>6, <3>1, <3>2 DEF Reboot
  <2>3. CrawlTypes'
    BY <1>6, ConfigTypes, EmptyIsTable DEF Reboot, CrawlTypes, Steps
  <2>4. ControlTypes'
    BY <1>6, <2>1, ConfigTypes DEF TypeOK, Reboot, ControlTypes
  <2> QED BY <1>6, <2>2, <2>3, <2>4 DEF TypeOK, Reboot
<1> QED BY <1>1, <1>2, <1>3, <1>4, <1>5, <1>6 DEF Environment

\* What starting a crawl and closing the service leave alone: they touch the
\* holder of crawlBusy only before its crawl begins.
StartsOrCloses ==
    /\ UNCHANGED <<disk, tables, gen, lastFull, cfg, saved, rootsLeft, todo, batch,
                   pending, results, sweepCfg, client, sets, faults, boots,
                   stable, missed>>
    /\ \/ UNCHANGED <<pc, crawl>>
       \/ pc \in {"off"} \union Starting /\ pc' \in Starting \union {"begin"}

LEMMA StartingOrClosing ==
    ASSUME \/ RescanStep \/ CloseStep \/ Pause \/ Close
           \/ Rescan(TRUE, {}) \/ \E d \in Dirs : Rescan(FALSE, {d})
    PROVE  StartsOrCloses
<1>1. CASE RescanStep
  BY <1>1 DEF RescanStep, Claim, Register, Spawn, Advance, Starting, StartsOrCloses,
     control
<1>2. CASE CloseStep \/ Pause \/ Close
  BY <1>2 DEF CloseStep, CloseCancels, CloseStore, Pause, Close, Closing,
     StartsOrCloses, crawlVars
<1>3. CASE Rescan(TRUE, {}) \/ \E d \in Dirs : Rescan(FALSE, {d})
  BY <1>3 DEF Rescan, StartsOrCloses, crawlVars
<1> QED BY <1>1, <1>2, <1>3

LEMMA StartingTypes ==
    ASSUME TypeOK, RescanStep \/ CloseStep
    PROVE  TypeOK'
<1>1. StartsOrCloses
  BY StartingOrClosing
<1>2. crawl' \in Crawl /\ pc' \in Steps /\ ControlTypes'
  <2>1. CASE \E call \in tested : Claim(call)
    <3> PICK call \in tested : Claim(call)
      BY <2>1
    <3>1. [NoCrawl EXCEPT !.roots = call.roots, !.full = call.full] \in Crawl
      BY ConfigTypes DEF TypeOK, ControlTypes, Call, Crawl
    <3> QED BY <3>1 DEF TypeOK, CrawlTypes, ControlTypes, Claim, Steps, Starting
  <2>2. CASE Register \/ Spawn
    BY <2>2 DEF TypeOK, CrawlTypes, ControlTypes, Register, Spawn, Advance, Steps,
       Starting, control
  <2>3. CASE CloseStep
    BY <2>3 DEF TypeOK, CrawlTypes, ControlTypes, CloseStep, CloseCancels, CloseStore,
       Closing, crawlVars
  <2> QED BY <2>1, <2>2, <2>3 DEF RescanStep
<1> QED BY <1>1, <1>2 DEF StartsOrCloses, TypeOK, TableTypes, CrawlTypes, tables

LEMMA StutterTypes == TypeOK /\ UNCHANGED vars => TypeOK'
BY DEF TypeOK, vars, TableTypes, CrawlTypes, ControlTypes, tables, crawlVars, control

\* Whatever crawls, requests, faults and restarts do, the tables stay partial
\* functions of the path with rows of the declared shape, and the full-scan
\* stamp never names a crawl that has not begun.
THEOREM TypeCorrect == Spec => []TypeOK
<1>1. TypeOK /\ [Next]_vars => TypeOK'
  BY CrawlStepTypes, StartingTypes, ClientTypes, EnvironmentTypes, StutterTypes DEF Next
<1> QED BY InitTypes, <1>1, PTL DEF Spec

-----------------------------------------------------------------------------
(* The index is confined to the live configuration.                        *)

\* A sweep confines the index to the configuration it runs with.
LEMMA SweepConfines ==
    ASSUME TypeOK, sweepOutsideRoots(cfg')
    PROVE  Confined'
<1>1. row \in [Indexed -> Row]
  BY DEF TypeOK, TableTypes, IsTable, Indexed
<1>2. DOMAIN row' = Indexed \intersect prefixCond(cfg'.roots)
  BY DEF sweepOutsideRoots
<1>3. \A f \in DOMAIN row' : f \notin Included(cfg') => ~row'[f].ci
  BY <1>1 DEF sweepOutsideRoots, Row
<1>4. /\ DOMAIN doc' \subseteq prefixCond(cfg'.roots) \intersect Included(cfg')
      /\ DOMAIN met' \subseteq prefixCond(cfg'.roots)
  BY DEF sweepOutsideRoots, Restrict
<1> QED BY <1>2, <1>3, <1>4 DEF Confined, Indexed, prefixCond, Included

\* A sweep with any other configuration does not undo that.
LEMMA SweepKeepsConfined ==
    ASSUME TypeOK, Confined, cfg' = cfg, NEW c, sweepOutsideRoots(c)
    PROVE  Confined'
<1>1. row \in [Indexed -> Row]
  BY DEF TypeOK, TableTypes, IsTable, Indexed
<1>2. DOMAIN row' \subseteq Indexed
  BY DEF sweepOutsideRoots
<1>3. \A f \in DOMAIN row' : row'[f].ci => row[f].ci
  BY <1>1 DEF sweepOutsideRoots, Row
<1>4. DOMAIN doc' \subseteq DOMAIN doc /\ DOMAIN met' \subseteq DOMAIN met
  BY DEF sweepOutsideRoots, Restrict
<1> QED BY <1>2, <1>3, <1>4 DEF Confined, Indexed, prefixCond, Included

\* What holds after a sweep that committed, if no sweep is ahead by then.
LEMMA AfterSweep ==
    ASSUME TypeOK, cfg' = cfg, NEW c, Commits(c),
           c = cfg \/ missed \/ Confined
    PROVE  missed' \/ Confined'
<1>1. CASE c = cfg
  BY <1>1, SweepConfines DEF Commits
<1>2. CASE c # cfg /\ missed
  BY <1>2 DEF Commits
<1>3. CASE Confined
  BY <1>3, SweepKeepsConfined DEF Commits
<1> QED BY <1>1, <1>2, <1>3

LEMMA ConfinedFrame ==
    ASSUME ConfinedOrSwept, UNCHANGED <<tables, cfg, pc, sweepCfg, client, missed>>
    PROVE  ConfinedOrSwept'
BY DEF ConfinedOrSwept, SweepAhead, Confined, Indexed, Included, prefixCond, tables

\* Every step of the crawl but its last leaves its own sweep ahead.
LEMMA CrawlLeavesSweepAhead ==
    ASSUME CrawlStep, ~EndSweep, ~EndSweepFails
    PROVE  SweepAhead'
<1>1. CASE Begin \/ BeginFails \/ Cancelled
  BY <1>1 DEF Begin, BeginFails, Cancelled, Abandon, SweepAhead, Working
<1>2. CASE (\E r \in rootsLeft : NextRoot(r) \/ RootFails(r)) \/ EndWalk
  BY <1>2 DEF NextRoot, RootFails, Listing, EndWalk, SweepAhead, Working, Passes
<1>3. CASE \E f \in todo : VisitFile(f) \/ VisitFails(f)
  BY <1>3 DEF VisitFile, VisitFails, Visiting, SweepAhead, Working
<1>4. CASE flushBatch \/ flushBatchFails
  BY <1>4 DEF flushBatch, flushBatchFails, Flushing, SweepAhead, Working
<1>5. CASE \/ SweepDocs \/ SweepMeta \/ SweepFiles
           \/ CleanDocs \/ CleanMeta \/ Stamp \/ StatementFails
  <2> PICK p \in Passes \ {"docs", "meta"} : Passing(p)
    BY <1>5 DEF SweepDocs, SweepMeta, SweepFiles, CleanDocs, CleanMeta, Stamp,
                StatementFails, Statement, Passing, Fault, Passes
  <2> QED BY DEF Statement, Passing, After, SweepAhead, Working, Passes
<1>6. CASE PickDocs \/ PickMeta
  BY <1>6 DEF PickDocs, PickMeta, Picking, After, SweepAhead, Working, Passes
<1>7. CASE \E f \in pending : Extract(f) \/ ExtractFails(f)
  BY <1>7 DEF Extract, ExtractFails, Extracting, SweepAhead, Working, Passes
<1>8. CASE \E B \in SUBSET DOMAIN results :
             \/ flushContent(B) \/ FlushFails("docs", B, ContentBatch)
             \/ flushMeta(B) \/ FlushFails("meta", B, MetaBatch)
  BY <1>8 DEF flushContent, flushMeta, FlushFails, Flush, SweepAhead, Working, Passes
<1>9. CASE EndPass
  BY <1>9 DEF EndPass, After, SweepAhead, Working, Passes
<1>10. CASE EndRead
  BY <1>10 DEF EndRead, control, SweepAhead
<1> QED BY <1>1, <1>2, <1>3, <1>4, <1>5, <1>6, <1>7, <1>8, <1>9, <1>10 DEF CrawlStep

LEMMA CrawlConfines ==
    ASSUME TypeOK, ConfinedOrSwept, CrawlStep
    PROVE  ConfinedOrSwept'
<1>1. CASE EndSweep
  <2>1. cfg' = cfg /\ client' = client /\ pc = "endSweep"
    BY <1>1 DEF EndSweep, EndingSweep
  <2>2. CASE sweepCfg = cfg \/ missed \/ Confined
    BY <1>1, <2>1, <2>2, AfterSweep DEF EndSweep, ConfinedOrSwept
  <2>3. CASE sweepCfg # cfg /\ SweepAhead
    BY <2>1, <2>3 DEF ConfinedOrSwept, SweepAhead, Working, Passes
  <2> QED BY <2>2, <2>3 DEF ConfinedOrSwept
<1>2. CASE EndSweepFails
  BY <1>2 DEF EndSweepFails, RollsBack, ConfinedOrSwept
<1> QED BY <1>1, <1>2, CrawlLeavesSweepAhead DEF ConfinedOrSwept

LEMMA ClientConfines ==
    ASSUME TypeOK, ConfinedOrSwept, NEW c \in Clients, ClientStep(c)
    PROVE  ConfinedOrSwept'
<1>1. client \in [Clients -> Client]
  BY DEF TypeOK, ControlTypes
<1>2. CASE SetRead(c)
  BY <1>1, <1>2 DEF SetRead, Becomes, control, Client, ConfinedOrSwept, SweepAhead
<1>3. CASE SetSweep(c)
  <2>1. /\ cfg' = cfg /\ pc' = pc /\ sweepCfg' = sweepCfg /\ client[c].at = "sweep"
        /\ \A d \in Clients \ {c} : client'[d] = client[d]
    BY <1>1, <1>3 DEF SetSweep, SettingSweep, Becomes, control, crawlVars
  <2>2. CASE client[c].seen = cfg \/ missed \/ Confined
    BY <1>3, <2>1, <2>2, AfterSweep DEF SetSweep, ConfinedOrSwept
  <2>3. CASE client[c].seen # cfg /\ SweepAhead
    BY <2>1, <2>3 DEF ConfinedOrSwept, SweepAhead
  <2> QED BY <2>2, <2>3 DEF ConfinedOrSwept
<1>4. CASE SetSweepFails(c)
  BY <1>4 DEF SetSweepFails, RollsBack, ConfinedOrSwept
<1>5. CASE SetSave(c)
  <2>1. /\ UNCHANGED <<tables, cfg, pc, sweepCfg, missed>> /\ client[c].at = "save"
        /\ \A d \in Clients \ {c} : client'[d] = client[d]
    BY <1>1, <1>5 DEF SetSave, Becomes, crawlVars
  <2>2. SweepAhead => SweepAhead'
    BY <2>1 DEF SweepAhead
  <2>3. Confined => Confined'
    BY <2>1 DEF Confined, Indexed, Included, prefixCond, tables
  <2> QED BY <2>1, <2>2, <2>3 DEF ConfinedOrSwept
<1> QED BY <1>2, <1>3, <1>4, <1>5 DEF ClientStep

LEMMA StartingConfines ==
    ASSUME ConfinedOrSwept, StartsOrCloses
    PROVE  ConfinedOrSwept'
<1>1. CASE UNCHANGED <<pc, crawl>>
  BY <1>1, ConfinedFrame DEF StartsOrCloses
<1>2. CASE pc \in {"off"} \union Starting /\ pc' \in Starting \union {"begin"}
  <2>1. SweepAhead => SweepAhead'
    BY <1>2 DEF StartsOrCloses, SweepAhead, Working, Passes, Starting
  <2>2. Confined => Confined'
    BY DEF StartsOrCloses, Confined, Indexed, Included, prefixCond, tables
  <2> QED BY <2>1, <2>2 DEF ConfinedOrSwept, StartsOrCloses
<1> QED BY <1>1, <1>2 DEF StartsOrCloses

LEMMA EnvironmentConfines ==
    ASSUME TypeOK, ConfinedOrSwept, Environment
    PROVE  ConfinedOrSwept'
<1>1. CASE \E f \in Files : Write(f) \/ Remove(f)
  BY <1>1, ConfinedFrame DEF Write, Remove, control, crawlVars
<1>2. CASE \/ Rescan(TRUE, {}) \/ \E d \in Dirs : Rescan(FALSE, {d})
           \/ Pause \/ Close
  BY <1>2, StartingOrClosing, StartingConfines
<1>3. CASE \E c \in Clients, new \in Configs : SetConfig(c, new)
  <2> PICK c \in Clients, new \in Configs : SetConfig(c, new)
    BY <1>3
  <2>1. client \in [Clients -> Client]
    BY DEF TypeOK, ControlTypes
  <2>2. [IdleClient EXCEPT !.at = "read", !.req = new].at = "read"
    BY ConfigTypes DEF Client
  <2>3. client'[c].at = "read"
    BY <2>1, <2>2 DEF SetConfig, Becomes
  <2> QED BY <2>3 DEF ConfinedOrSwept, SweepAhead
<1>4. CASE Reboot
  BY <1>4, SweepConfines DEF Reboot, ConfinedOrSwept
<1> QED BY <1>1, <1>2, <1>3, <1>4 DEF Environment

\* Whatever crawls, requests, failed statements and restarts overlap, the
\* index is confined, or a sweep that will confine it is ahead, or the last
\* sweep that could have confined it failed.
THEOREM AlwaysConfinedOrSwept == Spec => []ConfinedOrSwept
<1>1. Init => ConfinedOrSwept
  BY DEF Init, ConfinedOrSwept, Confined, Indexed, Empty
<1>2. TypeOK /\ ConfinedOrSwept /\ [Next]_vars => ConfinedOrSwept'
  <2>1. ConfinedOrSwept /\ UNCHANGED vars => ConfinedOrSwept'
    BY ConfinedFrame DEF vars, control, crawlVars
  <2>2. ConfinedOrSwept /\ (RescanStep \/ CloseStep) => ConfinedOrSwept'
    BY StartingOrClosing, StartingConfines
  <2> QED BY <2>1, <2>2, CrawlConfines, ClientConfines, EnvironmentConfines DEF Next
<1> QED BY <1>1, <1>2, TypeCorrect, PTL DEF Spec

\* So, once no crawl runs and every SetConfig has swept, and no sweep failed,
\* nothing outside the live configuration can be found.
THEOREM QuietIndexIsConfined == Spec => []ConfinedWhenQuiet
<1>1. ConfinedOrSwept => ConfinedWhenQuiet
  BY DEF ConfinedOrSwept, ConfinedWhenQuiet, Quiet, SweepAhead, Working, Passes
<1> QED BY <1>1, AlwaysConfinedOrSwept, PTL

-----------------------------------------------------------------------------
(* What is marked as processed is not older than its row.                  *)

\* A step that writes nothing into a table, a batch or the results: it may
\* delete, clear marks and let the disk move on.
OnlyDeletes ==
    /\ \A f \in DOMAIN row' : /\ f \in Indexed /\ row'[f].ver = row[f].ver
                              /\ row'[f].ci => row[f].ci
                              /\ row'[f].me => row[f].me
    /\ \A f \in DOMAIN doc' : f \in DOMAIN doc /\ doc'[f] = doc[f]
    /\ \A f \in DOMAIN met' : f \in DOMAIN met /\ met'[f] = met[f]

\* The same of what a crawl holds in memory.
OnlyForgets ==
    /\ \A f \in DOMAIN batch' : f \in DOMAIN batch /\ batch'[f] = batch[f]
    /\ \A f \in DOMAIN results' : f \in DOMAIN results /\ results'[f] = results[f]
    /\ pc' \notin {"docs", "meta"} => DOMAIN results' = {}

OnlyAdvances == \A f \in Files : disk'[f].ver >= disk[f].ver

\* The types the arguments about versions need.
VersionTypes ==
    /\ Indexed \subseteq Files /\ row \in [Indexed -> Row]
    /\ doc \in [DOMAIN doc -> Nat] /\ met \in [DOMAIN met -> Nat]
    /\ DOMAIN batch \subseteq Files /\ batch \in [DOMAIN batch -> Nat]
    /\ DOMAIN results \subseteq Files /\ results \in [DOMAIN results -> Nat]
    /\ disk \in [Files -> [there : BOOLEAN, ver : Nat]]
    /\ pending \subseteq Files /\ todo \subseteq Files

LEMMA VersionsTyped == TypeOK => VersionTypes
BY DEF TypeOK, TableTypes, CrawlTypes, IsTable, VersionTypes, Indexed

LEMMA DeletingIsFresh ==
    ASSUME VersionTypes, VersionTypes', FreshByOrder,
           OnlyDeletes, OnlyForgets, OnlyAdvances
    PROVE  FreshByOrder'
<1>1. \A f \in DOMAIN row' : row'[f].ver <= disk'[f].ver
  <2> TAKE f \in DOMAIN row'
  <2>1. row'[f].ver = row[f].ver /\ row[f].ver <= disk[f].ver /\ f \in Files
    BY DEF OnlyDeletes, FreshByOrder, VersionTypes
  <2>2. disk'[f].ver >= disk[f].ver /\ disk'[f].ver \in Nat /\ disk[f].ver \in Nat
        /\ row[f].ver \in Nat
    BY <2>1 DEF OnlyAdvances, VersionTypes, Row, OnlyDeletes
  <2> QED BY <2>1, <2>2
<1>2. \A f \in DOMAIN batch' : batch'[f] <= disk'[f].ver
  <2> TAKE f \in DOMAIN batch'
  <2>1. batch'[f] = batch[f] /\ batch[f] <= disk[f].ver /\ f \in Files
    BY DEF OnlyForgets, FreshByOrder, VersionTypes
  <2>2. disk'[f].ver >= disk[f].ver /\ disk'[f].ver \in Nat /\ disk[f].ver \in Nat
        /\ batch[f] \in Nat
    BY <2>1 DEF OnlyAdvances, OnlyForgets, VersionTypes
  <2> QED BY <2>1, <2>2
<1>3. \A f \in DOMAIN row' \intersect DOMAIN results' :
         results'[f] > 0 => results'[f] >= row'[f].ver
  BY DEF OnlyDeletes, OnlyForgets, FreshByOrder
<1>4. MarksAreFresh'
  BY DEF OnlyDeletes, FreshByOrder, MarksAreFresh, Indexed
<1> QED BY <1>1, <1>2, <1>3, <1>4 DEF FreshByOrder, OnlyForgets, Indexed

LEMMA NoWriteOnlyDeletes == UNCHANGED tables => OnlyDeletes
BY DEF tables, OnlyDeletes, Indexed

LEMMA NoChangeOnlyForgets ==
    ASSUME FreshByOrder, UNCHANGED <<batch, results, pc>>
    PROVE  OnlyForgets
BY DEF FreshByOrder, OnlyForgets

LEMMA NoChangeOnlyAdvances == VersionTypes /\ disk' = disk => OnlyAdvances
BY DEF OnlyAdvances, VersionTypes

LEMMA SweepOnlyDeletes ==
    ASSUME VersionTypes, NEW c, sweepOutsideRoots(c)
    PROVE  OnlyDeletes
<1>1. \A f \in DOMAIN row' : /\ f \in Indexed /\ row'[f].ver = row[f].ver
                             /\ row'[f].ci => row[f].ci
                             /\ row'[f].me => row[f].me
  BY DEF VersionTypes, sweepOutsideRoots, Row
<1> QED BY <1>1 DEF sweepOutsideRoots, OnlyDeletes, Restrict

LEMMA PassFresh ==
    ASSUME VersionTypes, VersionTypes', FreshByOrder,
           \/ SweepDocs \/ SweepMeta \/ SweepFiles
           \/ CleanDocs \/ CleanMeta \/ Stamp \/ StatementFails
           \/ PickDocs \/ PickMeta \/ EndPass \/ EndRead
    PROVE  FreshByOrder'
<1>1. CASE \/ SweepDocs \/ SweepMeta \/ SweepFiles
           \/ CleanDocs \/ CleanMeta \/ Stamp \/ StatementFails
  <2> PICK p \in Passes \ {"docs", "meta"} : Passing(p)
    BY <1>1 DEF SweepDocs, SweepMeta, SweepFiles, CleanDocs, CleanMeta, Stamp,
                StatementFails, Statement, Passing, Fault, Passes
  <2>1. OnlyDeletes
    BY <1>1 DEF SweepDocs, SweepMeta, SweepFiles, CleanDocs, CleanMeta, Stamp,
                StatementFails, Statement, Passing, Fault, OnlyDeletes, Restrict, Indexed, tables
  <2>2. OnlyForgets
    BY DEF Statement, Passing, After, Passes, OnlyForgets, FreshByOrder
  <2> QED BY <2>1, <2>2, NoChangeOnlyAdvances, DeletingIsFresh DEF Statement, Passing
<1>2. CASE PickDocs \/ PickMeta
  <2> PICK p \in {"pickDocs", "pickMeta"}, cands \in {DocCandidates, MetaCandidates} : Picking(p, cands)
    BY <1>2 DEF PickDocs, PickMeta
  <2>1. OnlyForgets
    BY DEF Picking, After, OnlyForgets, FreshByOrder
  <2> QED BY <2>1, NoWriteOnlyDeletes, NoChangeOnlyAdvances, DeletingIsFresh DEF Picking
<1>3. CASE EndPass
  <2>1. OnlyForgets
    BY <1>3 DEF EndPass, Empty, OnlyForgets
  <2> QED BY <1>3, <2>1, NoWriteOnlyDeletes, NoChangeOnlyAdvances, DeletingIsFresh DEF EndPass
<1>4. CASE EndRead
  <2>1. OnlyForgets
    BY <1>4 DEF EndRead, OnlyForgets, FreshByOrder
  <2> QED BY <1>4, <2>1, NoWriteOnlyDeletes, NoChangeOnlyAdvances, DeletingIsFresh DEF EndRead
<1> QED BY <1>1, <1>2, <1>3, <1>4

LEMMA AbandonFresh ==
    ASSUME VersionTypes, VersionTypes', FreshByOrder, Abandon
    PROVE  FreshByOrder'
<1>1. OnlyForgets
  BY DEF Abandon, OnlyForgets, Empty
<1> QED BY <1>1, NoWriteOnlyDeletes, NoChangeOnlyAdvances, DeletingIsFresh DEF Abandon

LEMMA WalkFresh ==
    ASSUME VersionTypes, VersionTypes', FreshByOrder,
           \/ Begin \/ EndWalk
           \/ \E r \in rootsLeft : NextRoot(r) \/ RootFails(r)
           \/ \E f \in todo : VisitFile(f) \/ VisitFails(f)
           \/ flushBatch \/ flushBatchFails
    PROVE  FreshByOrder'
<1>1. CASE Begin \/ EndWalk \/ \E r \in rootsLeft : NextRoot(r) \/ RootFails(r)
  <2>1. OnlyForgets /\ UNCHANGED tables /\ disk' = disk
    BY <1>1 DEF Begin, EndWalk, NextRoot, RootFails, Listing, OnlyForgets, FreshByOrder
  <2> QED BY <2>1, NoWriteOnlyDeletes, NoChangeOnlyAdvances, DeletingIsFresh
<1>2. CASE \E f \in todo : VisitFile(f) \/ VisitFails(f)
  <2> PICK f \in todo : VisitFile(f) \/ VisitFails(f)
    BY <1>2
  <2>1. Visiting(f) /\ f \in Files
    BY DEF VisitFile, VisitFails, VersionTypes
  <2>2. \A g \in DOMAIN batch' : batch'[g] <= disk[g].ver
    <3>1. CASE batch' = batch
      BY <3>1 DEF FreshByOrder
    <3>2. CASE batch' = Stored(One(f, disk[f].ver), batch)
      <4> TAKE g \in DOMAIN batch'
      <4>1. CASE g = f
        BY <2>1, <3>2, <4>1 DEF Stored, One, VersionTypes
      <4>2. CASE g # f
        BY <3>2, <4>2 DEF Stored, One, FreshByOrder
      <4> QED BY <4>1, <4>2
    <3> QED BY <3>1, <3>2 DEF VisitFile, VisitFails
  <2> QED BY <2>1, <2>2 DEF Visiting, FreshByOrder, MarksAreFresh, Indexed, tables
<1>3. CASE flushBatch
  <2>1. \A f \in DOMAIN batch : /\ Upserted(f).ver = batch[f]
                                /\ Upserted(f).ci => f \in Indexed /\ Upserted(f).ver = row[f].ver
                                                     /\ row[f].ci
                                /\ Upserted(f).me => f \in Indexed /\ Upserted(f).ver = row[f].ver
                                                     /\ row[f].me
    BY DEF Upserted, VersionTypes, Row
  <2>2. row' = Stored([f \in DOMAIN batch |-> Upserted(f)], row)
    BY <1>3 DEF flushBatch
  <2>3. \A f \in DOMAIN row' : \/ f \in DOMAIN batch /\ row'[f] = Upserted(f)
                               \/ f \in Indexed /\ row'[f] = row[f]
    BY <2>2 DEF Stored, Indexed
  <2>4. /\ UNCHANGED <<disk, doc, met, pc, results>> /\ DOMAIN batch' = {}
        /\ pc = "walk"
    BY <1>3 DEF flushBatch, Flushing, Empty
  <2>5. DOMAIN results = {}
    BY <2>4 DEF FreshByOrder
  <2>6. \A f \in DOMAIN row' : row'[f].ver <= disk[f].ver
    BY <2>1, <2>3 DEF FreshByOrder
  <2>7. \A f \in DOMAIN row' : /\ row'[f].ci => f \in Indexed /\ row[f].ci /\ row'[f].ver = row[f].ver
                               /\ row'[f].me => f \in Indexed /\ row[f].me /\ row'[f].ver = row[f].ver
    BY <2>1, <2>3
  <2>8. MarksAreFresh'
    BY <2>4, <2>7 DEF FreshByOrder, MarksAreFresh, Indexed
  <2> QED BY <2>4, <2>5, <2>6, <2>8 DEF FreshByOrder, Indexed
<1>4. CASE flushBatchFails
  <2>1. OnlyForgets /\ UNCHANGED tables /\ disk' = disk
    BY <1>4 DEF flushBatchFails, Flushing, Empty, OnlyForgets, FreshByOrder, tables
  <2> QED BY <2>1, NoWriteOnlyDeletes, NoChangeOnlyAdvances, DeletingIsFresh
<1> QED BY <1>1, <1>2, <1>3, <1>4

LEMMA ExtractFresh ==
    ASSUME VersionTypes, VersionTypes', FreshByOrder,
           NEW f \in pending, Extract(f) \/ ExtractFails(f)
    PROVE  FreshByOrder'
<1> PICK v \in {0, disk[f].ver} : Extracting(f, v)
  BY DEF Extract, ExtractFails
<1>1. f \in Files /\ disk[f].ver \in Nat
  BY DEF VersionTypes
<1>2. results' = Stored(One(f, v), results)
  BY DEF Extracting
<1>3. \A g \in Indexed \intersect DOMAIN results' : results'[g] > 0 => results'[g] >= row[g].ver
  <2> TAKE g \in Indexed \intersect DOMAIN results'
  <2>1. CASE g = f
    <3>1. results'[g] = v
      BY <1>2, <2>1 DEF Stored, One
    <3>2. row[g].ver <= disk[f].ver /\ row[g].ver \in Nat
      BY <2>1 DEF FreshByOrder, VersionTypes, Row
    <3> QED BY <1>1, <3>1, <3>2
  <2>2. CASE g # f
    BY <1>2, <2>2 DEF Stored, One, FreshByOrder
  <2> QED BY <2>1, <2>2
<1> QED BY <1>3 DEF Extracting, FreshByOrder, MarksAreFresh, Indexed, tables

\* Replacing the entries of B leaves fresh ones for rows of the same version.
LEMMA ReplacedIsFresh ==
    ASSUME VersionTypes, FreshByOrder, NEW B \in SUBSET DOMAIN results, NEW t,
           NEW f \in Indexed, f \in DOMAIN Replaced(t, B)
    PROVE  \/ f \in B /\ Replaced(t, B)[f] >= row[f].ver
           \/ f \notin B /\ f \in DOMAIN t /\ Replaced(t, B)[f] = t[f]
<1> DEFINE found == {g \in B : results[g] > 0}
<1>1. Replaced(t, B) = Stored(Restrict(results, found), Restrict(t, DOMAIN t \ B))
  BY DEF Replaced
<1>2. CASE f \in found
  BY <1>1, <1>2 DEF Stored, Restrict, FreshByOrder
<1>3. CASE f \notin found
  BY <1>1, <1>3 DEF Stored, Restrict
<1> QED BY <1>2, <1>3

LEMMA FlushFresh ==
    ASSUME VersionTypes, VersionTypes', FreshByOrder,
           NEW B \in SUBSET DOMAIN results,
           \/ flushContent(B) \/ FlushFails("docs", B, ContentBatch)
           \/ flushMeta(B) \/ FlushFails("meta", B, MetaBatch)
    PROVE  FreshByOrder'
<1> PICK p \in {"docs", "meta"} : Flush(p, B)
  BY DEF flushContent, flushMeta, FlushFails
<1>1. OnlyForgets /\ batch' = batch /\ disk' = disk
  BY DEF Flush, OnlyForgets, Restrict
<1>2. CASE UNCHANGED tables
  BY <1>1, <1>2, NoWriteOnlyDeletes, NoChangeOnlyAdvances, DeletingIsFresh
<1>3. CASE flushContent(B)
  <2>1. /\ DOMAIN row' = Indexed /\ met' = met /\ doc' = Replaced(doc, B)
        /\ \A f \in Indexed : /\ row'[f].ver = row[f].ver /\ row'[f].me = row[f].me
                              /\ f \notin B => row'[f] = row[f]
    BY <1>3 DEF flushContent, VersionTypes, Row, Indexed
  <2>2. MarksAreFresh'
    <3> SUFFICES ASSUME NEW f \in Indexed
                 PROVE  /\ row'[f].ci /\ f \in DOMAIN doc' => doc'[f] >= row'[f].ver
                        /\ row'[f].me /\ f \in DOMAIN met' => met'[f] >= row'[f].ver
      BY <2>1 DEF MarksAreFresh, Indexed
    <3>1. row'[f].me /\ f \in DOMAIN met' => met'[f] >= row'[f].ver
      BY <2>1 DEF FreshByOrder, MarksAreFresh
    <3>2. row'[f].ci /\ f \in DOMAIN doc' => doc'[f] >= row'[f].ver
      BY <2>1, ReplacedIsFresh DEF FreshByOrder, MarksAreFresh
    <3> QED BY <3>1, <3>2
  <2> QED BY <1>1, <2>1, <2>2 DEF FreshByOrder, OnlyForgets, Indexed
<1>4. CASE flushMeta(B) /\ ~UNCHANGED tables
  <2>1. /\ DOMAIN row' = Indexed /\ doc' = doc /\ met' = Replaced(met, B)
        /\ \A f \in Indexed : /\ row'[f].ver = row[f].ver /\ row'[f].ci = row[f].ci
                              /\ f \notin B => row'[f] = row[f]
    BY <1>4 DEF flushMeta, tables, VersionTypes, Row, Indexed
  <2>2. MarksAreFresh'
    <3> SUFFICES ASSUME NEW f \in Indexed
                 PROVE  /\ row'[f].ci /\ f \in DOMAIN doc' => doc'[f] >= row'[f].ver
                        /\ row'[f].me /\ f \in DOMAIN met' => met'[f] >= row'[f].ver
      BY <2>1 DEF MarksAreFresh, Indexed
    <3>1. row'[f].ci /\ f \in DOMAIN doc' => doc'[f] >= row'[f].ver
      BY <2>1 DEF FreshByOrder, MarksAreFresh
    <3>2. row'[f].me /\ f \in DOMAIN met' => met'[f] >= row'[f].ver
      BY <2>1, ReplacedIsFresh DEF FreshByOrder, MarksAreFresh
    <3> QED BY <3>1, <3>2
  <2> QED BY <1>1, <2>1, <2>2 DEF FreshByOrder, OnlyForgets, Indexed
<1> QED BY <1>2, <1>3, <1>4 DEF FlushFails

LEMMA SweepingFresh ==
    ASSUME VersionTypes, VersionTypes', FreshByOrder, disk' = disk, OnlyForgets,
           UNCHANGED tables \/ \E c \in Config : sweepOutsideRoots(c)
    PROVE  FreshByOrder'
BY NoWriteOnlyDeletes, SweepOnlyDeletes, NoChangeOnlyAdvances, DeletingIsFresh

LEMMA CrawlFresh ==
    ASSUME TypeOK, VersionTypes, VersionTypes', FreshByOrder, CrawlStep
    PROVE  FreshByOrder'
<1>1. CASE BeginFails \/ Cancelled
  BY <1>1, AbandonFresh DEF BeginFails, Cancelled
<1>2. CASE EndSweep \/ EndSweepFails
  <2>1. disk' = disk /\ OnlyForgets
    BY <1>2 DEF EndSweep, EndSweepFails, EndingSweep, FreshByOrder, OnlyForgets
  <2>2. UNCHANGED tables \/ \E c \in Config : sweepOutsideRoots(c)
    BY <1>2 DEF TypeOK, CrawlTypes, EndSweep, EndSweepFails, Commits, RollsBack
  <2> QED BY <2>1, <2>2, SweepingFresh
<1> QED BY <1>1, <1>2, WalkFresh, PassFresh, ExtractFresh, FlushFresh DEF CrawlStep

LEMMA ClientFresh ==
    ASSUME TypeOK, VersionTypes, VersionTypes', FreshByOrder,
           NEW c \in Clients, ClientStep(c)
    PROVE  FreshByOrder'
<1>1. disk' = disk /\ OnlyForgets
  <2>1. UNCHANGED <<disk, batch, results, pc>>
    BY DEF ClientStep, SetRead, SetSweep, SetSweepFails, SettingSweep, SetSave, crawlVars
  <2> QED BY <2>1, NoChangeOnlyForgets
<1>2. client[c].seen \in Config
  BY DEF TypeOK, ControlTypes, Client
<1>3. UNCHANGED tables \/ \E d \in Config : sweepOutsideRoots(d)
  BY <1>2 DEF ClientStep, SetRead, SetSweep, SetSweepFails, Commits, RollsBack, SetSave
<1> QED BY <1>1, <1>3, SweepingFresh

LEMMA StartingFresh ==
    ASSUME VersionTypes, VersionTypes', FreshByOrder, StartsOrCloses
    PROVE  FreshByOrder'
<1>1. OnlyForgets
  BY DEF StartsOrCloses, FreshByOrder, OnlyForgets, Starting
<1> QED BY <1>1, SweepingFresh DEF StartsOrCloses

LEMMA EnvironmentFresh ==
    ASSUME TypeOK, TypeOK', VersionTypes, VersionTypes', FreshByOrder, Environment
    PROVE  FreshByOrder'
<1>1. CASE \E f \in Files : Write(f) \/ Remove(f)
  <2> PICK f \in Files, b \in BOOLEAN :
        /\ disk' = [disk EXCEPT ![f] = [there |-> b, ver |-> disk[f].ver + 1]]
        /\ UNCHANGED <<tables, batch, results, pc>>
    BY <1>1 DEF Write, Remove, crawlVars
  <2>1. OnlyAdvances
    <3> SUFFICES ASSUME NEW g \in Files PROVE disk'[g].ver >= disk[g].ver
      BY DEF OnlyAdvances
    <3>1. disk[g].ver \in Nat /\ disk \in [Files -> [there : BOOLEAN, ver : Nat]]
      BY DEF VersionTypes
    <3>2. CASE g = f
      BY <3>1, <3>2
    <3>3. CASE g # f
      BY <3>1, <3>3
    <3> QED BY <3>2, <3>3
  <2> QED BY <2>1, NoWriteOnlyDeletes, NoChangeOnlyForgets, DeletingIsFresh
<1>2. CASE \/ Rescan(TRUE, {}) \/ \E d \in Dirs : Rescan(FALSE, {d})
           \/ Pause \/ Close
  BY <1>2, StartingOrClosing, StartingFresh
<1>3. CASE \E c \in Clients, new \in Configs : SetConfig(c, new)
  <2>1. UNCHANGED <<tables, disk, batch, results, pc>>
    BY <1>3 DEF SetConfig, crawlVars
  <2> QED BY <2>1, NoChangeOnlyForgets, SweepingFresh
<1>4. CASE Reboot
  <2>1. disk' = disk /\ OnlyForgets
    BY <1>4 DEF Reboot, OnlyForgets, Empty
  <2>2. cfg' \in Config
    BY DEF TypeOK, ControlTypes
  <2>3. UNCHANGED tables \/ \E c \in Config : sweepOutsideRoots(c)
    BY <1>4, <2>2 DEF Reboot
  <2> QED BY <2>1, <2>3, SweepingFresh
<1> QED BY <1>1, <1>2, <1>3, <1>4 DEF Environment

\* Nothing in the index is newer than the disk, and no extracted result is
\* older than the row it will be stored for.
THEOREM AlwaysFreshByOrder == Spec => []FreshByOrder
<1>1. Init => FreshByOrder
  BY DEF Init, FreshByOrder, MarksAreFresh, Indexed, Empty
<1>2. TypeOK /\ TypeOK' /\ FreshByOrder /\ [Next]_vars => FreshByOrder'
  <2> SUFFICES ASSUME TypeOK, TypeOK', FreshByOrder, [Next]_vars
               PROVE  FreshByOrder'
    OBVIOUS
  <2>1. VersionTypes /\ VersionTypes'
    BY VersionsTyped DEF TypeOK, TableTypes, CrawlTypes, IsTable, VersionTypes, Indexed
  <2>2. CASE UNCHANGED vars
    BY <2>2 DEF vars, tables, crawlVars, FreshByOrder, MarksAreFresh, Indexed
  <2>3. CASE RescanStep \/ CloseStep
    BY <2>1, <2>3, StartingOrClosing, StartingFresh
  <2> QED BY <2>1, <2>2, <2>3, CrawlFresh, ClientFresh, EnvironmentFresh DEF Next
<1> QED BY <1>1, <1>2, TypeCorrect, PTL DEF Spec

\* So text and metadata marked as processed are never older than their row.
THEOREM MarksStayFresh == Spec => []MarksAreFresh
<1>1. FreshByOrder => MarksAreFresh
  BY DEF FreshByOrder
<1> QED BY <1>1, AlwaysFreshByOrder, PTL
=============================================================================
