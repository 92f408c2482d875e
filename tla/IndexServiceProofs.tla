------------------------- MODULE IndexServiceProofs -------------------------
(***************************************************************************)
(* Proofs about IndexService, for any number of clients and callers, of    *)
(* crawls and schedules, and for every limit and capacity.                 *)
(***************************************************************************)
EXTENDS IndexService, FiniteSetTheorems, TLAPS

-----------------------------------------------------------------------------
(* The next step, one disjunct per goroutine, and what each leaves alone.  *)

OthersStep ==
    \/ CrawlStep \/ TimerFires \/ TimerPushes \/ Opens \/ Stopping \/ MainStep
    \/ SchedulerStarts \/ SchedulerStops \/ Pause \/ Resume

CallerStep ==
    \E c \in Callers :
        CallStep(c) \/ AskRescan(c) \/ \E s \in Schedules : SetConfig(c, s)

ClientStep ==
    \E h \in Clients : FeedStep(h) \/ StreamStep(h) \/ Admit(h) \/ Disconnect(h)

LEMMA NextSplits ==
    ASSUME Next
    PROVE  \/ Alive /\ (OthersStep \/ CallerStep \/ ClientStep)
           \/ UNCHANGED vars
BY DEF Next, Over, OthersStep, CallerStep, ClientStep

\* A push reaches channels that exist, and neither opens nor closes one.
LEMMA PushFrame ==
    ASSUME Push \/ Coalesced
    PROVE  UNCHANGED <<subs, shut, sub, seed, lazy, out>>
BY DEF Push, Coalesced, feed

\* The handlers, their count and their subscriptions are the clients' own.
Handlers == <<sseSubs, pc, sub, lazy>>

LEMMA HandlersFrame ==
    ASSUME OthersStep \/ CallerStep
    PROVE  UNCHANGED Handlers
<1>1. CASE CrawlStep \/ TimerFires \/ TimerPushes
  BY <1>1, PushFrame DEF CrawlStep, Enter, Progress, Tell, CrawlEnds, CrawlDone, notify,
     TimerFires, TimerPushes, feed, streams, Handlers
<1>2. CASE MainStep
  BY <1>2 DEF MainStep, ShutdownReturns, CloseBegins, CloseCancels, CloseWaits,
     CloseStopsCron, CloseEndsFeed, CloseStore, feed, streams, Handlers
<1>3. CASE \/ Opens \/ Stopping \/ SchedulerStarts \/ SchedulerStops
           \/ Pause \/ Resume
  BY <1>3 DEF Opens, Stopping, SchedulerStarts, SchedulerStops, Pause, Resume,
     feed, streams, Handlers
<1>4. CASE CallerStep
  BY <1>4 DEF CallerStep, CallStep, Refused, Claim, Register, Spawn, Reschedule,
     AskRescan, SetConfig, feed, streams, Handlers
<1> QED BY <1>1, <1>2, <1>3, <1>4 DEF OthersStep

\* What clients do is nothing to the callers, the crawl or the shutdown.
LEMMA ClientsFrame ==
    ASSUME ClientStep
    PROVE  UNCHANGED <<calls, crawling, main, closed>>
<1>1. PICK h \in Clients :
             FeedStep(h) \/ StreamStep(h) \/ Admit(h) \/ Disconnect(h)
  BY DEF ClientStep
<1>2. CASE FeedStep(h)
  BY <1>2 DEF FeedStep, ReadSeed, SendSeed, Poll, StopPolling, Forward,
     StopForwarding, process
<1>3. CASE StreamStep(h)
  BY <1>3 DEF StreamStep, Subscribe, Greet, Receive, Coalesce, StreamEnds,
     Unsubscribe, Release, process
<1>4. CASE Admit(h) \/ Disconnect(h)
  BY <1>4 DEF Admit, Disconnect, process
<1> QED BY <1>1, <1>2, <1>3, <1>4

-----------------------------------------------------------------------------
(* The streams.                                                            *)

Places == {"off", "refuse", "admitted", "subscribing", "greet", "stream",
           "leave", "release"}
Feeds  == {"none", "poll", "seed", "send", "on"}

\* The handlers in the count, and those that were let in.
Counted == {h \in Clients : pc[h] # "off"}
Inside  == {h \in Clients : pc[h] \notin {"off", "refuse"}}

\* Where a subscription without the stand-in is, and one that is to come.
FeedOrder ==
    \A h \in Clients :
        /\ ~lazy[h] /\ sub[h] \in {"seed", "send"} => pc[h] = "subscribing"
        /\ sub[h] = "poll" => lazy[h]
        /\ pc[h] = "admitted" => sub[h] = "none"

StreamInv ==
    /\ pc \in [Clients -> Places] /\ sub \in [Clients -> Feeds]
    /\ lazy \in [Clients -> BOOLEAN]
    /\ FeedOrder
    /\ sseSubs = Cardinality(Counted)
    /\ Cardinality(Inside) <= SseMax

\* Both sets are finite, and there are no more inside than counted.
LEMMA StreamSets ==
    /\ IsFiniteSet(Counted) /\ IsFiniteSet(Inside)
    /\ Cardinality(Counted) \in Nat /\ Cardinality(Inside) \in Nat
    /\ Cardinality(Inside) <= Cardinality(Counted)
<1>1. IsFiniteSet(Counted) /\ IsFiniteSet(Inside) /\ Inside \subseteq Counted
  BY ServiceAssumption, FS_Subset DEF Counted, Inside
<1> QED BY <1>1, FS_CardinalityType, FS_Subset

\* The moves a handler makes between being let in and its release.
Inner(h) ==
    /\ pc[h] \in Places \ {"off", "refuse"}
    /\ pc' = [pc EXCEPT ![h] = pc'[h]]
    /\ pc'[h] \in Places \ {"off", "refuse"}
    /\ UNCHANGED sseSubs

\* What each move of a client is to the count.
LEMMA ClientMoves ==
    ASSUME StreamInv, ClientStep
    PROVE  /\ \E h \in Clients :
                \/ Admit(h) \/ Release(h) \/ Inner(h) \/ UNCHANGED <<pc, sseSubs>>
           /\ sub' \in [Clients -> Feeds] /\ lazy' \in [Clients -> BOOLEAN]
           /\ FeedOrder'
<1>1. PICK h \in Clients :
             FeedStep(h) \/ StreamStep(h) \/ Admit(h) \/ Disconnect(h)
  BY DEF ClientStep
<1> USE DEF StreamInv, FeedOrder, Places, Feeds, Inner
<1>2. CASE ReadSeed(h)
  BY <1>2 DEF ReadSeed, streams
<1>8. CASE Poll(h)
  BY <1>8 DEF Poll, Subscribed, streams
<1>9. CASE StopPolling(h) \/ Forward(h) \/ StopForwarding(h)
  BY <1>9 DEF StopPolling, Forward, StopForwarding, streams
<1>3. CASE SendSeed(h)
  <2>1. /\ sub[h] = "send" /\ sub' = [sub EXCEPT ![h] = "on"]
        /\ pc' = [pc EXCEPT ![h] = IF lazy[h] THEN @ ELSE "greet"]
        /\ UNCHANGED <<lazy, sseSubs>>
    BY <1>3 DEF SendSeed
  <2>2. CASE lazy[h]
    <3>1. pc' = pc
      BY <2>1, <2>2
    <3> QED BY <2>1, <3>1
  <2>3. CASE ~lazy[h]
    <3>1. pc[h] = "subscribing" /\ pc' = [pc EXCEPT ![h] = "greet"]
      BY <2>1, <2>3
    <3>2. Inner(h)
      BY <2>1, <3>1
    <3>3. FeedOrder'
      BY <2>1, <3>1
    <3> QED BY <2>1, <3>2, <3>3
  <2> QED BY <2>2, <2>3
<1>4. CASE Subscribe(h)
  <2>1. /\ pc[h] = "admitted" /\ sub[h] = "none" /\ UNCHANGED sseSubs
        /\ \/ /\ sub' = [sub EXCEPT ![h] = "seed"]
              /\ lazy' = [lazy EXCEPT ![h] = FALSE]
              /\ pc' = [pc EXCEPT ![h] = "subscribing"]
           \/ /\ sub' = [sub EXCEPT ![h] = "poll"]
              /\ lazy' = [lazy EXCEPT ![h] = TRUE]
              /\ pc' = [pc EXCEPT ![h] = "greet"]
    BY <1>4 DEF Subscribe, Subscribed
  <2>2. Inner(h)
    BY <2>1
  <2>3. FeedOrder'
    BY <2>1
  <2> QED BY <2>1, <2>2, <2>3
<1>5. CASE \/ Greet(h) \/ Receive(h) \/ Coalesce(h) \/ StreamEnds(h)
           \/ Disconnect(h)
  BY <1>5 DEF Greet, Receive, Coalesce, StreamEnds, Disconnect, feed
<1>6. CASE Unsubscribe(h)
  BY <1>6 DEF Unsubscribe
<1>7. CASE Admit(h) \/ Release(h)
  BY <1>7 DEF Admit, Release, feed
<1> QED BY <1>1, <1>2, <1>3, <1>4, <1>5, <1>6, <1>7, <1>8, <1>9
       DEF FeedStep, StreamStep

\* The pool counts as we do.
LEMMA SameCardinality ==
    \A S : SsePool!Cardinality(S) = Cardinality(S)
BY DEF SsePool!Cardinality, SsePool!IsFiniteSet, Cardinality, IsFiniteSet

\* The count counts, and the limit holds, through every move.
LEMMA StreamInvStep ==
    ASSUME StreamInv, [Next]_vars
    PROVE  StreamInv' /\ [SsePool!Next]_Inside
<1>1. CASE UNCHANGED Handlers
  BY <1>1 DEF Handlers, StreamInv, FeedOrder, Counted, Inside
<1>2. CASE ClientStep
  <2>1. PICK h \in Clients :
               Admit(h) \/ Release(h) \/ Inner(h) \/ UNCHANGED <<pc, sseSubs>>
    BY <1>2, ClientMoves
  <2>2. /\ FeedOrder'
        /\ sub' \in [Clients -> Feeds] /\ lazy' \in [Clients -> BOOLEAN]
    BY <1>2, ClientMoves
  <2>3. /\ pc \in [Clients -> Places] /\ sseSubs = Cardinality(Counted)
        /\ Cardinality(Inside) <= SseMax /\ SseMax \in Nat
    BY ServiceAssumption DEF StreamInv
  <2>4. SUFFICES /\ pc' \in [Clients -> Places]
                 /\ sseSubs' = Cardinality(Counted')
                 /\ Cardinality(Inside') <= SseMax
                 /\ [SsePool!Next]_Inside
    BY <2>2 DEF StreamInv
  <2>5. CASE Admit(h)
    <3>1. /\ pc[h] = "off" /\ sseSubs' = sseSubs + 1
          /\ pc' = [pc EXCEPT ![h] = IF sseSubs + 1 > SseMax THEN "refuse"
                                                             ELSE "admitted"]
      BY <2>5 DEF Admit, TooMany
    <3>2. pc' \in [Clients -> Places] /\ Counted' = Counted \union {h}
      BY <2>3, <3>1 DEF Counted, Places
    <3>3. sseSubs' = Cardinality(Counted')
      BY <2>3, <3>1, <3>2, StreamSets, FS_AddElement DEF Counted
    <3>4. CASE sseSubs + 1 > SseMax
      <4>1. Inside' = Inside
        BY <2>3, <3>1, <3>4 DEF Inside
      <4> QED BY <2>3, <3>2, <3>3, <4>1
    <3>5. CASE ~(sseSubs + 1 > SseMax)
      <4>1. Inside' = Inside \union {h} /\ h \notin Inside
        BY <2>3, <3>1, <3>5 DEF Inside
      <4>2. Cardinality(Inside') = Cardinality(Inside) + 1
        BY <4>1, StreamSets, FS_AddElement
      <4>3. Cardinality(Inside) < SseMax
        BY <2>3, <3>5, StreamSets
      <4>4. SsePool!Next
        BY <4>1, <4>3, SameCardinality DEF SsePool!Next, SsePool!Take, Inside
      <4> QED BY <2>3, <3>2, <3>3, <4>2, <4>3, <4>4, StreamSets
    <3> QED BY <3>4, <3>5
  <2>6. CASE Release(h)
    <3>1. /\ pc[h] \in {"release", "refuse"} /\ sseSubs' = sseSubs - 1
          /\ pc' = [pc EXCEPT ![h] = "off"]
      BY <2>6 DEF Release
    <3>2. /\ pc' \in [Clients -> Places] /\ h \in Counted
          /\ Counted' = Counted \ {h} /\ Inside' = Inside \ {h}
      BY <2>3, <3>1 DEF Counted, Inside, Places
    <3>3. sseSubs' = Cardinality(Counted')
      BY <2>3, <3>1, <3>2, StreamSets, FS_RemoveElement
    <3>4. Cardinality(Inside') <= SseMax
      BY <2>3, <3>2, StreamSets, FS_Subset, FS_CardinalityType
    <3>5. [SsePool!Next]_Inside
      BY <3>2 DEF SsePool!Next, SsePool!Give, Inside
    <3> QED BY <3>2, <3>3, <3>4, <3>5
  <2>7. CASE Inner(h) \/ UNCHANGED <<pc, sseSubs>>
    <3>1. /\ pc' \in [Clients -> Places] /\ sseSubs' = sseSubs
          /\ Counted' = Counted /\ Inside' = Inside
      BY <2>3, <2>7 DEF Inner, Counted, Inside, Places
    <3> QED BY <2>3, <3>1
  <2> QED BY <2>1, <2>5, <2>6, <2>7
<1>3. UNCHANGED vars => UNCHANGED Handlers
  BY DEF vars, feed, streams, Handlers
<1> QED BY <1>1, <1>2, <1>3, NextSplits, HandlersFrame

LEMMA StreamInvInit ==
    ASSUME Init
    PROVE  StreamInv /\ Inside = {}
<1>1. Counted = {} /\ Inside = {}
  BY DEF Init, Counted, Inside
<1>2. Cardinality(Counted) = 0 /\ Cardinality(Inside) = 0
  BY <1>1, FS_EmptySet
<1> QED BY <1>1, <1>2, ServiceAssumption
        DEF Init, StreamInv, FeedOrder, Places, Feeds

LEMMA StreamInvariant == Spec => []StreamInv
<1>1. Init => StreamInv
  BY StreamInvInit
<1>2. StreamInv /\ [Next]_vars => StreamInv'
  BY StreamInvStep
<1> QED BY <1>1, <1>2, PTL DEF Spec

\* However many streams arrive and leave at once, no more than SseMax are in,
\* and the count the next one is compared with is never off.
THEOREM StreamLimit == Spec => []StreamsWithinLimit
<1>1. StreamInv => StreamsWithinLimit
  BY DEF StreamInv, StreamsWithinLimit, Counted, Inside
<1> QED BY <1>1, StreamInvariant, PTL

\* The handlers of the event streams implement a pool of SseMax slots.
THEOREM StreamsImplementPool == Spec => StreamsAreAPool
<1>1. Init => SsePool!Init
  BY StreamInvInit DEF SsePool!Init, Inside
<1>2. StreamInv /\ [Next]_vars => [SsePool!Next]_Inside
  BY StreamInvStep
<1> QED BY <1>1, <1>2, StreamInvariant, PTL
        DEF Spec, StreamsAreAPool, SsePool!Spec, Inside

-----------------------------------------------------------------------------
(* The scheduler.                                                          *)

Calling == {"idle", "checked", "claimed", "registered", "applied"}

CronInv ==
    /\ call \in [Callers -> Calling]
    /\ CronFollowsConfig

\* Of the goroutines of the daemon only the scheduler, its callers and Close
\* have to do with the cron.
LEMMA CronFrame ==
    ASSUME CrawlStep \/ TimerFires \/ TimerPushes \/ Opens \/ Stopping \/ Pause \/ Resume
    PROVE  UNCHANGED calls
<1>1. CASE CrawlStep \/ TimerFires \/ TimerPushes
  BY <1>1 DEF CrawlStep, Enter, Progress, Tell, CrawlEnds, CrawlDone, TimerFires,
     TimerPushes
<1>2. CASE Opens \/ Stopping \/ Pause \/ Resume
  BY <1>2 DEF Opens, Stopping, Pause, Resume
<1> QED BY <1>1, <1>2

LEMMA CronInvStep ==
    ASSUME CronInv, [Next]_vars
    PROVE  CronInv'
<1> USE DEF CronInv, CronFollowsConfig, Calling
<1>1. CASE UNCHANGED calls
  BY <1>1 DEF calls
<1>2. CASE SchedulerStarts \/ SchedulerStops \/ CloseStopsCron
  BY <1>2 DEF SchedulerStarts, SchedulerStops, CloseStopsCron
<1>3. CASE MainStep
  <2>1. CloseStopsCron \/ UNCHANGED calls
    BY <1>3 DEF MainStep, ShutdownReturns, CloseBegins, CloseCancels,
       CloseWaits, CloseEndsFeed, CloseStore
  <2> QED BY <1>1, <1>2, <2>1
<1>4. CASE CallerStep
  <2>1. PICK c \in Callers :
               CallStep(c) \/ AskRescan(c) \/ \E s \in Schedules : SetConfig(c, s)
    BY <1>4 DEF CallerStep
  <2>2. CASE AskRescan(c) \/ Refused(c) \/ Claim(c) \/ Register(c) \/ Spawn(c)
    <3>1. /\ call[c] \notin {"applied"}
          /\ \E at \in Calling \ {"applied"} : call' = [call EXCEPT ![c] = at]
          /\ UNCHANGED <<cfg, cron, schedOn>>
      BY <2>2 DEF AskRescan, Refused, Claim, Register, Spawn, Goes
    <3> QED BY <3>1
  <2>3. CASE Reschedule(c)
    BY <2>3 DEF Reschedule, Goes
  <2>4. CASE \E s \in Schedules : SetConfig(c, s)
    <3>1. /\ call' = [call EXCEPT ![c] = "applied"]
          /\ UNCHANGED <<cron, schedOn>>
      BY <2>4 DEF SetConfig, Goes
    <3> QED BY <3>1
  <2> QED BY <2>1, <2>2, <2>3, <2>4 DEF CallStep
<1>5. ClientStep => UNCHANGED calls
  BY ClientsFrame
<1>6. UNCHANGED vars => UNCHANGED calls
  BY DEF vars
<1> QED BY <1>1, <1>2, <1>3, <1>4, <1>5, <1>6, NextSplits, CronFrame
        DEF OthersStep

\* Whatever order concurrent calls of SetConfig, the scheduler's start and end
\* and Close take their locks in, the cron that runs is of the configuration.
THEOREM CronFollows == Spec => []CronFollowsConfig
<1>1. Init => CronInv
  BY DEF Init, CronInv, CronFollowsConfig, Calling
<1>2. CronInv /\ [Next]_vars => CronInv'
  BY CronInvStep
<1>3. CronInv => CronFollowsConfig
  BY DEF CronInv
<1> QED BY <1>1, <1>2, <1>3, PTL DEF Spec

-----------------------------------------------------------------------------
(* The crawl and the shutdown.                                             *)

\* Callers of Rescan that have crawlBusy and no crawl yet.
Starters == {c \in Callers : call[c] \in {"claimed", "registered"}}
Runs     == crawl.at # "none"
Waited   == {"cron", "subs", "db", "rest"}

Stages == {"none", "begin", "crawling", "extracting", "metadata", "finish"}

\* One crawl, or one caller about to start it, has crawlBusy; the wait group
\* counts the crawl and those that are ending; nothing comes after the wait but on a closed service.
CrawlInv ==
    /\ call \in [Callers -> Calling]
    /\ load \in Loads
    /\ crawl \in [at : Stages, tell : {"no", "soft", "force"},
                  left : 0..MaxProgress, late : BOOLEAN]
    /\ busy \in BOOLEAN /\ closed \in BOOLEAN
    /\ ending \in Nat /\ crawls \in Nat
    /\ wg = IF Runs THEN ending + 1 ELSE ending
    /\ ending <= crawls
    /\ Runs \/ Starters # {} => ending < crawls
    /\ busy <=> Runs \/ Starters # {}
    /\ Starters # {} => ~Runs
    /\ \A c, d \in Starters : c = d
    /\ main \in Waited \union {"cancel", "wait"} => closed
    /\ main \in Waited /\ Runs => crawl.late

LEMMA NoneIsCrawl ==
    NoCrawl \in [at : Stages, tell : {"no", "soft", "force"},
                 left : 0..MaxProgress, late : BOOLEAN]
BY ServiceAssumption DEF NoCrawl, Stages

LEMMA CrawlInvInit ==
    ASSUME Init
    PROVE  CrawlInv
<1>1. crawl = NoCrawl /\ ~Runs /\ Starters = {} /\ call \in [Callers -> Calling]
  BY DEF Init, Runs, Starters, Calling, NoCrawl
<1>2. crawl \in [at : Stages, tell : {"no", "soft", "force"},
                left : 0..MaxProgress, late : BOOLEAN]
  BY <1>1, NoneIsCrawl
<1>3. wg = 0 /\ ending = 0 /\ crawls = 0
  BY DEF Init
<1>4. /\ load \in Loads /\ busy = FALSE /\ closed = FALSE /\ main = "serve"
  BY DEF Init
<1>5. /\ busy <=> Runs \/ Starters # {}
      /\ wg = IF Runs THEN ending + 1 ELSE ending
  BY <1>1, <1>3, <1>4
<1>6. /\ ending \in Nat /\ crawls \in Nat /\ ending <= crawls
      /\ ~(Runs \/ Starters # {})
  BY <1>1, <1>3
<1>7. /\ busy \in BOOLEAN /\ closed \in BOOLEAN
      /\ main \notin Waited \union {"cancel", "wait"}
  BY <1>4 DEF Waited
<1> QED BY <1>1, <1>2, <1>4, <1>5, <1>6, <1>7, Zenon DEF CrawlInv

\* Where the crawl itself may go.
LEMMA FollowingTypes ==
    ASSUME load \in Loads, NEW at
    PROVE  Following(at) \subseteq Stages \ {"none", "begin"}
BY ServiceAssumption DEF Following, Stages

LEMMA CrawlSteps ==
    ASSUME CrawlInv, CrawlStep
    PROVE  CrawlInv'
<1> USE DEF CrawlInv, Runs, Starters, Waited, process, calls
<1>1. CASE CrawlEnds
  <2>1. Runs /\ Starters = {}
    BY <1>1 DEF CrawlEnds
  <2>2. /\ busy = TRUE /\ busy' = FALSE /\ crawl' = NoCrawl /\ Starters' = {}
        /\ ending' = ending + 1 /\ UNCHANGED <<call, load, main, closed, wg, crawls>>
    BY <1>1, <2>1 DEF CrawlEnds
  <2>3. ~Runs'
    BY <2>2 DEF NoCrawl
  <2>4. wg' = ending' /\ ending' \in Nat /\ ending' <= crawls' /\ crawls' \in Nat
    BY <2>1, <2>2
  <2>5. main' \in {"cancel", "wait"} \union Waited => closed'
    BY <2>2
  <2> HIDE DEF Runs, Waited
  <2> QED BY <2>2, <2>3, <2>4, <2>5, NoneIsCrawl
<1>5. CASE CrawlDone
  <2>1. /\ ending > 0 /\ ending' = ending - 1 /\ wg' = wg - 1
        /\ UNCHANGED <<call, load, main, closed, busy, crawl, crawls>>
    BY <1>5 DEF CrawlDone
  <2> QED BY <2>1
<1>2. CASE Tell
  <2>1. /\ crawl' = [crawl EXCEPT !.tell = "no"]
        /\ UNCHANGED <<call, load, main, closed, busy, wg, ending, crawls>>
    BY <1>2 DEF Tell
  <2> QED BY <2>1
<1>3. CASE Progress
  <2>1. /\ crawl' = [crawl EXCEPT !.tell = "soft", !.left = @ - 1]
        /\ crawl.left > 0
        /\ UNCHANGED <<call, load, main, closed, busy, wg, ending, crawls>>
    BY <1>3 DEF Progress
  <2>2. crawl.left - 1 \in 0..MaxProgress
    BY <2>1, ServiceAssumption
  <2> QED BY <2>1, <2>2
<1>4. CASE \E at \in Following(crawl.at) : Enter(at)
  <2>1. PICK at \in Following(crawl.at) : Enter(at)
    BY <1>4
  <2>2. /\ crawl' = [crawl EXCEPT !.at = at, !.tell = "force"]
        /\ UNCHANGED <<call, load, main, closed, busy, wg, ending, crawls>>
    BY <2>1 DEF Enter
  <2>3. at \in Stages \ {"none"} /\ Runs
    BY <2>1, FollowingTypes DEF Following
  <2> QED BY <2>2, <2>3
<1> QED BY <1>1, <1>2, <1>3, <1>4, <1>5 DEF CrawlStep

LEMMA CallerSteps ==
    ASSUME CrawlInv, CallerStep
    PROVE  CrawlInv'
<1>1. PICK c \in Callers :
             CallStep(c) \/ AskRescan(c) \/ \E s \in Schedules : SetConfig(c, s)
  BY DEF CallerStep
<1> USE DEF CrawlInv, Runs, Starters, Waited, process, Calling
<1>2. CASE \/ AskRescan(c) \/ Refused(c) \/ Reschedule(c)
           \/ \E s \in Schedules : SetConfig(c, s)
  <2>1. /\ call[c] \notin {"claimed", "registered"}
        /\ \E at \in {"idle", "checked", "applied"} :
             call' = [call EXCEPT ![c] = at]
        /\ UNCHANGED <<load, main, closed, busy, wg, ending, crawls, crawl>>
    BY <1>2 DEF AskRescan, Refused, Reschedule, SetConfig, Goes, crawling
  <2>2. call' \in [Callers -> Calling] /\ Starters' = Starters
    BY <2>1
  <2> QED BY <2>1, <2>2
<1>3. CASE Claim(c)
  <2>1. /\ busy = FALSE /\ busy' = TRUE /\ call' = [call EXCEPT ![c] = "claimed"]
        /\ crawls' = crawls + 1 /\ UNCHANGED <<load, main, closed, wg, ending, crawl>>
    BY <1>3 DEF Claim, Goes
  <2>2. call' \in [Callers -> Calling] /\ Starters' = {c} /\ ~Runs
    BY <2>1
  <2> QED BY <2>1, <2>2
<1>4. CASE Register(c)
  <2>1. /\ call[c] = "claimed" /\ call' = [call EXCEPT ![c] = "registered"]
        /\ UNCHANGED <<load, main, closed, busy, wg, ending, crawls, crawl>>
    BY <1>4 DEF Register, Goes
  <2>2. call' \in [Callers -> Calling] /\ Starters' = Starters
    BY <2>1
  <2> QED BY <2>1, <2>2
<1>5. CASE Spawn(c)
  <2>1. /\ call[c] = "registered" /\ call' = [call EXCEPT ![c] = "idle"]
        /\ crawl' = Begun /\ wg' = wg + 1
        /\ UNCHANGED <<load, main, closed, busy, ending, crawls>>
    BY <1>5 DEF Spawn, Goes
  <2>2. /\ call' \in [Callers -> Calling]
        /\ Starters = {c} /\ Starters' = {} /\ ~Runs /\ busy
    BY <2>1
  <2>3. /\ crawl' \in [at : Stages, tell : {"no", "soft", "force"},
                       left : 0..MaxProgress, late : BOOLEAN]
        /\ crawl'.at # "none" /\ crawl'.late = closed
    BY <2>1, ServiceAssumption DEF Begun, Stages
  <2> QED BY <2>1, <2>2, <2>3
<1> QED BY <1>1, <1>2, <1>3, <1>4, <1>5 DEF CallStep

LEMMA MainSteps ==
    ASSUME CrawlInv, MainStep \/ Stopping
    PROVE  CrawlInv'
<1> USE DEF CrawlInv, Runs, Starters, Waited, MainGoes
<1>1. CASE CloseBegins
  BY <1>1 DEF CloseBegins, crawling, calls
<1>2. CASE CloseWaits
  BY <1>2 DEF CloseWaits, crawling, calls
<1>3. CASE \/ Stopping \/ ShutdownReturns \/ CloseCancels \/ CloseStopsCron
           \/ CloseEndsFeed \/ CloseStore
  <2>1. /\ \/ main' \in {"shutdown", "close", "exited"}
           \/ main = "cancel" /\ main' = "wait"
           \/ main \in Waited /\ main' \in Waited
        /\ UNCHANGED <<call, load, closed, busy, wg, ending, crawls, crawl>>
    BY <1>3 DEF Stopping, ShutdownReturns, CloseCancels, CloseStopsCron,
       CloseEndsFeed, CloseStore, crawling, calls
  <2> QED BY <2>1
<1> QED BY <1>1, <1>2, <1>3 DEF MainStep

LEMMA CrawlInvStep ==
    ASSUME CrawlInv, [Next]_vars
    PROVE  CrawlInv'
<1>1. CASE UNCHANGED <<call, load, main, closed, busy, wg, ending, crawls, crawl>>
  BY <1>1 DEF CrawlInv, Runs, Starters, Waited
<1>2. CASE \/ TimerFires \/ TimerPushes \/ Opens \/ SchedulerStarts
           \/ SchedulerStops \/ Pause \/ Resume
  BY <1>1, <1>2 DEF TimerFires, TimerPushes, Opens, SchedulerStarts,
     SchedulerStops, Pause, Resume, process, crawling, calls
<1>3. CASE ClientStep
  <2>1. load' = load
    BY <1>3 DEF ClientStep, FeedStep, StreamStep, ReadSeed, SendSeed, Poll,
       StopPolling, Forward, StopForwarding, Subscribe, Greet, Receive,
       Coalesce, StreamEnds, Unsubscribe, Release, Admit, Disconnect, process
  <2> QED BY <1>1, <1>3, <2>1, ClientsFrame DEF crawling, calls
<1>4. UNCHANGED vars => UNCHANGED <<call, load, main, closed, busy, wg, ending, crawls, crawl>>
  BY DEF vars, process, crawling, calls
<1> QED BY <1>1, <1>2, <1>3, <1>4, NextSplits, CrawlSteps, CallerSteps,
           MainSteps DEF OthersStep

\* Close never outlives a crawl, but one whose Rescan was already past its look
\* at closed; and however many call Rescan at once, one crawl has crawlBusy.
THEOREM CloseNotBeforeCrawl == Spec => []CloseWaitsForCrawl
<1>1. Init => CrawlInv
  BY CrawlInvInit
<1>2. CrawlInv /\ [Next]_vars => CrawlInv'
  BY CrawlInvStep
<1>3. CrawlInv => CloseWaitsForCrawl
  <2> SUFFICES ASSUME CrawlInv PROVE CloseWaitsForCrawl
    OBVIOUS
  <2>1. busy <=> Runs \/ \E c \in Callers : call[c] \in {"claimed", "registered"}
    BY DEF CrawlInv, Starters
  <2> QED BY <2>1 DEF CrawlInv, CloseWaitsForCrawl, Runs, Waited
<1> QED BY <1>1, <1>2, <1>3, PTL DEF Spec

-----------------------------------------------------------------------------
(* The subscribers' channels.                                              *)

\* A channel is closed once, and while a seed may still be sent to it only by
\* the end of Close.
ChannelInv ==
    /\ subs \intersect shut = {}
    /\ \A h \in Clients : sub[h] \in {"seed", "send"} /\ h \in shut =>
           main \in {"db", "rest", "exited"}
    /\ panic \in {"no", "send on closed channel", "close of closed channel"}
    /\ OnlySeedsPanic

LEMMA ChannelInvStep ==
    ASSUME StreamInv, ChannelInv, [Next]_vars
    PROVE  ChannelInv'
<1> USE DEF ChannelInv, OnlySeedsPanic
<1>1. CASE UNCHANGED <<subs, shut, sub, main, panic>>
  BY <1>1
<1>2. CASE Alive /\ (CrawlStep \/ TimerFires \/ TimerPushes)
  <2>1. UNCHANGED <<subs, shut, sub, main, panic>>
    BY <1>2, PushFrame DEF CrawlStep, Enter, Progress, Tell, CrawlEnds, CrawlDone, notify,
       TimerFires, TimerPushes, feed, process
  <2> QED BY <1>1, <2>1
<1>3. CASE Alive /\ (\/ CallerStep \/ Opens \/ SchedulerStarts
                     \/ SchedulerStops \/ Pause \/ Resume)
  <2>1. UNCHANGED <<subs, shut, sub, main, panic>>
    BY <1>3 DEF CallerStep, CallStep, Refused, Claim, Register, Spawn,
       Reschedule, AskRescan, SetConfig, Opens, SchedulerStarts,
       SchedulerStops, Pause, Resume, feed, process
  <2> QED BY <1>1, <2>1
<1>4. CASE Alive /\ (MainStep \/ Stopping)
  <2>1. CASE CloseEndsFeed
    BY <1>4, <2>1 DEF CloseEndsFeed, MainGoes, Alive
  <2>2. CASE \/ Stopping \/ ShutdownReturns \/ CloseBegins \/ CloseCancels
             \/ CloseWaits \/ CloseStopsCron \/ CloseStore
    <3>1. /\ main \in {"db", "rest"} => main' \in {"db", "rest", "exited"}
          /\ panic = "no" /\ UNCHANGED <<subs, shut, sub, panic>>
      BY <1>4, <2>2 DEF Stopping, ShutdownReturns, CloseBegins, CloseCancels,
         CloseWaits, CloseStopsCron, CloseStore, MainGoes, Alive, feed
    <3> QED BY <1>4, <3>1 DEF Alive
  <2> QED BY <1>4, <2>1, <2>2 DEF MainStep
<1>5. CASE Alive /\ ClientStep
  <2>1. PICK h \in Clients :
               FeedStep(h) \/ StreamStep(h) \/ Admit(h) \/ Disconnect(h)
    BY <1>5 DEF ClientStep
  <2>2. /\ panic = "no" /\ main # "exited" /\ main' = main
        /\ sub \in [Clients -> Feeds]
    BY <1>5, ClientsFrame DEF Alive, StreamInv
  <2>3. CASE SendSeed(h)
    BY <2>2, <2>3 DEF SendSeed
  <2>4. CASE Poll(h) \/ Subscribe(h)
    BY <2>2, <2>4 DEF Poll, Subscribe, Subscribed, process
  <2>5. CASE StopForwarding(h) \/ Unsubscribe(h)
    BY <2>2, <2>5 DEF StopForwarding, Unsubscribe, Cancel, Closes
  <2>6. CASE \/ ReadSeed(h) \/ StopPolling(h) \/ Forward(h) \/ Greet(h)
             \/ Receive(h) \/ Coalesce(h) \/ StreamEnds(h) \/ Release(h)
             \/ Admit(h) \/ Disconnect(h)
    BY <2>2, <2>6 DEF ReadSeed, StopPolling, Forward, Greet, Receive, Coalesce,
       StreamEnds, Release, Admit, Disconnect, feed, process
  <2> QED BY <2>1, <2>3, <2>4, <2>5, <2>6 DEF FeedStep, StreamStep
<1>6. UNCHANGED vars => UNCHANGED <<subs, shut, sub, main, panic>>
  BY DEF vars, process, feed
<1> QED BY <1>1, <1>2, <1>3, <1>4, <1>5, <1>6, NextSplits DEF OthersStep

LEMMA ChannelInvariant == Spec => []ChannelInv
<1>1. Init => ChannelInv
  BY DEF Init, ChannelInv, OnlySeedsPanic
<1>2. StreamInv /\ ChannelInv /\ [Next]_vars => ChannelInv'
  BY ChannelInvStep
<1> QED BY <1>1, <1>2, StreamInvariant, PTL DEF Spec

\* No order of unsubscribing and closing closes a channel twice, and only the
\* end of the daemon can close one that Subscribe has still to seed.
THEOREM SeedsOnlyPanic == Spec => []OnlySeedsPanic
<1>1. ChannelInv => OnlySeedsPanic
  BY DEF ChannelInv
<1> QED BY <1>1, ChannelInvariant, PTL

-----------------------------------------------------------------------------
(* The statuses on their way to a client.                                  *)

Values == Int \union {Nothing}

StatusTypes ==
    /\ version \in Nat
    /\ queue \in [Clients -> Seq(Int)] /\ out \in [Clients -> Seq(Int)]
    /\ seed \in [Clients -> Values]
    /\ pending \in [Clients -> Values] /\ view \in [Clients -> Values]
    /\ overtaken \in [Clients -> {"no", "last", "once"}]
    /\ caught \in [Clients -> BOOLEAN] /\ sank \in [Clients -> BOOLEAN]
    /\ subs # {} => open = "ready"

\* A stream begins with nothing seen, put off or forwarded.
Fresh(h) == out[h] = <<>> /\ pending[h] = Nothing /\ ~caught[h]

Begins(h) ==
    /\ pc[h] \in {"off", "refuse", "admitted", "subscribing", "greet"} =>
         pending[h] = Nothing /\ ~caught[h]
    /\ pc[h] = "admitted" \/ sub[h] \in {"poll", "seed", "send"} => Fresh(h)
    /\ out[h] # <<>> => lazy[h] /\ (sub[h] = "on" \/ main # "serve")
    /\ sub[h] = "on" /\ h \in shut => main # "serve"
    /\ sub[h] = "send" => seed[h] \in Int /\ seed[h] <= version
    /\ sub[h] \in {"seed", "send"} => overtaken[h] = "no"

\* x is no newer than any of s.
Before(x, s) == \A i \in 1..Len(s) : x <= s[i]
InOrder(s)   == \A i, j \in 1..Len(s) : i <= j => s[i] <= s[j]

\* No status on its way is newer than the status.
Known(h) ==
    /\ \A i \in 1..Len(queue[h]) : queue[h][i] <= version
    /\ \A i \in 1..Len(out[h]) : out[h][i] <= version
    /\ pending[h] # Nothing => pending[h] <= version
    /\ caught[h] => view[h] \in Int /\ view[h] <= version

\* From the channel to the client, each is as old as what comes after it.
Line(h) ==
    /\ InOrder(queue[h]) /\ InOrder(out[h])
    /\ \A i \in 1..Len(out[h]) : Before(out[h][i], queue[h])
    /\ pending[h] # Nothing => Before(pending[h], out[h]) /\ Before(pending[h], queue[h])
    /\ caught[h] => /\ Before(view[h], out[h]) /\ Before(view[h], queue[h])
                    /\ pending[h] # Nothing => view[h] <= pending[h]

Sound(h) == Begins(h) /\ Known(h) /\ (overtaken[h] = "no" => Line(h))

StatusInv == StatusTypes /\ \A h \in Clients : Sound(h)

LEMMA AppendInOrder ==
    ASSUME NEW s \in Seq(Int), NEW x \in Int, \A i \in 1..Len(s) : s[i] <= x
    PROVE  /\ Append(s, x) \in Seq(Int)
           /\ InOrder(s) => InOrder(Append(s, x))
           /\ \A y \in Int : Before(y, s) /\ y <= x => Before(y, Append(s, x))
           /\ \A y \in Int : y >= x => \A i \in 1..Len(Append(s, x)) : Append(s, x)[i] <= y
BY DEF InOrder, Before

LEMMA TailInOrder ==
    ASSUME NEW s \in Seq(Int), s # <<>>
    PROVE  /\ Head(s) \in Int /\ Tail(s) \in Seq(Int)
           /\ InOrder(s) => InOrder(Tail(s)) /\ Before(Head(s), Tail(s))
           /\ \A y \in Int : Before(y, s) => Before(y, Tail(s)) /\ y <= Head(s)
           /\ \A y \in Int : (\A i \in 1..Len(s) : s[i] <= y) =>
                Head(s) <= y /\ \A i \in 1..Len(Tail(s)) : Tail(s)[i] <= y
BY DEF InOrder, Before

\* A client to whom nothing happens, but that the status may go on, its
\* channel be closed by the end of the daemon, or the end begin.
Kept(g) ==
    /\ queue'[g] = queue[g] /\ out'[g] = out[g] /\ seed'[g] = seed[g]
    /\ pending'[g] = pending[g] /\ view'[g] = view[g] /\ caught'[g] = caught[g]
    /\ sank'[g] = sank[g] /\ overtaken'[g] = overtaken[g] /\ sub'[g] = sub[g]
    /\ pc'[g] = pc[g] /\ lazy'[g] = lazy[g]
    /\ g \in shut' => g \in shut \/ main' # "serve"

LEMMA KeptIsSound ==
    ASSUME StatusTypes, NEW g \in Clients, Sound(g), Kept(g),
           version' \in Nat, version <= version', main # "serve" => main' # "serve"
    PROVE  Sound(g)'
<1>1. /\ queue[g] \in Seq(Int) /\ out[g] \in Seq(Int)
      /\ seed[g] \in Values /\ pending[g] \in Values /\ view[g] \in Values
  BY DEF StatusTypes
<1>2. Begins(g)'
  BY DEF StatusTypes, Sound, Kept, Begins, Fresh
<1>3. Known(g)'
  <2>1. \A i \in 1..Len(queue[g]) : queue[g][i] <= version'
    BY <1>1 DEF Sound, Known, StatusTypes
  <2>2. \A i \in 1..Len(out[g]) : out[g][i] <= version'
    BY <1>1 DEF Sound, Known, StatusTypes
  <2>3. pending[g] # Nothing => pending[g] <= version'
    BY <1>1 DEF Sound, Known, StatusTypes, Values
  <2>4. caught[g] => view[g] \in Int /\ view[g] <= version'
    BY <1>1 DEF Sound, Known, StatusTypes
  <2> QED BY <2>1, <2>2, <2>3, <2>4 DEF Known, Kept
<1>4. overtaken'[g] = "no" => Line(g)'
  BY DEF Sound, Line, Kept, InOrder, Before
<1> QED BY <1>2, <1>3, <1>4 DEF Sound

\* A push is the newest of all there is.
LEMMA PushIsSound ==
    ASSUME StatusInv, Push, UNCHANGED <<version, main, open, streams>>
    PROVE  StatusInv'
<1>1. UNCHANGED <<subs, shut, sub, seed, lazy, out, pc, pending, view, caught, sank>>
  BY DEF Push, streams
<1>2. ASSUME subs # {} PROVE Status = version
  BY <1>2 DEF StatusInv, StatusTypes, Status
<1>3. ASSUME NEW g \in Clients
      PROVE  /\ \/ queue'[g] = queue[g]
                \/ queue'[g] = Append(queue[g], version)
             /\ overtaken'[g] \in {"no", "last", "once"}
             /\ overtaken'[g] = "no" <=> overtaken[g] = "no"
  BY <1>2 DEF Push, StatusInv, StatusTypes
<1>4. StatusTypes'
  <2>1. queue' = [h \in Clients |-> queue'[h]] /\ overtaken' = [h \in Clients |-> overtaken'[h]]
    BY DEF Push
  <2>2. ASSUME NEW g \in Clients PROVE queue'[g] \in Seq(Int)
    <3>1. queue[g] \in Seq(Int) /\ version \in Int
      BY DEF StatusInv, StatusTypes
    <3>2. Append(queue[g], version) \in Seq(Int)
      BY <3>1
    <3> QED BY <1>3, <3>1, <3>2
  <2>3. queue' \in [Clients -> Seq(Int)]
    BY <2>1, <2>2
  <2>4. overtaken' \in [Clients -> {"no", "last", "once"}]
    BY <1>3, <2>1
  <2> QED BY <1>1, <2>3, <2>4 DEF StatusInv, StatusTypes
<1>5. ASSUME NEW g \in Clients PROVE Sound(g)'
  <2>1. /\ Sound(g) /\ queue[g] \in Seq(Int) /\ out[g] \in Seq(Int) /\ version \in Nat
        /\ pending[g] \in Values /\ view[g] \in Values
    BY DEF StatusInv, StatusTypes
  <2>2. Begins(g)'
    BY <1>1, <1>3, <2>1 DEF Sound, Begins, Fresh
  <2>3. CASE queue'[g] = queue[g]
    <3>1. Known(g)'
      BY <1>1, <2>1, <2>3 DEF Sound, Known
    <3>2. ASSUME overtaken'[g] = "no" PROVE Line(g)'
      <4>1. Line(g)
        BY <1>3, <2>1, <3>2 DEF Sound
      <4> QED BY <1>1, <2>3, <4>1 DEF Line, InOrder, Before
    <3> QED BY <2>2, <3>1, <3>2 DEF Sound
  <2>4. CASE queue'[g] = Append(queue[g], version)
    <3>1. /\ queue'[g] \in Seq(Int)
          /\ InOrder(queue[g]) => InOrder(queue'[g])
          /\ \A y \in Int : Before(y, queue[g]) /\ y <= version => Before(y, queue'[g])
          /\ \A i \in 1..Len(queue'[g]) : queue'[g][i] <= version
      <4>1. /\ queue[g] \in Seq(Int) /\ version \in Int
            /\ \A i \in 1..Len(queue[g]) : queue[g][i] <= version
        BY <2>1 DEF Sound, Known
      <4>2. /\ Append(queue[g], version) \in Seq(Int)
            /\ InOrder(queue[g]) => InOrder(Append(queue[g], version))
            /\ \A y \in Int : Before(y, queue[g]) /\ y <= version => Before(y, Append(queue[g], version))
            /\ \A y \in Int : y >= version =>
                 \A i \in 1..Len(Append(queue[g], version)) : Append(queue[g], version)[i] <= y
        BY <4>1, AppendInOrder, Zenon
      <4>3. \A i \in 1..Len(Append(queue[g], version)) : Append(queue[g], version)[i] <= version
        BY <4>1, <4>2
      <4> QED BY <2>4, <4>2, <4>3
    <3>2. Known(g)'
      BY <1>1, <2>1, <3>1 DEF Sound, Known
    <3>3. ASSUME overtaken'[g] = "no" PROVE Line(g)'
      <4>1. Line(g) /\ Known(g)
        BY <1>3, <2>1, <3>3 DEF Sound
      <4>2. \A i \in 1..Len(out[g]) : Before(out[g][i], queue'[g])
        BY <2>1, <3>1, <4>1 DEF Line, Known
      <4>3. pending[g] # Nothing => Before(pending[g], queue'[g])
        BY <2>1, <3>1, <4>1 DEF Line, Known, Values
      <4>4. caught[g] => Before(view[g], queue'[g])
        BY <2>1, <3>1, <4>1 DEF Line, Known
      <4>5. InOrder(queue'[g]) /\ InOrder(out[g])
        BY <3>1, <4>1 DEF Line
      <4> QED BY <1>1, <4>1, <4>2, <4>3, <4>4, <4>5 DEF Line
    <3> QED BY <2>2, <3>2, <3>3 DEF Sound
  <2> QED BY <1>3, <2>3, <2>4
<1> QED BY <1>4, <1>5 DEF StatusInv

\* What one client does is nothing to the others.
LEMMA OthersKept ==
    ASSUME StatusTypes, StreamInv, NEW h \in Clients, NEW g \in Clients, g # h,
           FeedStep(h) \/ StreamStep(h) \/ Admit(h) \/ Disconnect(h)
    PROVE  Kept(g)
<1> USE DEF StatusTypes, StreamInv, Kept
<1>1. CASE ReadSeed(h)
  BY <1>1 DEF ReadSeed, streams
<1>9. CASE SendSeed(h)
  <2>1. \/ queue' = queue
        \/ queue' = [queue EXCEPT ![h] = Append(@, seed[h])]
    BY <1>9 DEF SendSeed
  <2>2. \/ overtaken' = overtaken
        \/ \E v : overtaken' = [overtaken EXCEPT ![h] = v]
    BY <1>9 DEF SendSeed
  <2>3. /\ sub' = [sub EXCEPT ![h] = "on"] /\ seed' = [seed EXCEPT ![h] = Nothing]
        /\ pc' = [pc EXCEPT ![h] = IF lazy[h] THEN @ ELSE "greet"]
        /\ UNCHANGED <<shut, lazy, out, pending, view, caught, sank>>
    BY <1>9 DEF SendSeed
  <2> QED BY <2>1, <2>2, <2>3
<1>2. CASE Poll(h) \/ StopPolling(h) \/ Subscribe(h)
  BY <1>2 DEF Poll, StopPolling, Subscribe, Subscribed, streams, process
<1>3. CASE Forward(h)
  BY <1>3 DEF Forward, streams
<1>4. CASE StopForwarding(h)
  BY <1>4 DEF StopForwarding, Cancel, Closes, streams
<1>5. CASE Unsubscribe(h) /\ lazy[h]
  BY <1>5 DEF Unsubscribe
<1>6. CASE Unsubscribe(h) /\ ~lazy[h]
  <2>1. g \in shut' => g \in shut
    <3>1. Cancel(h)
      BY <1>6 DEF Unsubscribe
    <3> QED BY <3>1 DEF Cancel, Closes
  <2>2. /\ sub' = [sub EXCEPT ![h] = "none"] /\ queue' = [queue EXCEPT ![h] = <<>>]
        /\ pc' = [pc EXCEPT ![h] = "release"]
        /\ UNCHANGED <<out, seed, pending, view, caught, sank, overtaken, lazy>>
    BY <1>6 DEF Unsubscribe
  <2> QED BY <2>1, <2>2
<1>7. CASE Receive(h)
  BY <1>7 DEF Receive, Taken, Sends, Shown
<1>8. CASE Greet(h) \/ Coalesce(h) \/ StreamEnds(h) \/ Disconnect(h) \/ Release(h) \/ Admit(h)
  BY <1>8 DEF Greet, Coalesce, Shown, StreamEnds, Disconnect, Release, Admit, feed
<1> QED BY <1>1, <1>2, <1>3, <1>4, <1>5, <1>6, <1>7, <1>8, <1>9 DEF FeedStep, StreamStep

\* A client's move, and what it is to the types.
LEMMA StatusTypesStep ==
    ASSUME StatusTypes, NEW h \in Clients, sub[h] = "send" => seed[h] \in Int,
           FeedStep(h) \/ StreamStep(h) \/ Admit(h) \/ Disconnect(h)
    PROVE  StatusTypes' /\ UNCHANGED <<version, main, open>>
<1>1. Status \in Int
  BY DEF Status, Starting, StatusTypes
<1>2. UNCHANGED <<version, main, open>>
  <2>1. CASE FeedStep(h)
    BY <2>1 DEF FeedStep, ReadSeed, SendSeed, Poll, StopPolling, Forward,
       StopForwarding, process, crawling
  <2>2. CASE StreamStep(h)
    BY <2>2 DEF StreamStep, Subscribe, Greet, Receive, Coalesce, StreamEnds,
       Unsubscribe, Release, process, crawling
  <2>3. CASE Admit(h) \/ Disconnect(h)
    BY <2>3 DEF Admit, Disconnect, process, crawling
  <2> QED BY <2>1, <2>2, <2>3
<1>3. subs' # {} => open' = "ready"
  <2>1. CASE FeedStep(h)
    BY <1>2, <2>1 DEF StatusTypes, FeedStep, ReadSeed, SendSeed, Poll, Subscribed,
       StopPolling, Forward, StopForwarding, Cancel, Closes
  <2>2. CASE StreamStep(h)
    BY <1>2, <2>2 DEF StatusTypes, StreamStep, Subscribe, Subscribed, Greet, Receive,
       Coalesce, StreamEnds, Unsubscribe, Cancel, Closes, Release, feed
  <2>3. CASE Admit(h) \/ Disconnect(h)
    BY <1>2, <2>3 DEF StatusTypes, Admit, Disconnect, feed
  <2> QED BY <2>1, <2>2, <2>3
<1>4. /\ queue[h] \in Seq(Int) /\ out[h] \in Seq(Int) /\ Nothing \in Values
      /\ pending[h] \in Values /\ seed[h] \in Values /\ version \in Values
  BY DEF StatusTypes, Values
<1>5. CASE ReadSeed(h)
  BY <1>2, <1>3, <1>4, <1>5 DEF ReadSeed, StatusTypes, streams
<1>6. CASE SendSeed(h)
  <2>1. Append(queue[h], seed[h]) \in Seq(Int)
    <3>1. seed[h] \in Int
      BY <1>6 DEF SendSeed
    <3> QED BY <1>4, <3>1
  <2>2. queue' = [queue EXCEPT ![h] = Append(@, seed[h])] \/ queue' = queue
    BY <1>6 DEF SendSeed
  <2>3. queue' \in [Clients -> Seq(Int)]
    BY <2>1, <2>2 DEF StatusTypes
  <2>4. /\ overtaken' \in [Clients -> {"no", "last", "once"}]
        /\ seed' \in [Clients -> Values]
        /\ UNCHANGED <<out, pending, view, caught, sank>>
    BY <1>4, <1>6 DEF SendSeed, StatusTypes
  <2> QED BY <1>2, <1>3, <2>3, <2>4 DEF StatusTypes
<1>7. CASE Poll(h)
  BY <1>2, <1>3, <1>4, <1>7 DEF Poll, Subscribed, StatusTypes, streams
<1>8. CASE StopPolling(h) \/ StreamEnds(h) \/ Disconnect(h) \/ Admit(h)
  <2>1. UNCHANGED <<queue, out, seed, pending, view, overtaken, caught, sank>>
    BY <1>8 DEF StopPolling, StreamEnds, Disconnect, Admit, streams, feed
  <2> QED BY <1>2, <1>3, <2>1 DEF StatusTypes
<1>9. CASE Forward(h)
  <2>1. Append(out[h], Head(queue[h])) \in Seq(Int) /\ Tail(queue[h]) \in Seq(Int)
    BY <1>4, <1>9, TailInOrder DEF Forward
  <2>2. queue' \in [Clients -> Seq(Int)] /\ out' \in [Clients -> Seq(Int)]
    BY <1>9, <2>1 DEF Forward, StatusTypes
  <2>3. UNCHANGED <<seed, pending, view, overtaken, caught, sank>>
    BY <1>9 DEF Forward, streams
  <2> QED BY <1>2, <1>3, <2>2, <2>3 DEF StatusTypes
<1>10. CASE StopForwarding(h) \/ Unsubscribe(h)
  <2>1. <<>> \in Seq(Int)
    OBVIOUS
  <2>2. queue' = [queue EXCEPT ![h] = <<>>] \/ queue' = queue
    BY <1>10 DEF StopForwarding, Unsubscribe
  <2>3. out' = [out EXCEPT ![h] = <<>>] \/ out' = out
    BY <1>10 DEF StopForwarding, Unsubscribe
  <2>4. UNCHANGED <<seed, pending, view, overtaken, caught, sank>>
    BY <1>10 DEF StopForwarding, Unsubscribe, streams
  <2>5. queue' \in [Clients -> Seq(Int)] /\ out' \in [Clients -> Seq(Int)]
    BY <2>1, <2>2, <2>3 DEF StatusTypes
  <2> QED BY <1>2, <1>3, <2>4, <2>5 DEF StatusTypes
<1>11. CASE Subscribe(h)
  <2>1. <<>> \in Seq(Int)
    OBVIOUS
  <2>2. queue' = [queue EXCEPT ![h] = <<>>] \/ queue' = queue
    BY <1>11 DEF Subscribe, Subscribed
  <2>3. overtaken' = [overtaken EXCEPT ![h] = "no"] \/ overtaken' = overtaken
    BY <1>11 DEF Subscribe, Subscribed
  <2>4. UNCHANGED <<out, seed, pending, view, caught, sank>>
    BY <1>11 DEF Subscribe
  <2>5. /\ queue' \in [Clients -> Seq(Int)]
        /\ overtaken' \in [Clients -> {"no", "last", "once"}]
    BY <2>1, <2>2, <2>3 DEF StatusTypes
  <2> QED BY <1>2, <1>3, <2>4, <2>5 DEF StatusTypes
<1>12. CASE Greet(h) \/ Coalesce(h) \/ Release(h)
  <2>1. UNCHANGED <<queue, out, seed, overtaken>>
    BY <1>12 DEF Greet, Coalesce, Release, feed
  <2>2. /\ view' \in [Clients -> Values] /\ pending' \in [Clients -> Values]
        /\ caught' \in [Clients -> BOOLEAN] /\ sank' \in [Clients -> BOOLEAN]
    BY <1>1, <1>4, <1>12 DEF Greet, Coalesce, Release, Shown, StatusTypes, Values
  <2> QED BY <1>2, <1>3, <2>1, <2>2 DEF StatusTypes
<1>13. CASE Receive(h)
  <2>1. /\ Events(h) \in Seq(Int) /\ Events(h) # <<>>
    BY <1>4, <1>13 DEF Events, Receive
  <2>2. Head(Events(h)) \in Int /\ Tail(Events(h)) \in Seq(Int)
    BY <2>1, TailInOrder
  <2>3. queue' \in [Clients -> Seq(Int)] /\ out' \in [Clients -> Seq(Int)]
    BY <1>13, <2>2 DEF Receive, Taken, Events, StatusTypes
  <2>4. /\ view' \in [Clients -> Values] /\ pending' \in [Clients -> Values]
        /\ caught' \in [Clients -> BOOLEAN]
    <3> DEFINE st == Head(Events(h))
    <3>1. \/ /\ view' = [view EXCEPT ![h] = st] /\ caught' = [caught EXCEPT ![h] = TRUE]
             /\ pending' = [pending EXCEPT ![h] = Nothing]
          \/ /\ pending' = [pending EXCEPT ![h] = st] /\ UNCHANGED <<view, caught>>
      BY <1>13 DEF Receive, Sends, Shown
    <3>2. st \in Values /\ Nothing \in Values
      BY <2>2 DEF Values
    <3> HIDE DEF st
    <3> QED BY <3>1, <3>2 DEF StatusTypes
  <2>5. sank' \in [Clients -> BOOLEAN]
    <3>1. sank' = sank \/ \E b \in BOOLEAN : sank' = [sank EXCEPT ![h] = b]
      <4>1. \/ sank' = sank
            \/ sank' = [sank EXCEPT ![h] = @ \/ (caught[h] /\ Head(Events(h)) < view[h])]
        BY <1>13 DEF Receive, Sends, Shown
      <4>2. (sank[h] \/ (caught[h] /\ Head(Events(h)) < view[h])) \in BOOLEAN
        OBVIOUS
      <4> HIDE DEF StatusTypes
      <4> QED BY <4>1, <4>2
    <3> QED BY <3>1 DEF StatusTypes
  <2> QED BY <1>2, <1>3, <1>13, <2>3, <2>4, <2>5 DEF Receive, StatusTypes
<1> QED BY <1>5, <1>6, <1>7, <1>9, <1>10, <1>12, <1>13,
       <1>8, <1>11 DEF FeedStep, StreamStep

\* The moves of a client that begin, end, or leave alone what it is shown.
LEMMA QuietMoveIsSound ==
    ASSUME StatusInv, StreamInv, ChannelInv, NEW h \in Clients,
           \/ ReadSeed(h) \/ Poll(h) \/ StopPolling(h) \/ StopForwarding(h)
           \/ Admit(h) \/ Subscribe(h) \/ Greet(h) \/ StreamEnds(h)
           \/ Disconnect(h) \/ Unsubscribe(h) \/ Release(h)
    PROVE  Sound(h)'
<1>1. /\ StatusTypes /\ Sound(h) /\ UNCHANGED <<version, main>>
      /\ sub[h] = "send" => seed[h] \in Int
  BY StatusTypesStep DEF StatusInv, Sound, Begins, FeedStep, StreamStep
<1> USE DEF Sound
<1>2. CASE ReadSeed(h)
  <2>1. /\ sub[h] = "seed" /\ sub'[h] = "send" /\ seed'[h] = version
        /\ UNCHANGED <<queue, out, pending, view, caught, sank, overtaken, pc, lazy, shut>>
    BY <1>1, <1>2 DEF ReadSeed, streams, StatusTypes, StreamInv
  <2> QED BY <1>1, <2>1 DEF Begins, Fresh, Known, Line, InOrder, Before, StatusTypes
<1>3. CASE Poll(h)
  <2>1. /\ sub[h] = "poll" /\ sub'[h] = "seed" /\ queue'[h] = <<>>
        /\ overtaken'[h] = "no" /\ Fresh(h)
        /\ UNCHANGED <<out, pending, view, caught, sank, pc, lazy>>
    BY <1>1, <1>3 DEF Poll, Subscribed, streams, StatusTypes, StreamInv, Begins
  <2> QED BY <1>1, <2>1 DEF Begins, Fresh, Known, Line, InOrder, Before
<1>4. CASE StopPolling(h)
  <2>1. /\ sub[h] = "poll" /\ sub'[h] = "none" /\ Fresh(h)
        /\ UNCHANGED <<queue, out, seed, pending, view, caught, sank, overtaken, pc, lazy, shut>>
    BY <1>1, <1>4 DEF StopPolling, streams, StreamInv, Begins
  <2> QED BY <1>1, <2>1 DEF Begins, Fresh, Known, Line, InOrder, Before
<1>5. CASE StopForwarding(h)
  <2>1. /\ sub[h] = "on" /\ sub'[h] = "none" /\ queue'[h] = <<>>
        /\ \/ out'[h] = <<>>
           \/ out'[h] = out[h] /\ lazy[h] /\ h \in shut
        /\ UNCHANGED <<pending, view, caught, sank, overtaken, pc, lazy>>
    BY <1>1, <1>5 DEF StopForwarding, streams, StatusTypes, StreamInv
  <2>2. pc[h] # "admitted"
    BY <2>1 DEF StreamInv, FeedOrder
  <2> QED BY <1>1, <2>1, <2>2 DEF Begins, Fresh, Known, Line, InOrder, Before
<1>6. CASE Admit(h)
  <2>1. /\ pc[h] = "off" /\ sub[h] = "none" /\ main = "serve"
        /\ pc'[h] \in {"refuse", "admitted"}
        /\ UNCHANGED <<queue, out, seed, pending, view, caught, sank, overtaken, sub, lazy, shut>>
    BY <1>1, <1>6 DEF Admit, feed, StreamInv
  <2>2. Fresh(h)
    BY <1>1, <2>1 DEF Begins, Fresh
  <2> QED BY <1>1, <2>1, <2>2 DEF Begins, Fresh, Known, Line, InOrder, Before
<1>7. CASE Subscribe(h)
  <2>1. /\ pc[h] = "admitted" /\ Fresh(h) /\ sub[h] = "none"
        /\ pc'[h] \in {"subscribing", "greet"} /\ sub'[h] \in {"seed", "poll"}
        /\ \/ sub'[h] = "seed" /\ queue'[h] = <<>> /\ overtaken'[h] = "no"
           \/ sub'[h] = "poll" /\ UNCHANGED <<queue, overtaken>>
        /\ UNCHANGED <<out, pending, view, caught, sank>>
    BY <1>1, <1>7 DEF Subscribe, Subscribed, StatusTypes, StreamInv, FeedOrder, Begins
  <2> QED BY <1>1, <2>1 DEF Begins, Fresh, Known, Line, InOrder, Before
<1>8. CASE Greet(h)
  <2>1. /\ pc[h] = "greet" /\ pc'[h] = "stream" /\ ~caught[h] /\ pending[h] = Nothing
        /\ UNCHANGED <<queue, out, seed, pending, caught, sank, overtaken, sub, lazy, shut>>
    BY <1>1, <1>8 DEF Greet, feed, StreamInv, Begins
  <2> QED BY <1>1, <2>1 DEF Begins, Fresh, Known, Line, InOrder, Before
<1>9. CASE StreamEnds(h) \/ Disconnect(h)
  <2>1. /\ pc'[h] = "leave"
        /\ UNCHANGED <<queue, out, seed, pending, view, caught, sank, overtaken, sub, lazy, shut>>
    BY <1>1, <1>9 DEF StreamEnds, Disconnect, feed, StreamInv
  <2> QED BY <1>1, <2>1 DEF Begins, Fresh, Known, Line, InOrder, Before
<1>10. CASE Unsubscribe(h)
  <2>1. /\ pc[h] = "leave" /\ pc'[h] = "release"
        /\ \/ UNCHANGED <<sub, queue, shut>>
           \/ sub'[h] = "none" /\ queue'[h] = <<>> /\ ~lazy[h]
        /\ UNCHANGED <<out, seed, pending, view, caught, sank, overtaken, lazy>>
    BY <1>1, <1>10 DEF Unsubscribe, StatusTypes, StreamInv
  <2> QED BY <1>1, <2>1 DEF Begins, Fresh, Known, Line, InOrder, Before
<1>11. CASE Release(h)
  <2>1. /\ pc'[h] = "off" /\ pending'[h] = Nothing /\ caught'[h] = FALSE
        /\ UNCHANGED <<queue, out, seed, overtaken, sub, lazy, shut>>
    BY <1>1, <1>11 DEF Release, feed, StatusTypes, StreamInv
  <2> QED BY <1>1, <2>1 DEF Begins, Fresh, Known, Line, InOrder, Before
<1> QED BY <1>2, <1>3, <1>4, <1>5, <1>6, <1>7, <1>8, <1>9, <1>10, <1>11

\* The seed goes behind what was pushed while it was on its way; only when
\* that is newer are the channel's statuses not in order.
LEMMA SeedIsSound ==
    ASSUME StatusInv, StreamInv, ChannelInv, NEW h \in Clients, SendSeed(h)
    PROVE  Sound(h)'
<1>1. /\ StatusTypes /\ Sound(h) /\ UNCHANGED <<version, main, open>>
      /\ sub[h] = "send" /\ seed[h] \in Int /\ seed[h] <= version
  BY StatusTypesStep DEF StatusInv, Sound, Begins, FeedStep, SendSeed
<1>2. /\ queue[h] \in Seq(Int) /\ out[h] = <<>> /\ pending[h] = Nothing
      /\ ~caught[h] /\ overtaken[h] = "no" /\ Line(h) /\ Known(h)
  BY <1>1 DEF Sound, Begins, Fresh, StatusTypes
<1>3. /\ sub'[h] = "on" /\ UNCHANGED <<shut, out, pending, view, caught, sank, lazy>>
      /\ pc'[h] # "admitted"
      /\ h \in shut => main # "serve"
  BY <1>1 DEF SendSeed, StreamInv, FeedOrder, ChannelInv
<1>4. Begins(h)'
  BY <1>1, <1>2, <1>3 DEF Begins, Fresh
<1>5. CASE queue'[h] = queue[h]
  <2>1. Known(h)'
    BY <1>1, <1>2, <1>3, <1>5 DEF Known
  <2>2. Line(h)'
    BY <1>2, <1>3, <1>5 DEF Line, InOrder
  <2> QED BY <1>4, <2>1, <2>2 DEF Sound
<1>6. CASE /\ queue'[h] = Append(queue[h], seed[h])
           /\ overtaken'[h] = "no" =>
                queue[h] = <<>> \/ seed[h] >= queue[h][Len(queue[h])]
  <2>1. Known(h)'
    <3>1. \A i \in 1..Len(queue[h]) : queue[h][i] <= version
      BY <1>2 DEF Known
    <3>2. \A i \in 1..Len(queue'[h]) : queue'[h][i] <= version
      <4> SUFFICES ASSUME NEW i \in 1..Len(Append(queue[h], seed[h]))
                   PROVE  Append(queue[h], seed[h])[i] <= version
        BY <1>6
      <4>1. CASE i = Len(queue[h]) + 1
        BY <1>1, <1>2, <4>1
      <4>2. CASE i \in 1..Len(queue[h])
        BY <1>1, <1>2, <3>1, <4>2
      <4> QED BY <1>1, <1>2, <4>1, <4>2
    <3> QED BY <1>1, <1>2, <1>3, <3>2 DEF Known
  <2>2. ASSUME overtaken'[h] = "no" PROVE Line(h)'
    <3>1. \A i \in 1..Len(queue[h]) : queue[h][i] <= seed[h]
      <4> SUFFICES ASSUME NEW i \in 1..Len(queue[h])
                   PROVE  queue[h][i] <= seed[h]
        OBVIOUS
      <4>1. queue[h][i] \in Int /\ queue[h] # <<>> /\ Len(queue[h]) \in 1..Len(queue[h])
        BY <1>2
      <4>2. queue[h][i] <= queue[h][Len(queue[h])] /\ queue[h][Len(queue[h])] \in Int
        BY <1>2, <4>1 DEF Line, InOrder
      <4>3. seed[h] >= queue[h][Len(queue[h])]
        BY <1>6, <2>2, <4>1
      <4> QED BY <1>1, <4>1, <4>2, <4>3
    <3>2. InOrder(queue'[h])
      BY <1>1, <1>2, <1>6, <3>1, AppendInOrder DEF Line
    <3> QED BY <1>2, <1>3, <3>2 DEF Line, InOrder
  <2> QED BY <1>4, <2>1, <2>2 DEF Sound
<1>7. \/ queue'[h] = queue[h]
      \/ /\ queue'[h] = Append(queue[h], seed[h])
         /\ overtaken'[h] = "no" =>
              queue[h] = <<>> \/ seed[h] >= queue[h][Len(queue[h])]
  <2>1. queue' = queue \/ queue' = [queue EXCEPT ![h] = Append(@, seed[h])]
    BY DEF SendSeed
  <2>2. CASE queue' # queue
    <3>1. /\ queue' = [queue EXCEPT ![h] = Append(@, seed[h])]
          /\ overtaken' = [overtaken EXCEPT ![h] =
               IF queue[h] # <<>> /\ seed[h] < queue[h][Len(queue[h])]
               THEN "last" ELSE "no"]
      BY <2>2 DEF SendSeed
    <3>2. queue[h] # <<>> => queue[h][Len(queue[h])] \in Int
      BY <1>2
    <3> QED BY <1>1, <3>1, <3>2 DEF StatusTypes
  <2> QED BY <2>2
<1> QED BY <1>5, <1>6, <1>7

\* What the stand-in takes first it gives last.
LEMMA ForwardIsSound ==
    ASSUME StatusInv, StreamInv, NEW h \in Clients, Forward(h)
    PROVE  Sound(h)'
<1>1. /\ StatusTypes /\ Sound(h) /\ UNCHANGED <<version, main, open>>
  BY StatusTypesStep DEF StatusInv, Sound, Begins, FeedStep
<1> DEFINE st == Head(queue[h])
<1>2. /\ queue[h] \in Seq(Int) /\ out[h] \in Seq(Int) /\ queue[h] # <<>>
      /\ lazy[h] /\ sub[h] = "on" /\ version \in Nat
      /\ pending[h] \in Values /\ view[h] \in Values
  BY <1>1 DEF Forward, StatusTypes
<1>3. /\ out'[h] = Append(out[h], st) /\ queue'[h] = Tail(queue[h])
      /\ UNCHANGED <<shut, sub, lazy, pc, pending, view, caught, sank, overtaken, seed>>
  BY <1>1 DEF Forward, StatusTypes, streams
<1>4. Begins(h)'
  <2>1. pc[h] # "admitted"
    BY <1>2 DEF StreamInv, FeedOrder
  <2> QED BY <1>1, <1>2, <1>3, <2>1 DEF Sound, Begins, Fresh
<1>5. /\ st \in Int /\ st <= version
      /\ \A i \in 1..Len(Tail(queue[h])) : Tail(queue[h])[i] <= version
      /\ InOrder(queue[h]) => InOrder(Tail(queue[h])) /\ Before(st, Tail(queue[h]))
      /\ \A y \in Int : Before(y, queue[h]) => Before(y, Tail(queue[h])) /\ y <= st
  BY <1>1, <1>2, TailInOrder DEF Sound, Known
<1>6. Known(h)'
  <2>1. \A i \in 1..Len(Append(out[h], st)) : Append(out[h], st)[i] <= version
    BY <1>1, <1>2, <1>5 DEF Sound, Known
  <2> QED BY <1>1, <1>3, <1>5, <2>1 DEF Sound, Known
<1>7. ASSUME overtaken'[h] = "no" PROVE Line(h)'
  <2>1. Line(h) /\ Known(h)
    BY <1>1, <1>3, <1>7 DEF Sound
  <2>2. \A i \in 1..Len(out[h]) : out[h][i] <= st
    BY <1>2, <1>5, <2>1 DEF Line
  <2>3. /\ InOrder(Append(out[h], st))
        /\ \A y \in Int : Before(y, out[h]) /\ y <= st => Before(y, Append(out[h], st))
    BY <1>2, <1>5, <2>1, <2>2, AppendInOrder DEF Line
  <2>4. \A i \in 1..Len(Append(out[h], st)) : Before(Append(out[h], st)[i], Tail(queue[h]))
    <3> SUFFICES ASSUME NEW i \in 1..Len(Append(out[h], st))
                 PROVE  Before(Append(out[h], st)[i], Tail(queue[h]))
      OBVIOUS
    <3>1. CASE i = Len(out[h]) + 1
      BY <1>2, <1>5, <2>1, <3>1 DEF Line
    <3>2. CASE i \in 1..Len(out[h])
      <4>1. Append(out[h], st)[i] = out[h][i] /\ out[h][i] \in Int
        BY <1>2, <3>2
      <4> QED BY <1>5, <2>1, <3>2, <4>1 DEF Line
    <3> QED BY <1>2, <3>1, <3>2
  <2>5. pending[h] # Nothing =>
            Before(pending[h], Append(out[h], st)) /\ Before(pending[h], Tail(queue[h]))
    BY <1>2, <1>5, <2>1, <2>3 DEF Line, Values
  <2>6. caught[h] => /\ Before(view[h], Append(out[h], st))
                     /\ Before(view[h], Tail(queue[h]))
    BY <1>2, <1>5, <2>1, <2>3 DEF Line, Known
  <2> QED BY <1>3, <1>5, <2>1, <2>3, <2>4, <2>5, <2>6 DEF Line
<1> QED BY <1>4, <1>6, <1>7 DEF Sound

\* The oldest status on its way is the one a client receives.
LEMMA ReceiveIsSound ==
    ASSUME StatusInv, StreamInv, NEW h \in Clients, Receive(h)
    PROVE  /\ Sound(h)'
           /\ overtaken[h] = "no" /\ caught[h] => view'[h] >= view[h]
<1>1. /\ StatusTypes /\ Sound(h) /\ UNCHANGED <<version, main, open>>
  BY StatusTypesStep DEF StatusInv, Sound, Begins, StreamStep
<1> DEFINE st == Head(Events(h))
<1>2. /\ queue[h] \in Seq(Int) /\ out[h] \in Seq(Int) /\ version \in Nat
      /\ pending[h] \in Values /\ view[h] \in Values
      /\ pc[h] = "stream" /\ Events(h) # <<>>
  BY <1>1 DEF Receive, StatusTypes
<1>3. /\ UNCHANGED <<shut, sub, lazy, pc, overtaken, seed>>
      /\ \/ view'[h] = st /\ caught'[h] /\ pending'[h] = Nothing
         \/ pending'[h] = st /\ view'[h] = view[h] /\ caught'[h] = caught[h]
  BY <1>1 DEF Receive, Sends, Shown, StatusTypes
<1>4. /\ \/ /\ lazy[h] /\ st = Head(out[h]) /\ out[h] # <<>>
            /\ out'[h] = Tail(out[h]) /\ queue'[h] = queue[h]
         \/ /\ ~lazy[h] /\ st = Head(queue[h]) /\ queue[h] # <<>>
            /\ queue'[h] = Tail(queue[h]) /\ out'[h] = out[h] /\ out[h] = <<>>
  BY <1>1, <1>2 DEF Receive, Taken, Events, StatusTypes, Sound, Begins
<1>5. Begins(h)'
  <2>1. ~ Fresh(h) \/ ~lazy[h]
    BY <1>4 DEF Fresh
  <2>2. sub[h] \notin {"poll", "seed", "send"}
    BY <1>1, <1>2, <1>4, <2>1 DEF Sound, Begins, StreamInv, FeedOrder
  <2> QED BY <1>1, <1>2, <1>3, <1>4, <2>2 DEF Sound, Begins
<1>6. /\ st \in Int /\ st <= version
      /\ \A i \in 1..Len(queue'[h]) : queue'[h][i] <= version
      /\ \A i \in 1..Len(out'[h]) : out'[h][i] <= version
  <2>1. /\ \A i \in 1..Len(queue[h]) : queue[h][i] <= version
        /\ \A i \in 1..Len(out[h]) : out[h][i] <= version
    BY <1>1 DEF Sound, Known
  <2>2. ASSUME NEW s \in Seq(Int), s # <<>>, \A i \in 1..Len(s) : s[i] <= version
        PROVE  /\ Head(s) \in Int /\ Head(s) <= version
               /\ \A i \in 1..Len(Tail(s)) : Tail(s)[i] <= version
    <3>1. version \in Int
      BY <1>2
    <3> QED BY <2>2, <3>1, TailInOrder
  <2>3. CASE lazy[h]
    BY <1>2, <1>4, <2>1, <2>2, <2>3
  <2>4. CASE ~lazy[h]
    BY <1>2, <1>4, <2>1, <2>2, <2>4
  <2> QED BY <2>3, <2>4
<1>7. Known(h)'
  <2>1. pending'[h] # Nothing => pending'[h] <= version
    BY <1>1, <1>3, <1>6 DEF Sound, Known
  <2>2. caught'[h] => view'[h] \in Int /\ view'[h] <= version
    BY <1>1, <1>3, <1>6 DEF Sound, Known
  <2> QED BY <1>1, <1>6, <2>1, <2>2 DEF Known
<1>8. ASSUME overtaken[h] = "no"
      PROVE  Line(h)' /\ (caught[h] => view'[h] >= view[h])
  <2>1. Line(h) /\ Known(h)
    BY <1>1, <1>8 DEF Sound
  <2>2. /\ InOrder(queue'[h]) /\ InOrder(out'[h])
        /\ Before(st, out'[h]) /\ Before(st, queue'[h])
    <3>1. CASE lazy[h]
      <4>1. Before(st, queue[h])
        BY <1>2, <1>4, <2>1, <3>1 DEF Line
      <4> QED BY <1>2, <1>4, <2>1, <3>1, <4>1, TailInOrder DEF Line
    <3>2. CASE ~lazy[h]
      <4>1. out'[h] = <<>> /\ InOrder(out'[h]) /\ Before(st, out'[h])
        BY <1>4, <3>2 DEF InOrder, Before
      <4> QED BY <1>2, <1>4, <2>1, <3>2, <4>1, TailInOrder DEF Line
    <3> QED BY <3>1, <3>2
  <2>3. \A i \in 1..Len(out'[h]) : Before(out'[h][i], queue'[h])
    <3>1. CASE lazy[h]
      <4>1. /\ Tail(out[h]) \in Seq(Int) /\ Len(Tail(out[h])) = Len(out[h]) - 1
            /\ \A i \in 1..Len(Tail(out[h])) :
                 i + 1 \in 1..Len(out[h]) /\ Tail(out[h])[i] = out[h][i + 1]
        BY <1>2, <1>4, <3>1
      <4> QED BY <1>4, <2>1, <3>1, <4>1 DEF Line
    <3>2. CASE ~lazy[h]
      BY <1>4, <3>2
    <3> QED BY <3>1, <3>2
  <2>4. ASSUME NEW y \in Int, Before(y, out[h]), Before(y, queue[h])
        PROVE  y <= st /\ Before(y, out'[h]) /\ Before(y, queue'[h])
    BY <1>2, <1>4, <2>4, TailInOrder
  <2>5. CASE view'[h] = st /\ caught'[h] /\ pending'[h] = Nothing
    <3>1. caught[h] => view[h] <= st
      BY <2>1, <2>4 DEF Line, Known
    <3> QED BY <1>6, <2>1, <2>2, <2>3, <2>5, <3>1 DEF Line, Known
  <2>6. CASE pending'[h] = st /\ view'[h] = view[h] /\ caught'[h] = caught[h]
    <3>1. caught[h] => /\ view[h] <= st
                       /\ Before(view[h], out'[h]) /\ Before(view[h], queue'[h])
      BY <2>1, <2>4 DEF Line, Known
    <3> QED BY <2>1, <2>2, <2>3, <2>6, <3>1 DEF Line, Known
  <2> QED BY <1>3, <2>5, <2>6
<1> QED BY <1>3, <1>5, <1>7, <1>8 DEF Sound

\* What was put off is older than what is still to come.
LEMMA CoalesceIsSound ==
    ASSUME StatusInv, StreamInv, NEW h \in Clients, Coalesce(h)
    PROVE  /\ Sound(h)'
           /\ overtaken[h] = "no" /\ caught[h] => view'[h] >= view[h]
<1>1. /\ StatusTypes /\ Sound(h) /\ UNCHANGED <<version, main, open>>
  BY StatusTypesStep DEF StatusInv, Sound, Begins, StreamStep
<1>2. /\ pc[h] = "stream" /\ pending[h] # Nothing /\ pending[h] \in Int
      /\ view'[h] = pending[h] /\ caught'[h] /\ pending'[h] = Nothing
      /\ UNCHANGED <<queue, out, shut, sub, lazy, pc, overtaken, seed>>
  BY <1>1 DEF Coalesce, Shown, feed, StatusTypes, Values, StreamInv
<1>3. Begins(h)'
  BY <1>1, <1>2 DEF Sound, Begins, Fresh
<1>4. Known(h)'
  BY <1>1, <1>2 DEF Sound, Known
<1>5. ASSUME overtaken[h] = "no"
      PROVE  Line(h)' /\ (caught[h] => view'[h] >= view[h])
  <2>1. Line(h) /\ Known(h)
    BY <1>1, <1>5 DEF Sound
  <2> QED BY <1>2, <2>1 DEF Line, Known, InOrder, Before
<1> QED BY <1>2, <1>3, <1>4, <1>5 DEF Sound

\* What goes by without a word to the clients.
Silent ==
    /\ UNCHANGED <<queue, out, seed, overtaken, sub, lazy, streams>>
    /\ version' \in {version, version + 1}
    /\ main # "serve" => main' # "serve"
    /\ shut' = shut \/ main' # "serve"
    /\ subs' # {} => open' = "ready"

LEMMA SilentIsSound ==
    ASSUME StatusInv, Silent
    PROVE  StatusInv'
<1>1. /\ version \in Nat /\ version' \in Nat /\ version <= version'
  BY DEF StatusInv, StatusTypes, Silent
<1>2. StatusTypes'
  BY <1>1 DEF StatusInv, StatusTypes, Silent, streams
<1>3. ASSUME NEW g \in Clients PROVE Sound(g)'
  <2>1. Kept(g)
    BY DEF Silent, Kept, streams
  <2>2. main # "serve" => main' # "serve"
    BY DEF Silent
  <2> QED BY <1>1, <2>1, <2>2, KeptIsSound DEF StatusInv
<1> QED BY <1>2, <1>3 DEF StatusInv

\* All that is neither a push nor a client's move.
LEMMA RestIsSilent ==
    ASSUME StatusInv,
           \/ CallerStep \/ Opens \/ Stopping \/ MainStep \/ SchedulerStarts
           \/ SchedulerStops \/ Pause \/ Resume \/ TimerFires \/ CrawlEnds \/ CrawlDone
           \/ Progress \/ \E at \in Following(crawl.at) : Enter(at)
    PROVE  Silent
<1> USE DEF StatusInv, StatusTypes, Silent
<1>1. CASE TimerFires \/ CrawlEnds \/ CrawlDone \/ Pause \/ Resume
           \/ SchedulerStarts \/ SchedulerStops
  BY <1>1 DEF TimerFires, CrawlEnds, CrawlDone, Pause, Resume, SchedulerStarts,
     SchedulerStops, process, crawling, feed
<1>2. CASE Progress \/ \E at \in Following(crawl.at) : Enter(at)
  BY <1>2 DEF Progress, Enter, process, feed
<1>3. CASE CallerStep
  BY <1>3 DEF CallerStep, CallStep, Refused, Claim, Register, Spawn, Reschedule,
     AskRescan, SetConfig, process, crawling, feed
<1>4. CASE Opens
  BY <1>4 DEF Opens, crawling, feed
<1>5. CASE CloseEndsFeed
  BY <1>5 DEF CloseEndsFeed, MainGoes, crawling
<1>6. CASE \/ Stopping \/ ShutdownReturns \/ CloseBegins \/ CloseCancels
           \/ CloseWaits \/ CloseStopsCron \/ CloseStore
  BY <1>6 DEF Stopping, ShutdownReturns, CloseBegins, CloseCancels, CloseWaits,
     CloseStopsCron, CloseStore, MainGoes, crawling, feed
<1> QED BY <1>1, <1>2, <1>3, <1>4, <1>5, <1>6 DEF MainStep

\* An announcement is a push, or leaves it to the timer.
LEMMA TellingIsSound ==
    ASSUME StatusInv, Tell \/ TimerPushes
    PROVE  StatusInv' /\ UNCHANGED view
<1>1. UNCHANGED <<version, main, open, streams>> /\ (Push \/ UNCHANGED feed)
  BY DEF Tell, TimerPushes, notify, Coalesced, process, crawling
<1>2. CASE UNCHANGED feed
  <2>1. Silent
    BY <1>1, <1>2 DEF Silent, feed, StatusInv, StatusTypes
  <2> QED BY <1>1, <2>1, SilentIsSound DEF streams
<1> QED BY <1>1, <1>2, PushIsSound DEF streams

\* A client's move, to its own view and to the others'.
LEMMA ClientIsSound ==
    ASSUME StatusInv, StreamInv, ChannelInv, NEW h \in Clients,
           FeedStep(h) \/ StreamStep(h) \/ Admit(h) \/ Disconnect(h)
    PROVE  StatusInv' /\ \A g \in Clients \ {h} : view'[g] = view[g]
<1>1. StatusTypes' /\ UNCHANGED <<version, main, open>>
  BY StatusTypesStep DEF StatusInv, Sound, Begins
<1>2. ASSUME NEW g \in Clients, g # h PROVE Sound(g)' /\ view'[g] = view[g]
  <2>1. Kept(g)
    BY <1>2, OthersKept DEF StatusInv
  <2>2. version' \in Nat /\ version <= version'
    BY <1>1 DEF StatusInv, StatusTypes
  <2> QED BY <1>1, <2>1, <2>2, KeptIsSound DEF StatusInv, Kept
<1>3. Sound(h)'
  <2>1. CASE SendSeed(h) \/ Forward(h)
    BY <2>1, SeedIsSound, ForwardIsSound
  <2>2. CASE Receive(h) \/ Coalesce(h)
    BY <2>2, ReceiveIsSound, CoalesceIsSound
  <2>3. CASE \/ ReadSeed(h) \/ Poll(h) \/ StopPolling(h) \/ StopForwarding(h)
             \/ Admit(h) \/ Subscribe(h) \/ Greet(h) \/ StreamEnds(h)
             \/ Disconnect(h) \/ Unsubscribe(h) \/ Release(h)
    BY <2>3, QuietMoveIsSound
  <2> QED BY <2>1, <2>2, <2>3 DEF FeedStep, StreamStep
<1> QED BY <1>1, <1>2, <1>3 DEF StatusInv

LEMMA StatusInvInit == Init => StatusInv
<1> SUFFICES ASSUME Init PROVE StatusInv
  OBVIOUS
<1>1. StatusTypes
  BY DEF Init, StatusTypes, Values
<1>2. ASSUME NEW h \in Clients PROVE Sound(h)
  BY <1>2 DEF Init, Sound, Begins, Fresh, Known, Line, InOrder, Before
<1> QED BY <1>1, <1>2 DEF StatusInv

LEMMA StatusInvStep ==
    ASSUME StatusInv, StreamInv, ChannelInv, [Next]_vars
    PROVE  StatusInv'
<1>1. CASE UNCHANGED vars
  <2>1. Silent
    BY <1>1 DEF Silent, vars, process, crawling, feed, StatusInv, StatusTypes
  <2> QED BY <2>1, SilentIsSound
<1>2. CASE Alive /\ (Tell \/ TimerPushes)
  BY <1>2, TellingIsSound
<1>3. CASE Alive /\ ClientStep
  BY <1>3, ClientIsSound DEF ClientStep
<1>4. CASE Alive /\ (\/ CallerStep \/ Opens \/ Stopping \/ MainStep
                     \/ SchedulerStarts \/ SchedulerStops \/ Pause \/ Resume
                     \/ TimerFires \/ CrawlEnds \/ CrawlDone \/ Progress
                     \/ \E at \in Following(crawl.at) : Enter(at))
  BY <1>4, RestIsSilent, SilentIsSound
<1> QED BY <1>1, <1>2, <1>3, <1>4, NextSplits DEF OthersStep, CrawlStep

LEMMA StatusInvariant == Spec => []StatusInv
<1>1. StatusInv /\ StreamInv /\ ChannelInv /\ [Next]_vars => StatusInv'
  BY StatusInvStep
<1> QED BY <1>1, StatusInvInit, StreamInvariant, ChannelInvariant, PTL DEF Spec

\* In a channel no status is behind a newer one, unless a seed came late:
\* whatever the channels hold, and whoever pushes.
THEOREM PushOrder == Spec => []PushesInOrder
<1>1. StatusInv => PushesInOrder
  <2> SUFFICES ASSUME StatusInv, NEW h \in Clients, overtaken[h] = "no",
                      NEW i \in 1..Len(queue[h]) - 1
               PROVE  queue[h][i] <= queue[h][i + 1]
    BY DEF PushesInOrder
  <2>1. InOrder(queue[h]) /\ queue[h] \in Seq(Int)
    BY DEF StatusInv, StatusTypes, Sound, Line
  <2> QED BY <2>1 DEF InOrder
<1> QED BY <1>1, StatusInvariant, PTL

-----------------------------------------------------------------------------
(* How often a client's view goes back.                                    *)

\* What is still to come from the channel, the oldest first.
Coming(h) == out[h] \o queue[h]

\* At one place at most, s goes back; x and then s does.
FallsOnce(s) ==
    \A i, j, k, l \in 1..Len(s) : i < j /\ j <= k /\ k < l =>
        s[i] <= s[j] \/ s[k] <= s[l]
FallsOnceFrom(x, s) ==
    \A j, k, l \in 1..Len(s) : j <= k /\ k < l => x <= s[j] \/ s[k] <= s[l]

\* From what a client sees, v if it has seen an event, through what was put
\* off, p, to the end of its channel there is one place to fall at, and none
\* once its view has sunk.
LineFalls(s, p, v, seen, sunk) ==
    /\ FallsOnce(s)
    /\ p # Nothing => FallsOnceFrom(p, s)
    /\ seen => FallsOnceFrom(v, s)
    /\ seen /\ p # Nothing /\ p < v => InOrder(s) /\ Before(p, s)
    /\ sunk => /\ seen /\ InOrder(s) /\ Before(v, s)
               /\ p # Nothing => v <= p /\ Before(p, s)

OneFallLeft(h) ==
    LineFalls(Coming(h), pending[h], view[h], caught[h], sank[h])

LEMMA EmptyFalls ==
    /\ InOrder(<<>>) /\ FallsOnce(<<>>)
    /\ \A y : Before(y, <<>>) /\ FallsOnceFrom(y, <<>>)
BY DEF InOrder, Before, FallsOnce, FallsOnceFrom

\* The newest of all at the end is no place to fall at.
LEMMA PushedFalls ==
    ASSUME NEW s \in Seq(Int), NEW x \in Int, \A i \in 1..Len(s) : s[i] <= x
    PROVE  /\ InOrder(s) => InOrder(Append(s, x))
           /\ FallsOnce(s) => FallsOnce(Append(s, x))
           /\ \A y \in Int :
                /\ FallsOnceFrom(y, s) => FallsOnceFrom(y, Append(s, x))
                /\ y <= x /\ Before(y, s) => Before(y, Append(s, x))
<1> DEFINE t == Append(s, x)
<1>3. /\ Len(s) \in Nat /\ Len(t) = Len(s) + 1 /\ t[Len(s) + 1] = x
      /\ \A i \in 1..Len(s) : t[i] = s[i] /\ s[i] \in Int
  OBVIOUS
<1> HIDE DEF t
<1>4. \A i, j \in 1..Len(t) : i < j => i \in 1..Len(s) /\ t[i] <= x
  BY <1>3
<1>1. FallsOnce(s) => FallsOnce(t)
  <2> SUFFICES ASSUME FallsOnce(s), NEW i \in 1..Len(t), NEW j \in 1..Len(t),
                      NEW k \in 1..Len(t), NEW l \in 1..Len(t),
                      i < j, j <= k, k < l
               PROVE  t[i] <= t[j] \/ t[k] <= t[l]
    BY DEF FallsOnce
  <2>1. CASE l = Len(s) + 1
    BY <1>3, <1>4, <2>1
  <2>2. CASE l \in 1..Len(s)
    <3>1. {i, j, k} \subseteq 1..Len(s)
      BY <1>3, <2>2
    <3> QED BY <1>3, <2>2, <3>1 DEF FallsOnce
  <2> QED BY <1>3, <2>1, <2>2
<1>2. \A y \in Int : FallsOnceFrom(y, s) => FallsOnceFrom(y, t)
  <2> SUFFICES ASSUME NEW y \in Int, FallsOnceFrom(y, s), NEW j \in 1..Len(t),
                      NEW k \in 1..Len(t), NEW l \in 1..Len(t), j <= k, k < l
               PROVE  y <= t[j] \/ t[k] <= t[l]
    BY DEF FallsOnceFrom
  <2>1. CASE l = Len(s) + 1
    BY <1>3, <1>4, <2>1
  <2>2. CASE l \in 1..Len(s)
    <3>1. {j, k} \subseteq 1..Len(s)
      BY <1>3, <2>2
    <3> QED BY <1>3, <2>2, <3>1 DEF FallsOnceFrom
  <2> QED BY <1>3, <2>1, <2>2
<1> QED BY <1>1, <1>2, AppendInOrder DEF t

\* Whatever is put behind what is in order, falls at the end only.
LEMMA SeededFalls ==
    ASSUME NEW s \in Seq(Int), NEW x \in Int, InOrder(s)
    PROVE  FallsOnce(Append(s, x))
BY DEF InOrder, FallsOnce

\* What falls once has no place left after a fall.
LEMMA TakenFalls ==
    ASSUME NEW s \in Seq(Int), s # <<>>
    PROVE  /\ Tail(s) \in Seq(Int) /\ Head(s) \in Int
           /\ InOrder(s) => InOrder(Tail(s)) /\ Before(Head(s), Tail(s))
           /\ FallsOnce(s) => FallsOnce(Tail(s)) /\ FallsOnceFrom(Head(s), Tail(s))
           /\ \A y \in Int :
                /\ Before(y, s) => y <= Head(s) /\ Before(y, Tail(s))
                /\ FallsOnceFrom(y, s) => FallsOnceFrom(y, Tail(s))
                /\ FallsOnceFrom(y, s) /\ Head(s) < y =>
                     InOrder(Tail(s)) /\ Before(Head(s), Tail(s))
<1> DEFINE t == Tail(s)
<1>3. /\ Head(s) = s[1] /\ Len(s) \in Nat /\ 1 \in 1..Len(s)
      /\ Len(t) \in Nat /\ Len(t) = Len(s) - 1
      /\ \A i \in 1..Len(t) : i + 1 \in 1..Len(s) /\ t[i] = s[i + 1]
  OBVIOUS
<1> HIDE DEF t
<1>1. FallsOnce(s) => FallsOnce(t) /\ FallsOnceFrom(Head(s), t)
  <2> SUFFICES ASSUME FallsOnce(s) PROVE FallsOnce(t) /\ FallsOnceFrom(Head(s), t)
    OBVIOUS
  <2>1. FallsOnce(t)
    <3> SUFFICES ASSUME NEW i \in 1..Len(t), NEW j \in 1..Len(t),
                        NEW k \in 1..Len(t), NEW l \in 1..Len(t),
                        i < j, j <= k, k < l
                 PROVE  t[i] <= t[j] \/ t[k] <= t[l]
      BY DEF FallsOnce
    <3>2. {i + 1, j + 1, k + 1, l + 1} \subseteq 1..Len(s)
      BY <1>3
    <3>3. i + 1 < j + 1 /\ j + 1 <= k + 1 /\ k + 1 < l + 1
      BY <1>3
    <3>1. s[i + 1] <= s[j + 1] \/ s[k + 1] <= s[l + 1]
      BY <3>2, <3>3, Zenon DEF FallsOnce
    <3> QED BY <1>3, <3>1
  <2>2. FallsOnceFrom(Head(s), t)
    <3> SUFFICES ASSUME NEW j \in 1..Len(t), NEW k \in 1..Len(t), NEW l \in 1..Len(t),
                        j <= k, k < l
                 PROVE  Head(s) <= t[j] \/ t[k] <= t[l]
      BY DEF FallsOnceFrom
    <3>2. {1, j + 1, k + 1, l + 1} \subseteq 1..Len(s)
      BY <1>3
    <3>3. 1 < j + 1 /\ j + 1 <= k + 1 /\ k + 1 < l + 1
      BY <1>3
    <3>1. s[1] <= s[j + 1] \/ s[k + 1] <= s[l + 1]
      BY <3>2, <3>3, Zenon DEF FallsOnce
    <3> QED BY <1>3, <3>1
  <2> QED BY <2>1, <2>2
<1>2. ASSUME NEW y \in Int, FallsOnceFrom(y, s)
      PROVE  /\ FallsOnceFrom(y, Tail(s))
             /\ Head(s) < y => InOrder(Tail(s)) /\ Before(Head(s), Tail(s))
  <2>1. FallsOnceFrom(y, t)
    <3> SUFFICES ASSUME NEW j \in 1..Len(t), NEW k \in 1..Len(t), NEW l \in 1..Len(t),
                        j <= k, k < l
                 PROVE  y <= t[j] \/ t[k] <= t[l]
      BY DEF FallsOnceFrom
    <3>2. {j + 1, k + 1, l + 1} \subseteq 1..Len(s)
      BY <1>3
    <3>3. j + 1 <= k + 1 /\ k + 1 < l + 1
      BY <1>3
    <3>1. y <= s[j + 1] \/ s[k + 1] <= s[l + 1]
      BY <1>2, <3>2, <3>3, Zenon DEF FallsOnceFrom
    <3> QED BY <1>3, <3>1
  <2>2. ASSUME Head(s) < y PROVE InOrder(s)
    <3>1. Head(s) = s[1] /\ 1 \in 1..Len(s) /\ s[1] \in Int
      OBVIOUS
    <3>2. \A k, l \in 1..Len(s) : k < l => s[k] <= s[l]
      BY <1>2, <2>2, <3>1 DEF FallsOnceFrom
    <3> QED BY <3>2 DEF InOrder
  <2> QED BY <2>1, <2>2, TailInOrder DEF t
<1> QED BY <1>1, <1>2, TailInOrder DEF t

\* What is cut off at the end takes its falls with it.
LEMMA CutFalls ==
    ASSUME NEW s \in Seq(Int), NEW t \in Seq(Int)
    PROVE  /\ InOrder(s \o t) => InOrder(s)
           /\ FallsOnce(s \o t) => FallsOnce(s)
           /\ \A y : /\ Before(y, s \o t) => Before(y, s)
                     /\ FallsOnceFrom(y, s \o t) => FallsOnceFrom(y, s)
<1>1. /\ s \o t \in Seq(Int) /\ Len(s) \in Nat /\ Len(t) \in Nat
      /\ Len(s \o t) = Len(s) + Len(t)
      /\ \A i \in 1..Len(s) : i \in 1..Len(s \o t) /\ (s \o t)[i] = s[i]
  OBVIOUS
<1>2. InOrder(s \o t) => InOrder(s)
  BY <1>1, Zenon DEF InOrder
<1>3. FallsOnce(s \o t) => FallsOnce(s)
  BY <1>1, Zenon DEF FallsOnce
<1>4. \A y : Before(y, s \o t) => Before(y, s)
  BY <1>1, Zenon DEF Before
<1>5. \A y : FallsOnceFrom(y, s \o t) => FallsOnceFrom(y, s)
  BY <1>1, Zenon DEF FallsOnceFrom
<1> QED BY <1>2, <1>3, <1>4, <1>5

\* Between the two channels of the stand-in nothing changes places.
LEMMA ComingMoves ==
    ASSUME NEW s \in Seq(Int), NEW t \in Seq(Int)
    PROVE  /\ s \o t \in Seq(Int) /\ <<>> \o t = t /\ s \o <<>> = s
           /\ t # <<>> => Append(s, Head(t)) \o Tail(t) = s \o t
           /\ s # <<>> => /\ s \o t # <<>> /\ Tail(s) \o t = Tail(s \o t)
                          /\ Head(s) = Head(s \o t)
<1>1. t # <<>> => Append(s, Head(t)) \o Tail(t) = s \o t
  OBVIOUS
<1>2. s # <<>> => /\ s \o t # <<>> /\ Tail(s) \o t = Tail(s \o t)
                  /\ Head(s) = Head(s \o t)
  OBVIOUS
<1>3. s \o t \in Seq(Int)
  OBVIOUS
<1>4. <<>> \o t = t
  OBVIOUS
<1>5. s \o <<>> = s
  OBVIOUS
<1> QED BY <1>1, <1>2, <1>3, <1>4, <1>5, Zenon

\* What is pushed to the channel comes last, and is the newest.
LEMMA ComingEnds ==
    ASSUME NEW s \in Seq(Int), NEW t \in Seq(Int), NEW x \in Int
    PROVE  /\ s \o Append(t, x) = Append(s \o t, x)
           /\ (\A i \in 1..Len(s) : s[i] <= x) /\ (\A i \in 1..Len(t) : t[i] <= x) =>
                \A i \in 1..Len(s \o t) : (s \o t)[i] <= x
<1>1. s \o Append(t, x) = Append(s \o t, x)
  OBVIOUS
<1>2. ASSUME \A i \in 1..Len(s) : s[i] <= x, \A i \in 1..Len(t) : t[i] <= x,
             NEW i \in 1..Len(s \o t)
      PROVE  (s \o t)[i] <= x
  <2>1. CASE i \in 1..Len(s)
    BY <1>2, <2>1
  <2>2. CASE i \notin 1..Len(s)
    <3>1. i - Len(s) \in 1..Len(t)
      BY <2>2
    <3>2. (s \o t)[i] = t[i - Len(s)]
      BY <2>2
    <3> QED BY <1>2, <3>1, <3>2
  <2> QED BY <2>1, <2>2
<1> QED BY <1>1, <1>2

FallInv == \A h \in Clients : OneFallLeft(h)

LEMMA FallInvInit ==
    ASSUME Init
    PROVE  FallInv
<1> SUFFICES ASSUME NEW h \in Clients PROVE OneFallLeft(h)
  BY DEF FallInv
<1>1. Coming(h) = <<>> /\ pending[h] = Nothing /\ ~caught[h] /\ ~sank[h]
  <2>1. out[h] = <<>> /\ queue[h] = <<>>
    BY DEF Init
  <2>2. <<>> \in Seq(Int)
    OBVIOUS
  <2>3. <<>> \o <<>> = <<>>
    BY <2>2
  <2> QED BY <2>1, <2>3 DEF Init, Coming
<1> QED BY <1>1, EmptyFalls DEF OneFallLeft, LineFalls

\* A line that is cut at the end.
LEMMA CutLine ==
    ASSUME NEW s \in Seq(Int), NEW t \in Seq(Int), NEW p, NEW v, NEW c, NEW k,
           LineFalls(s \o t, p, v, c, k)
    PROVE  LineFalls(s, p, v, c, k) /\ LineFalls(<<>>, p, v, c, k)
<1>1. LineFalls(s, p, v, c, k)
  <2>1. /\ InOrder(s \o t) => InOrder(s)
        /\ FallsOnce(s \o t) => FallsOnce(s)
        /\ \A y : /\ Before(y, s \o t) => Before(y, s)
                  /\ FallsOnceFrom(y, s \o t) => FallsOnceFrom(y, s)
    BY CutFalls
  <2> QED BY <2>1, Zenon DEF LineFalls
<1>2. LineFalls(<<>>, p, v, c, k)
  BY EmptyFalls, Zenon DEF LineFalls
<1> QED BY <1>1, <1>2

\* The oldest status is shown, or put off in place of what was put off before.
LEMMA ReceivedLine ==
    ASSUME NEW s \in Seq(Int), s # <<>>, NEW p \in Values, NEW v \in Values,
           NEW c \in BOOLEAN, NEW k \in BOOLEAN, c => v \in Int,
           LineFalls(s, p, v, c, k)
    PROVE  /\ LineFalls(Tail(s), Nothing, Head(s), TRUE, k \/ (c /\ Head(s) < v))
           /\ LineFalls(Tail(s), Head(s), v, c, k)
           /\ k => v <= Head(s)
<1>1. /\ Tail(s) \in Seq(Int) /\ Head(s) \in Int
      /\ InOrder(s) => InOrder(Tail(s)) /\ Before(Head(s), Tail(s))
      /\ FallsOnce(s) => FallsOnce(Tail(s)) /\ FallsOnceFrom(Head(s), Tail(s))
      /\ \A y \in Int :
           /\ Before(y, s) => y <= Head(s) /\ Before(y, Tail(s))
           /\ FallsOnceFrom(y, s) => FallsOnceFrom(y, Tail(s))
           /\ FallsOnceFrom(y, s) /\ Head(s) < y =>
                InOrder(Tail(s)) /\ Before(Head(s), Tail(s))
  BY TakenFalls
<1>2. Head(s) # Nothing
  BY <1>1, ServiceAssumption
<1>3. /\ FallsOnce(s) /\ (c => v \in Int /\ FallsOnceFrom(v, s))
      /\ k => c /\ InOrder(s) /\ Before(v, s)
  BY DEF LineFalls
<1>4. LineFalls(Tail(s), Nothing, Head(s), TRUE, k \/ (c /\ Head(s) < v))
  <2>1. k \/ (c /\ Head(s) < v) => InOrder(Tail(s)) /\ Before(Head(s), Tail(s))
    BY <1>1, <1>3
  <2> QED BY <1>1, <1>3, <2>1 DEF LineFalls
<1>5. LineFalls(Tail(s), Head(s), v, c, k)
  BY <1>1, <1>2, <1>3 DEF LineFalls
<1> QED BY <1>1, <1>3, <1>4, <1>5

\* What was put off is shown.
LEMMA CoalescedLine ==
    ASSUME NEW s, NEW p \in Int, NEW v \in Values,
           NEW c \in BOOLEAN, NEW k \in BOOLEAN, c => v \in Int,
           LineFalls(s, p, v, c, k)
    PROVE  /\ LineFalls(s, Nothing, p, TRUE, k \/ (c /\ p < v))
           /\ k => v <= p
<1>1. p # Nothing
  BY ServiceAssumption
<1> QED BY <1>1 DEF LineFalls

\* A push at the end, newer than all.
LEMMA PushedLine ==
    ASSUME NEW s \in Seq(Int), NEW x \in Int, \A i \in 1..Len(s) : s[i] <= x,
           NEW p \in Values, NEW v \in Values, NEW c, NEW k,
           p # Nothing => p <= x, c => v \in Int /\ v <= x,
           LineFalls(s, p, v, c, k)
    PROVE  LineFalls(Append(s, x), p, v, c, k)
<1>1. /\ InOrder(s) => InOrder(Append(s, x))
      /\ FallsOnce(s) => FallsOnce(Append(s, x))
      /\ \A y \in Int :
           /\ FallsOnceFrom(y, s) => FallsOnceFrom(y, Append(s, x))
           /\ y <= x /\ Before(y, s) => Before(y, Append(s, x))
  BY PushedFalls
<1>2. p # Nothing => p \in Int
  BY DEF Values
<1> QED BY <1>1, <1>2 DEF LineFalls

LEMMA ComingTypes ==
    ASSUME StatusTypes, NEW g \in Clients
    PROVE  /\ out[g] \in Seq(Int) /\ queue[g] \in Seq(Int) /\ Coming(g) \in Seq(Int)
           /\ pending[g] \in Values /\ view[g] \in Values
           /\ caught[g] \in BOOLEAN /\ sank[g] \in BOOLEAN
           /\ version \in Nat
<1>1. out[g] \in Seq(Int) /\ queue[g] \in Seq(Int)
  BY DEF StatusTypes
<1>2. Coming(g) \in Seq(Int)
  BY <1>1, ComingMoves DEF Coming
<1> QED BY <1>1, <1>2 DEF StatusTypes

\* A client to whom nothing happens keeps what falls are left.
LEMMA KeptFalls ==
    ASSUME NEW g \in Clients, OneFallLeft(g), Kept(g)
    PROVE  OneFallLeft(g)'
BY DEF OneFallLeft, Coming, Kept

LEMMA PushKeepsFalls ==
    ASSUME StatusInv, FallInv, Push, UNCHANGED <<version, main, open, streams>>
    PROVE  FallInv'
<1> SUFFICES ASSUME NEW g \in Clients PROVE OneFallLeft(g)'
  BY DEF FallInv
<1>1. UNCHANGED <<subs, out, pending, view, caught, sank>>
  BY DEF Push, streams
<1>2. ASSUME subs # {} PROVE Status = version
  BY <1>2 DEF StatusInv, StatusTypes, Status
<1>3. queue'[g] = queue[g] \/ queue'[g] = Append(queue[g], version)
  BY <1>2 DEF Push
<1>4. /\ OneFallLeft(g) /\ Known(g) /\ StatusTypes
  BY DEF FallInv, StatusInv, Sound
<1>5. CASE queue'[g] = queue[g]
  BY <1>1, <1>4, <1>5 DEF OneFallLeft, Coming
<1>6. CASE queue'[g] = Append(queue[g], version)
  <2>1. Coming(g)' = Append(Coming(g), version)
    <3>1. /\ out[g] \in Seq(Int) /\ queue[g] \in Seq(Int) /\ version \in Int
      BY <1>4, ComingTypes
    <3>2. out[g] \o Append(queue[g], version) = Append(out[g] \o queue[g], version)
      BY <3>1, ComingEnds
    <3> QED BY <1>1, <1>6, <3>2 DEF Coming
  <2>2. \A i \in 1..Len(Coming(g)) : Coming(g)[i] <= version
    <3>1. /\ \A i \in 1..Len(out[g]) : out[g][i] <= version
          /\ \A i \in 1..Len(queue[g]) : queue[g][i] <= version
          /\ out[g] \in Seq(Int) /\ queue[g] \in Seq(Int)
      BY <1>4, ComingTypes DEF Known
    <3>2. version \in Int
      BY <1>4, ComingTypes
    <3> QED BY <3>1, <3>2, ComingEnds DEF Coming
  <2>3. LineFalls(Append(Coming(g), version), pending[g], view[g], caught[g], sank[g])
    <3>1. /\ Coming(g) \in Seq(Int) /\ version \in Int
          /\ pending[g] \in Values /\ view[g] \in Values
          /\ pending[g] # Nothing => pending[g] <= version
          /\ caught[g] => view[g] \in Int /\ view[g] <= version
          /\ LineFalls(Coming(g), pending[g], view[g], caught[g], sank[g])
      BY <1>4, ComingTypes DEF OneFallLeft, Known
    <3> QED BY <2>2, <3>1, PushedLine, Zenon
  <2> QED BY <1>1, <2>1, <2>3 DEF OneFallLeft
<1> QED BY <1>3, <1>5, <1>6

\* What a client's own step leaves of its falls; and a view that has sunk does
\* not sink again.
LEMMA ReceiveFalls ==
    ASSUME StatusInv, FallInv, NEW h \in Clients, Receive(h)
    PROVE  OneFallLeft(h)' /\ (sank[h] => view'[h] >= view[h])
<1>1. /\ StatusTypes /\ Begins(h) /\ Known(h) /\ OneFallLeft(h)
      /\ out[h] \in Seq(Int) /\ queue[h] \in Seq(Int) /\ Coming(h) \in Seq(Int)
      /\ pending[h] \in Values /\ view[h] \in Values
      /\ caught[h] \in BOOLEAN /\ sank[h] \in BOOLEAN
  BY ComingTypes DEF StatusInv, Sound, FallInv
<1> DEFINE st == Head(Events(h))
<1>2. /\ Coming(h) # <<>> /\ st = Head(Coming(h)) /\ Coming(h)' = Tail(Coming(h))
  <2>1. CASE lazy[h]
    <3>1. /\ out[h] # <<>> /\ st = Head(out[h])
          /\ out'[h] = Tail(out[h]) /\ queue'[h] = queue[h]
      BY <1>1, <2>1 DEF Receive, Taken, Events, StatusTypes
    <3>2. /\ out[h] \o queue[h] # <<>>
          /\ Tail(out[h]) \o queue[h] = Tail(out[h] \o queue[h])
          /\ Head(out[h]) = Head(out[h] \o queue[h])
      BY <1>1, <3>1, ComingMoves
    <3> QED BY <3>1, <3>2 DEF Coming
  <2>2. CASE ~lazy[h]
    <3>1. /\ queue[h] # <<>> /\ st = Head(queue[h]) /\ out[h] = <<>>
          /\ queue'[h] = Tail(queue[h]) /\ out'[h] = out[h]
      BY <1>1, <2>2 DEF Receive, Taken, Events, StatusTypes, Begins
    <3>2. Tail(queue[h]) \in Seq(Int)
      BY <1>1, <3>1, TailInOrder
    <3>3. Coming(h) = queue[h] /\ Coming(h)' = Tail(queue[h])
      BY <1>1, <3>1, <3>2, ComingMoves DEF Coming
    <3> QED BY <3>1, <3>3
  <2> QED BY <2>1, <2>2
<1> HIDE DEF st
<1>3. \/ /\ view'[h] = st /\ caught'[h] = TRUE /\ pending'[h] = Nothing
         /\ sank'[h] = (sank[h] \/ (caught[h] /\ st < view[h]))
      \/ /\ pending'[h] = st /\ view'[h] = view[h] /\ caught'[h] = caught[h]
         /\ sank'[h] = sank[h]
  BY <1>1 DEF Receive, Sends, Shown, StatusTypes, st
<1>4. /\ LineFalls(Tail(Coming(h)), Nothing, st, TRUE,
                   sank[h] \/ (caught[h] /\ st < view[h]))
      /\ LineFalls(Tail(Coming(h)), st, view[h], caught[h], sank[h])
      /\ sank[h] => view[h] <= st
  <2>1. caught[h] => view[h] \in Int
    BY <1>1 DEF Known
  <2> QED BY <1>1, <1>2, <2>1, ReceivedLine, Zenon DEF OneFallLeft
<1>5. OneFallLeft(h)'
  BY <1>2, <1>3, <1>4 DEF OneFallLeft
<1>6. sank[h] => view'[h] >= view[h]
  <2>1. sank[h] => view[h] \in Int
    BY <1>1 DEF Known, OneFallLeft, LineFalls
  <2>2. st \in Int
    BY <1>1, <1>2, TailInOrder
  <2>3. ASSUME sank[h] PROVE view'[h] \in {view[h], st}
    BY <1>3
  <2> QED BY <1>4, <2>1, <2>2, <2>3
<1> QED BY <1>5, <1>6

LEMMA CoalesceFalls ==
    ASSUME StatusInv, FallInv, NEW h \in Clients, Coalesce(h)
    PROVE  OneFallLeft(h)' /\ (sank[h] => view'[h] >= view[h])
<1>1. /\ StatusTypes /\ Known(h) /\ OneFallLeft(h)
      /\ pending[h] \in Values /\ view[h] \in Values
      /\ caught[h] \in BOOLEAN /\ sank[h] \in BOOLEAN
  BY ComingTypes DEF StatusInv, Sound, FallInv
<1>2. /\ pending[h] \in Int /\ view'[h] = pending[h] /\ caught'[h] = TRUE
      /\ pending'[h] = Nothing
      /\ sank'[h] = (sank[h] \/ (caught[h] /\ pending[h] < view[h]))
      /\ UNCHANGED <<queue, out>>
  BY <1>1 DEF Coalesce, Shown, feed, StatusTypes, Values
<1>3. caught[h] => view[h] \in Int
  BY <1>1 DEF Known
<1>4. /\ LineFalls(Coming(h), Nothing, pending[h], TRUE,
                   sank[h] \/ (caught[h] /\ pending[h] < view[h]))
      /\ sank[h] => view[h] <= pending[h]
  <2>1. LineFalls(Coming(h), pending[h], view[h], caught[h], sank[h])
    BY <1>1 DEF OneFallLeft
  <2> HIDE DEF LineFalls
  <2>2. /\ caught[h] \in BOOLEAN /\ sank[h] \in BOOLEAN /\ view[h] \in Values
        /\ pending[h] \in Int
    BY <1>1, <1>2
  <2> QED BY <1>3, <2>1, <2>2, CoalescedLine
<1>5. OneFallLeft(h)'
  BY <1>2, <1>4 DEF OneFallLeft, Coming
<1>6. sank[h] => view[h] \in Int
  BY <1>1, <1>3 DEF OneFallLeft, LineFalls
<1> QED BY <1>2, <1>4, <1>5, <1>6

LEMMA SeedFalls ==
    ASSUME StatusInv, FallInv, NEW h \in Clients, SendSeed(h)
    PROVE  OneFallLeft(h)'
<1>1. /\ StatusTypes /\ Begins(h) /\ OneFallLeft(h) /\ Line(h) /\ Fresh(h)
      /\ seed[h] \in Int /\ queue[h] \in Seq(Int)
  <2>1. Sound(h) /\ StatusTypes /\ OneFallLeft(h) /\ sub[h] = "send"
    BY DEF StatusInv, FallInv, SendSeed
  <2>2. overtaken[h] = "no" /\ Fresh(h) /\ seed[h] \in Int
    BY <2>1 DEF Sound, Begins
  <2> QED BY <2>1, <2>2, ComingTypes DEF Sound
<1>2. /\ queue'[h] = queue[h] \/ queue'[h] = Append(queue[h], seed[h])
      /\ UNCHANGED <<out, pending, view, caught, sank>>
  BY <1>1 DEF SendSeed, StatusTypes
<1>3. CASE queue'[h] = queue[h]
  BY <1>1, <1>2, <1>3 DEF OneFallLeft, Coming
<1>4. CASE queue'[h] = Append(queue[h], seed[h])
  <2>1. Coming(h)' = Append(queue[h], seed[h])
    <3>1. Append(queue[h], seed[h]) \in Seq(Int) /\ out'[h] = <<>>
      BY <1>1, <1>2 DEF Fresh
    <3> QED BY <1>4, <3>1, ComingMoves DEF Coming
  <2>2. FallsOnce(Append(queue[h], seed[h]))
    BY <1>1, SeededFalls DEF Line
  <2>3. ~caught[h] /\ pending[h] = Nothing /\ ~sank[h]
    BY <1>1 DEF Fresh, OneFallLeft, LineFalls
  <2> QED BY <1>2, <2>1, <2>2, <2>3 DEF OneFallLeft, LineFalls
<1> QED BY <1>2, <1>3, <1>4

LEMMA ForwardFalls ==
    ASSUME StatusInv, FallInv, NEW h \in Clients, Forward(h)
    PROVE  OneFallLeft(h)'
<1>1. /\ StatusTypes /\ OneFallLeft(h)
      /\ out[h] \in Seq(Int) /\ queue[h] \in Seq(Int) /\ queue[h] # <<>>
  BY ComingTypes DEF StatusInv, FallInv, Forward
<1>2. /\ out'[h] = Append(out[h], Head(queue[h])) /\ queue'[h] = Tail(queue[h])
      /\ UNCHANGED <<pending, view, caught, sank>>
  BY <1>1 DEF Forward, StatusTypes, streams
<1>3. Coming(h)' = Coming(h)
  <2>1. Append(out[h], Head(queue[h])) \o Tail(queue[h]) = out[h] \o queue[h]
    BY <1>1, ComingMoves
  <2> QED BY <1>2, <2>1 DEF Coming
<1> QED BY <1>1, <1>2, <1>3 DEF OneFallLeft

\* The moves that begin or end a stream, or cut its line.
LEMMA QuietFalls ==
    ASSUME StatusInv, FallInv, NEW h \in Clients,
           \/ ReadSeed(h) \/ Poll(h) \/ StopPolling(h) \/ StopForwarding(h)
           \/ Admit(h) \/ Subscribe(h) \/ Greet(h) \/ StreamEnds(h)
           \/ Disconnect(h) \/ Unsubscribe(h) \/ Release(h)
    PROVE  OneFallLeft(h)'
<1>1. /\ StatusTypes /\ Begins(h) /\ OneFallLeft(h)
      /\ out[h] \in Seq(Int) /\ queue[h] \in Seq(Int)
  BY ComingTypes DEF StatusInv, Sound, FallInv
<1>2. CASE Greet(h)
  <2>1. /\ ~caught[h] /\ UNCHANGED <<queue, out, pending, caught, sank>>
    BY <1>1, <1>2 DEF Greet, feed, Begins
  <2> QED BY <1>1, <2>1 DEF OneFallLeft, LineFalls, Coming
<1>3. CASE Release(h)
  <2>1. /\ pending'[h] = Nothing /\ caught'[h] = FALSE /\ sank'[h] = FALSE
        /\ UNCHANGED <<queue, out>>
    BY <1>1, <1>3 DEF Release, feed, StatusTypes
  <2> QED BY <1>1, <2>1 DEF OneFallLeft, LineFalls, Coming
<1>4. CASE \/ ReadSeed(h) \/ Poll(h) \/ StopPolling(h) \/ StopForwarding(h)
           \/ Admit(h) \/ Subscribe(h) \/ StreamEnds(h) \/ Disconnect(h)
           \/ Unsubscribe(h)
  <2>1. UNCHANGED <<pending, view, caught, sank>>
    BY <1>4 DEF ReadSeed, Poll, StopPolling, StopForwarding, Admit, Subscribe,
       StreamEnds, Disconnect, Unsubscribe, streams
  <2>2. \/ queue'[h] = queue[h] /\ out'[h] = out[h]
        \/ queue'[h] = <<>> /\ out'[h] \in {out[h], <<>>}
    BY <1>1, <1>4 DEF ReadSeed, Poll, StopPolling, StopForwarding, Admit, Subscribe,
       Subscribed, StreamEnds, Disconnect, Unsubscribe, feed, StatusTypes
  <2>3. Coming(h)' \in {out[h] \o queue[h], out[h], <<>>}
    <3>1. out[h] \o <<>> = out[h] /\ <<>> \o <<>> = <<>>
      <4>1. <<>> \in Seq(Int)
        OBVIOUS
      <4> QED BY <1>1, <4>1
    <3> QED BY <2>2, <3>1 DEF Coming
  <2>4. LineFalls(Coming(h)', pending[h], view[h], caught[h], sank[h])
    <3>1. LineFalls(out[h] \o queue[h], pending[h], view[h], caught[h], sank[h])
      BY <1>1 DEF OneFallLeft, Coming
    <3>2. out[h] \in Seq(Int) /\ queue[h] \in Seq(Int)
      BY <1>1
    <3>3. /\ LineFalls(out[h], pending[h], view[h], caught[h], sank[h])
          /\ LineFalls(<<>>, pending[h], view[h], caught[h], sank[h])
      BY <3>1, <3>2, CutLine, Zenon
    <3> HIDE DEF Coming
    <3> QED BY <2>3, <3>1, <3>3
  <2> QED BY <2>1, <2>4 DEF OneFallLeft
<1> QED BY <1>2, <1>3, <1>4

LEMMA FallInvStep ==
    ASSUME StatusInv, StreamInv, FallInv, [Next]_vars
    PROVE  FallInv'
<1>1. CASE Silent
  <2>1. \A g \in Clients : Kept(g)
    BY <1>1 DEF Silent, Kept, streams
  <2> QED BY <2>1, KeptFalls DEF FallInv
<1>2. CASE Tell \/ TimerPushes
  <2>1. UNCHANGED <<version, main, open, streams>> /\ (Push \/ UNCHANGED feed)
    BY <1>2 DEF Tell, TimerPushes, notify, Coalesced, process, crawling
  <2>2. UNCHANGED feed => Silent
    BY <2>1 DEF Silent, feed, StatusInv, StatusTypes
  <2> QED BY <1>1, <2>1, <2>2, PushKeepsFalls
<1>3. CASE ClientStep
  <2>1. PICK h \in Clients :
               FeedStep(h) \/ StreamStep(h) \/ Admit(h) \/ Disconnect(h)
    BY <1>3 DEF ClientStep
  <2>2. OneFallLeft(h)'
    BY <2>1, ReceiveFalls, CoalesceFalls, SeedFalls, ForwardFalls, QuietFalls
       DEF FeedStep, StreamStep
  <2>3. ASSUME NEW g \in Clients, g # h PROVE OneFallLeft(g)'
    <3>1. Kept(g)
      BY <2>1, <2>3, OthersKept DEF StatusInv
    <3> QED BY <3>1, KeptFalls DEF FallInv
  <2> QED BY <2>2, <2>3 DEF FallInv
<1>4. CASE \/ CallerStep \/ Opens \/ Stopping \/ MainStep
           \/ SchedulerStarts \/ SchedulerStops \/ Pause \/ Resume
           \/ TimerFires \/ CrawlEnds \/ CrawlDone \/ Progress
           \/ \E at \in Following(crawl.at) : Enter(at)
  BY <1>1, <1>4, RestIsSilent
<1>5. CASE UNCHANGED vars
  <2>1. Silent
    BY <1>5 DEF Silent, vars, process, crawling, feed, StatusInv, StatusTypes
  <2> QED BY <1>1, <2>1
<1> QED BY <1>2, <1>3, <1>4, <1>5, NextSplits DEF OthersStep, CrawlStep

LEMMA FallInvariant == Spec => []FallInv
<1>1. StatusInv /\ StreamInv /\ FallInv /\ [Next]_vars => FallInv'
  BY FallInvStep
<1> QED BY <1>1, FallInvInit, StatusInvariant, StreamInvariant, PTL DEF Spec

\* What a step shows a client is as old as what the client saw, or newer, but
\* for the one fall that a late seed makes.
LEMMA ViewStep ==
    ASSUME StatusInv, StreamInv, ChannelInv, FallInv, Next, NEW g \in Clients,
           view'[g] # Nothing, view[g] # Nothing, view'[g] < view[g]
    PROVE  ~caught[g] \/ (overtaken[g] # "no" /\ ~sank[g])
<1>1. view[g] \in Int
  BY DEF StatusInv, StatusTypes, Values
<1>2. view'[g] # view[g]
  BY <1>1
<1>3. Alive /\ ClientStep
  <2>1. CASE UNCHANGED vars
    BY <1>2, <2>1 DEF vars, streams
  <2>2. CASE Alive /\ (Tell \/ TimerPushes)
    BY <1>2, <2>2, TellingIsSound
  <2>3. CASE Alive /\ (\/ CallerStep \/ Opens \/ Stopping \/ MainStep
                       \/ SchedulerStarts \/ SchedulerStops \/ Pause \/ Resume
                       \/ TimerFires \/ CrawlEnds \/ CrawlDone \/ Progress
                       \/ \E at \in Following(crawl.at) : Enter(at))
    BY <1>2, <2>3, RestIsSilent DEF Silent, streams
  <2> QED BY <2>1, <2>2, <2>3, NextSplits DEF OthersStep, CrawlStep
<1>4. FeedStep(g) \/ StreamStep(g) \/ Admit(g) \/ Disconnect(g)
  BY <1>2, <1>3, ClientIsSound DEF ClientStep
<1>5. CASE Greet(g)
  BY <1>5 DEF Greet, StatusInv, Sound, Begins
<1>6. CASE Release(g)
  BY <1>6 DEF Release, StatusInv, StatusTypes
<1>7. CASE Receive(g) \/ Coalesce(g)
  <2>1. view'[g] \in Int
    <3>1. StatusTypes'
      BY <1>4, StatusTypesStep DEF StatusInv, Sound, Begins
    <3> QED BY <3>1 DEF StatusTypes, Values
  <2>2. overtaken[g] = "no" /\ caught[g] => view'[g] >= view[g]
    BY <1>7, ReceiveIsSound, CoalesceIsSound
  <2>3. ~(view'[g] >= view[g])
    BY <1>1, <2>1
  <2>4. sank[g] => view'[g] >= view[g]
    BY <1>7, ReceiveFalls, CoalesceFalls
  <2> QED BY <2>2, <2>3, <2>4
<1>8. CASE ~(Greet(g) \/ Release(g) \/ Receive(g) \/ Coalesce(g))
  <2>1. UNCHANGED view
    <3>1. CASE FeedStep(g)
      BY <3>1 DEF FeedStep, ReadSeed, SendSeed, Poll, StopPolling, Forward,
         StopForwarding, streams
    <3>2. CASE \/ Subscribe(g) \/ StreamEnds(g) \/ Unsubscribe(g)
               \/ Admit(g) \/ Disconnect(g)
      BY <3>2 DEF Subscribe, StreamEnds, Unsubscribe, Admit, Disconnect
    <3> QED BY <1>4, <1>8, <3>1, <3>2 DEF StreamStep
  <2> QED BY <1>2, <2>1
<1> QED BY <1>5, <1>6, <1>7, <1>8

\* Once a client has seen an event, what it sees gets older once at most, and
\* only to a seed sent behind a newer push, however events are put off,
\* forwarded by the stand-in, or dropped.
THEOREM ViewForward == Spec => ViewGoesForward
<1> DEFINE Forwards ==
      \A h \in Clients :
         view'[h] # Nothing /\ view[h] # Nothing /\ view'[h] < view[h] =>
           ~caught[h] \/ (overtaken[h] # "no" /\ ~sank[h])
<1>1. StatusInv /\ StreamInv /\ ChannelInv /\ FallInv /\ [Next]_vars => [Forwards]_vars
  BY ViewStep
<1>2. ViewGoesForward <=> [][Forwards]_vars
  BY DEF ViewGoesForward
<1> HIDE DEF Forwards
<1> QED BY <1>1, <1>2, StatusInvariant, StreamInvariant, ChannelInvariant, FallInvariant,
           PTL DEF Spec

-----------------------------------------------------------------------------
(* Types: what is announced and what is on its way.                        *)

\* States a crawl has still to announce, and its steps of progress.
Ahead ==
    CASE crawl.at = "begin"      -> 4
      [] crawl.at = "crawling"   -> 3
      [] crawl.at = "extracting" -> 2
      [] crawl.at = "metadata"   -> 1
      [] OTHER                   -> 0
Owed == IF Runs THEN Ahead + crawl.left ELSE 0
Each == MaxProgress + 4

\* With what the crawl that runs still owes, the status has not gone past what
\* the crawls that were started have to announce.
AnnounceInv ==
    /\ crawls \in 0..load.crawls /\ version \in Nat
    /\ Starters = {} => version + Owed <= Each * crawls
    /\ Starters # {} => crawls > 0 /\ version + Owed <= Each * (crawls - 1)

LEMMA OneMore ==
    ASSUME NEW n \in Nat \ {0}
    PROVE  Each \in Nat /\ Each * (n - 1) + Each = Each * n
BY ServiceAssumption DEF Each

\* A crawl owes one less with every status.
LEMMA CrawlPays ==
    ASSUME CrawlInv, CrawlStep
    PROVE  /\ UNCHANGED <<crawls, load, call>> /\ Starters' = Starters
           /\ \/ version' = version /\ Owed' <= Owed
              \/ version' = version + 1 /\ Owed' <= Owed - 1
           /\ Owed' \in Nat /\ Owed \in Nat
<1> USE DEF CrawlInv, Runs, process, calls, Stages, Owed
<1>1. crawl.left \in Nat /\ Ahead \in 0..4
  BY ServiceAssumption DEF Ahead
<1>2. CASE CrawlEnds
  BY <1>1, <1>2 DEF CrawlEnds, NoCrawl, Starters
<1>6. CASE CrawlDone
  BY <1>1, <1>6 DEF CrawlDone, Starters, Ahead
<1>3. CASE Tell
  <2>1. /\ crawl' = [crawl EXCEPT !.tell = "no"]
        /\ UNCHANGED <<crawls, load, call, version>>
    BY <1>3 DEF Tell
  <2>2. crawl'.at = crawl.at /\ crawl'.left = crawl.left
    BY <2>1
  <2>3. Ahead' = Ahead
    BY <2>2 DEF Ahead
  <2> QED BY <1>1, <2>1, <2>2, <2>3 DEF Starters
<1>4. CASE Progress
  <2>1. /\ crawl' = [crawl EXCEPT !.tell = "soft", !.left = @ - 1]
        /\ crawl.left > 0 /\ Runs /\ version' = version + 1
        /\ UNCHANGED <<crawls, load, call>>
    BY <1>4 DEF Progress
  <2>2. crawl'.at = crawl.at /\ crawl'.left = crawl.left - 1
    BY <2>1
  <2>3. Ahead' = Ahead
    BY <2>2 DEF Ahead
  <2> QED BY <1>1, <2>1, <2>2, <2>3 DEF Starters
<1>5. CASE \E at \in Following(crawl.at) : Enter(at)
  <2>1. PICK at \in Following(crawl.at) : Enter(at)
    BY <1>5
  <2>2. /\ crawl' = [crawl EXCEPT !.at = at, !.tell = "force"]
        /\ version' = version + 1 /\ UNCHANGED <<crawls, load, call>>
    BY <2>1 DEF Enter
  <2>3. crawl'.at = at /\ crawl'.left = crawl.left
    BY <2>2
  <2>4. load.phases \subseteq {"extracting", "metadata"}
    BY ServiceAssumption
  <2>5. Runs /\ at # "none" /\ Ahead' <= Ahead - 1 /\ Ahead' \in Nat
    BY <2>1, <2>3, <2>4 DEF Following, Ahead
  <2> QED BY <1>1, <2>2, <2>3, <2>5 DEF Starters
<1> QED BY <1>2, <1>3, <1>4, <1>5, <1>6 DEF CrawlStep

\* A caller that has crawlBusy owes all that a crawl announces.
LEMMA CallersOwe ==
    ASSUME CrawlInv, AnnounceInv, CallerStep
    PROVE  AnnounceInv'
<1>1. PICK c \in Callers :
             CallStep(c) \/ AskRescan(c) \/ \E s \in Schedules : SetConfig(c, s)
  BY DEF CallerStep
<1> USE DEF CrawlInv, AnnounceInv, Runs, process, crawling, Goes
<1>2. CASE \/ AskRescan(c) \/ Refused(c) \/ Reschedule(c)
           \/ \E s \in Schedules : SetConfig(c, s)
  <2>1. /\ call[c] \notin {"claimed", "registered"}
        /\ \E at \in {"idle", "checked", "applied"} :
             call' = [call EXCEPT ![c] = at]
        /\ UNCHANGED <<load, crawls, version, crawl>>
    BY <1>2 DEF AskRescan, Refused, Reschedule, SetConfig
  <2>2. Starters' = Starters /\ Owed' = Owed
    BY <2>1 DEF Starters, Owed, Ahead
  <2> QED BY <2>1, <2>2
<1>3. CASE Claim(c)
  <2>1. /\ busy = FALSE /\ call' = [call EXCEPT ![c] = "claimed"]
        /\ crawls < load.crawls /\ crawls' = crawls + 1
        /\ UNCHANGED <<load, version, crawl>>
    BY <1>3 DEF Claim
  <2>2. Starters = {} /\ Starters' = {c} /\ Owed' = Owed
    BY <2>1 DEF Starters, Owed, Ahead
  <2>3. load.crawls \in Nat
    BY ServiceAssumption
  <2> QED BY <2>1, <2>2, <2>3
<1>4. CASE Register(c)
  <2>1. /\ call[c] = "claimed" /\ call' = [call EXCEPT ![c] = "registered"]
        /\ UNCHANGED <<load, crawls, version, crawl>>
    BY <1>4 DEF Register
  <2>2. Starters' = Starters /\ Owed' = Owed
    BY <2>1 DEF Starters, Owed, Ahead
  <2> QED BY <2>1, <2>2
<1>5. CASE Spawn(c)
  <2>1. /\ call[c] = "registered" /\ call' = [call EXCEPT ![c] = "idle"]
        /\ crawl' = Begun /\ UNCHANGED <<load, crawls, version>>
    BY <1>5 DEF Spawn
  <2>2. Starters = {c} /\ Starters' = {} /\ ~Runs
    BY <2>1 DEF Starters
  <2>3. Owed = 0 /\ Owed' = Each
    BY <2>1, <2>2, ServiceAssumption DEF Owed, Ahead, Begun, Each
  <2>4. crawls \in Nat \ {0} /\ version <= Each * (crawls - 1) /\ version \in Nat
    BY <2>2, <2>3
  <2>5. version + Each <= Each * crawls
    BY <2>4, OneMore
  <2> QED BY <2>1, <2>2, <2>3, <2>5
<1> QED BY <1>1, <1>2, <1>3, <1>4, <1>5 DEF CallStep

LEMMA AnnounceInvStep ==
    ASSUME CrawlInv, AnnounceInv, [Next]_vars
    PROVE  AnnounceInv'
<1>1. CASE UNCHANGED <<call, load, crawl, crawls, version>>
  BY <1>1 DEF AnnounceInv, Starters, Owed, Ahead, Runs
<1>2. CASE CrawlStep
  <2>1. /\ crawls \in Nat /\ version \in Nat /\ Each \in Nat
    BY ServiceAssumption DEF AnnounceInv, Each
  <2>2. Starters = {} => Each * crawls \in Nat
    BY <2>1
  <2>3. Starters # {} => Each * (crawls - 1) \in Nat
    BY <2>1 DEF AnnounceInv
  <2> QED BY <1>2, <2>1, <2>2, <2>3, CrawlPays DEF AnnounceInv, Each
<1>3. CASE CallerStep
  BY <1>3, CallersOwe
<1>4. CASE \/ TimerFires \/ TimerPushes \/ Opens \/ Stopping
           \/ SchedulerStarts \/ SchedulerStops \/ Pause \/ Resume
  BY <1>1, <1>4 DEF TimerFires, TimerPushes, Opens, Stopping, SchedulerStarts,
     SchedulerStops, Pause, Resume, MainGoes, process, crawling, calls
<1>5. CASE MainStep
  BY <1>1, <1>5 DEF MainStep, ShutdownReturns, CloseBegins, CloseCancels, CloseWaits,
     CloseStopsCron, CloseEndsFeed, CloseStore, MainGoes, process, crawling, calls
<1>6. CASE ClientStep
  <2>1. load' = load
    BY <1>6 DEF ClientStep, FeedStep, StreamStep, ReadSeed, SendSeed, Poll,
       StopPolling, Forward, StopForwarding, Subscribe, Greet, Receive,
       Coalesce, StreamEnds, Unsubscribe, Release, Admit, Disconnect, process
  <2> QED BY <1>1, <1>6, <2>1, ClientsFrame DEF crawling, calls
<1>7. UNCHANGED vars => UNCHANGED <<call, load, crawl, crawls, version>>
  BY DEF vars, process, crawling, calls
<1> QED BY <1>1, <1>2, <1>3, <1>4, <1>5, <1>6, <1>7, NextSplits DEF OthersStep

\* The daemon's own flags and places, and the sets of subscribers.
FlagTypes ==
    /\ main \in {"serve", "shutdown", "close", "cancel", "wait", "cron", "subs",
                 "db", "rest", "exited"}
    /\ open \in {"opening", "ready", "failed"}
    /\ signalled \in BOOLEAN /\ cancel \in BOOLEAN /\ ctxDone \in BOOLEAN
    /\ paused \in BOOLEAN /\ schedOn \in BOOLEAN
    /\ timerArmed \in BOOLEAN /\ firing \in BOOLEAN
    /\ cfg \in Schedules /\ cron \in Schedules \union {NoSchedule}
    /\ sched \in {"new", "on", "over"}

LEMMA FlagTypesStep ==
    ASSUME FlagTypes, [Next]_vars
    PROVE  FlagTypes'
<1> USE DEF FlagTypes, crawling, calls, timer
<1>1. CASE CrawlStep
  <2>1. \A force : notify(force) => timerArmed' \in BOOLEAN /\ firing' \in BOOLEAN
    BY DEF notify, Coalesced
  <2>2. /\ UNCHANGED <<process, cancel, ctxDone, paused, calls>>
        /\ timerArmed' \in BOOLEAN /\ firing' \in BOOLEAN
    BY <1>1, <2>1 DEF CrawlStep, Enter, Progress, Tell, CrawlEnds, CrawlDone
  <2> QED BY <2>2 DEF process
<1>2. CASE TimerFires \/ TimerPushes \/ Pause \/ Resume
  <2>1. UNCHANGED <<process, crawling, calls>>
    BY <1>2 DEF TimerFires, TimerPushes, Pause, Resume
  <2>2. timerArmed' \in BOOLEAN /\ firing' \in BOOLEAN /\ paused' \in BOOLEAN
    BY <1>2 DEF TimerFires, TimerPushes, Pause, Resume
  <2> QED BY <2>1, <2>2 DEF process
<1>3. CASE Opens \/ SchedulerStarts \/ SchedulerStops
  BY <1>3 DEF Opens, SchedulerStarts, SchedulerStops, process
<1>4. CASE Stopping
  BY <1>4 DEF Stopping, MainGoes
<1>5. CASE MainStep
  <2>1. CASE CloseCancels
    BY <2>1 DEF CloseCancels, MainGoes
  <2>2. CASE CloseStopsCron
    BY <2>2 DEF CloseStopsCron, MainGoes
  <2>3. CASE \/ ShutdownReturns \/ CloseBegins \/ CloseWaits \/ CloseEndsFeed
             \/ CloseStore
    BY <2>3 DEF ShutdownReturns, CloseBegins, CloseWaits, CloseEndsFeed, CloseStore,
       MainGoes
  <2> QED BY <1>5, <2>1, <2>2, <2>3 DEF MainStep
<1>6. CASE CallerStep
  <2>1. PICK c \in Callers :
               CallStep(c) \/ AskRescan(c) \/ \E s \in Schedules : SetConfig(c, s)
    BY <1>6 DEF CallerStep
  <2>2. /\ UNCHANGED <<process, paused, schedOn, sched, timer>>
        /\ cancel' \in BOOLEAN /\ ctxDone' \in BOOLEAN
        /\ cfg' \in Schedules /\ cron' \in Schedules \union {NoSchedule}
    BY <2>1 DEF CallStep, Refused, Claim, Register, Spawn, Reschedule, AskRescan, SetConfig
  <2> QED BY <2>2 DEF process
<1>7. CASE ClientStep
  <2>1. PICK h \in Clients :
               FeedStep(h) \/ StreamStep(h) \/ Admit(h) \/ Disconnect(h)
    BY <1>7 DEF ClientStep
  <2>2. FeedStep(h) => UNCHANGED <<main, open, signalled, crawling, paused, calls, timer>>
    BY DEF FeedStep, ReadSeed, SendSeed, Poll, StopPolling, Forward, StopForwarding, process
  <2>3. StreamStep(h) => UNCHANGED <<main, open, signalled, crawling, paused, calls, timer>>
    BY DEF StreamStep, Subscribe, Greet, Receive, Coalesce, StreamEnds, Unsubscribe,
       Release, process
  <2>4. Admit(h) \/ Disconnect(h) =>
          UNCHANGED <<main, open, signalled, crawling, paused, calls, timer>>
    BY DEF Admit, Disconnect, process
  <2> QED BY <2>1, <2>2, <2>3, <2>4
<1>8. CASE UNCHANGED vars
  BY <1>8 DEF vars, process
<1> QED BY <1>1, <1>2, <1>3, <1>4, <1>5, <1>6, <1>7, <1>8, NextSplits DEF OthersStep

\* The channels, as sets and with what their last push came to.
ChannelTypes ==
    subs \subseteq Clients /\ shut \subseteq Clients /\ dropped \in [Clients -> BOOLEAN]

LEMMA ChannelTypesStep ==
    ASSUME ChannelTypes, [Next]_vars
    PROVE  ChannelTypes'
<1> USE DEF ChannelTypes
<1>1. CASE UNCHANGED feed
  BY <1>1 DEF feed
<1>2. CASE CrawlStep \/ TimerFires \/ TimerPushes
  <2>1. Push => ChannelTypes'
    <3> SUFFICES ASSUME Push PROVE ChannelTypes'
      OBVIOUS
    <3>1. UNCHANGED <<subs, shut>>
      BY DEF Push
    <3>2. \A h \in Clients : (IF h \in subs THEN ~(Len(queue[h]) < QueueCap)
                                            ELSE dropped[h]) \in BOOLEAN
      OBVIOUS
    <3>3. dropped' \in [Clients -> BOOLEAN]
      BY <3>2 DEF Push
    <3> QED BY <3>1, <3>3
  <2> QED BY <1>1, <1>2, <2>1 DEF CrawlStep, Enter, Progress, Tell, CrawlEnds, CrawlDone, notify,
       Coalesced, TimerFires, TimerPushes
<1>3. CASE CloseEndsFeed
  BY <1>3 DEF CloseEndsFeed
<1>4. CASE \/ Opens \/ Stopping \/ SchedulerStarts \/ SchedulerStops \/ Pause \/ Resume
           \/ ShutdownReturns \/ CloseBegins \/ CloseCancels \/ CloseWaits
           \/ CloseStopsCron \/ CloseStore \/ CallerStep
  BY <1>1, <1>4 DEF Opens, Stopping, SchedulerStarts, SchedulerStops, Pause, Resume,
     ShutdownReturns, CloseBegins, CloseCancels, CloseWaits, CloseStopsCron, CloseStore,
     CallerStep, CallStep, Refused, Claim, Register, Spawn, Reschedule, AskRescan, SetConfig
<1>5. CASE ClientStep
  <2>1. PICK h \in Clients :
               FeedStep(h) \/ StreamStep(h) \/ Admit(h) \/ Disconnect(h)
    BY <1>5 DEF ClientStep
  <2>2. CASE Cancel(h) /\ UNCHANGED dropped
    BY <2>2 DEF Cancel, Closes
  <2>3. CASE Subscribed(h)
    BY <2>3 DEF Subscribed
  <2>4. CASE UNCHANGED <<subs, shut, dropped>>
    BY <2>4
  <2>5. CASE FeedStep(h)
    BY <2>2, <2>3, <2>4, <2>5 DEF FeedStep, ReadSeed, SendSeed, Poll, StopPolling, Forward,
       StopForwarding
  <2>6. CASE StreamStep(h)
    BY <2>2, <2>3, <2>4, <2>6 DEF StreamStep, Subscribe, Greet, Receive, Coalesce,
       StreamEnds, Unsubscribe, Release, feed
  <2>7. CASE Admit(h) \/ Disconnect(h)
    BY <1>1, <2>7 DEF Admit, Disconnect
  <2> QED BY <2>1, <2>5, <2>6, <2>7
<1>6. UNCHANGED vars => UNCHANGED feed
  BY DEF vars
<1> QED BY <1>1, <1>2, <1>3, <1>4, <1>5, <1>6, NextSplits DEF OthersStep, MainStep

\* What is on its way, by its age.
Within(h) ==
    /\ Len(queue[h]) <= QueueCap /\ Len(out[h]) <= OutCap
    /\ \A i \in 1..Len(queue[h]) : queue[h][i] >= 0
    /\ \A i \in 1..Len(out[h]) : out[h][i] >= 0
    /\ seed[h] # Nothing => seed[h] >= 0 /\ seed[h] <= version
    /\ pending[h] # Nothing => pending[h] >= 0
    /\ view[h] # Nothing => view[h] >= Starting /\ view[h] <= version

LEMMA AppendWithin ==
    ASSUME NEW s \in Seq(Int), NEW x \in Int, NEW n \in Nat, Len(s) < n,
           x >= 0, \A i \in 1..Len(s) : s[i] >= 0
    PROVE  /\ Len(Append(s, x)) <= n
           /\ \A i \in 1..Len(Append(s, x)) : Append(s, x)[i] >= 0
OBVIOUS

LEMMA TailWithin ==
    ASSUME NEW s \in Seq(Int), NEW n \in Nat, Len(s) <= n, s # <<>>,
           \A i \in 1..Len(s) : s[i] >= 0
    PROVE  /\ Head(s) >= 0 /\ Len(Tail(s)) <= n
           /\ \A i \in 1..Len(Tail(s)) : Tail(s)[i] >= 0
OBVIOUS

LEMMA KeptIsWithin ==
    ASSUME StatusTypes, NEW g \in Clients, Within(g), Kept(g),
           version' \in Nat, version <= version'
    PROVE  Within(g)'
<1>1. seed[g] \in Values /\ pending[g] \in Values /\ view[g] \in Values /\ version \in Nat
  BY DEF StatusTypes
<1> QED BY <1>1 DEF Within, Kept, Values

LEMMA PushIsWithin ==
    ASSUME StatusInv, Push, UNCHANGED <<version, streams>>, NEW g \in Clients, Within(g)
    PROVE  Within(g)'
<1>1. UNCHANGED <<out, seed, pending, view>>
  BY DEF Push, streams
<1>2. queue[g] \in Seq(Int) /\ version \in Nat /\ QueueCap \in Nat
  BY ServiceAssumption DEF StatusInv, StatusTypes
<1>3. \/ queue'[g] = queue[g]
      \/ Len(queue[g]) < QueueCap /\ queue'[g] = Append(queue[g], version)
  <2>1. subs # {} => Status = version
    BY DEF StatusInv, StatusTypes, Status
  <2> QED BY <2>1 DEF Push
<1>4. Len(queue'[g]) <= QueueCap /\ \A i \in 1..Len(queue'[g]) : queue'[g][i] >= 0
  <2>1. CASE queue'[g] = queue[g]
    BY <2>1 DEF Within
  <2>2. CASE Len(queue[g]) < QueueCap /\ queue'[g] = Append(queue[g], version)
    BY <1>2, <2>2, AppendWithin DEF Within
  <2> QED BY <1>3, <2>1, <2>2
<1> QED BY <1>1, <1>4 DEF Within

\* Nothing gets on its way that is not the status of some moment.
LEMMA MoveIsWithin ==
    ASSUME StatusInv, StreamInv, NEW h \in Clients, Within(h),
           FeedStep(h) \/ StreamStep(h) \/ Admit(h) \/ Disconnect(h)
    PROVE  Within(h)'
<1>1. /\ queue[h] \in Seq(Int) /\ out[h] \in Seq(Int)
      /\ seed[h] \in Values /\ pending[h] \in Values /\ view[h] \in Values
      /\ version \in Nat /\ QueueCap \in Nat \ {0} /\ OutCap \in Nat \ {0}
      /\ Nothing \notin Int
      /\ h \in DOMAIN queue /\ h \in DOMAIN out /\ h \in DOMAIN seed
      /\ h \in DOMAIN pending /\ h \in DOMAIN view
  BY ServiceAssumption DEF StatusInv, StatusTypes
<1>2. version' = version
  <2>1. ClientStep
    BY DEF ClientStep
  <2> QED BY <2>1, ClientsFrame DEF crawling
<1>3. CASE ReadSeed(h)
  <2>1. seed'[h] = version /\ UNCHANGED <<queue, out, pending, view>>
    BY <1>1, <1>3 DEF ReadSeed, streams
  <2> QED BY <1>1, <1>2, <2>1 DEF Within
<1>4. CASE SendSeed(h)
  <2>1. seed'[h] = Nothing /\ UNCHANGED <<out, pending, view>>
    BY <1>1, <1>4 DEF SendSeed
  <2>2. seed[h] \in Int /\ seed[h] >= 0
    BY <1>1, <1>4 DEF SendSeed, StatusInv, Sound, Begins, Within
  <2>3. \/ queue'[h] = queue[h]
        \/ Len(queue[h]) < QueueCap /\ queue'[h] = Append(queue[h], seed[h])
    BY <1>1, <1>4 DEF SendSeed
  <2>4. Len(queue'[h]) <= QueueCap /\ \A i \in 1..Len(queue'[h]) : queue'[h][i] >= 0
    <3>1. CASE queue'[h] = queue[h]
      BY <3>1 DEF Within
    <3>2. CASE Len(queue[h]) < QueueCap /\ queue'[h] = Append(queue[h], seed[h])
      BY <1>1, <2>2, <3>2, AppendWithin DEF Within
    <3> QED BY <2>3, <3>1, <3>2
  <2> QED BY <1>2, <2>1, <2>4 DEF Within
<1>5. CASE \/ Poll(h) \/ StopPolling(h) \/ StopForwarding(h) \/ Unsubscribe(h)
           \/ Subscribe(h)
  <2>1. /\ UNCHANGED <<seed, pending, view>>
        /\ queue'[h] \in {<<>>, queue[h]} /\ out'[h] \in {<<>>, out[h]}
    BY <1>1, <1>5 DEF Poll, StopPolling, StopForwarding, Unsubscribe, Subscribe,
       Subscribed, streams
  <2> QED BY <1>1, <1>2, <2>1 DEF Within
<1>6. CASE Forward(h)
  <2>1. /\ queue[h] # <<>> /\ Len(out[h]) < OutCap
        /\ out'[h] = Append(out[h], Head(queue[h])) /\ queue'[h] = Tail(queue[h])
        /\ UNCHANGED <<seed, pending, view>>
    BY <1>1, <1>6 DEF Forward, streams
  <2>2. Head(queue[h]) \in Int
    BY <1>1, <2>1, TailInOrder
  <2>3. /\ Head(queue[h]) >= 0 /\ Len(queue'[h]) <= QueueCap
        /\ \A i \in 1..Len(queue'[h]) : queue'[h][i] >= 0
    BY <1>1, <2>1, TailWithin DEF Within
  <2>4. Len(out'[h]) <= OutCap /\ \A i \in 1..Len(out'[h]) : out'[h][i] >= 0
    BY <1>1, <2>1, <2>2, <2>3, AppendWithin DEF Within
  <2> QED BY <1>2, <2>1, <2>3, <2>4 DEF Within
<1>7. CASE Receive(h)
  <2> DEFINE st == Head(Events(h))
  <2>1. /\ Events(h) # <<>> /\ UNCHANGED seed
        /\ \/ lazy[h] /\ Events(h) = out[h]
              /\ out'[h] = Tail(out[h]) /\ queue' = queue
           \/ ~lazy[h] /\ Events(h) = queue[h]
              /\ queue'[h] = Tail(queue[h]) /\ out' = out
        /\ view'[h] \in {view[h], st} /\ pending'[h] \in {Nothing, st}
    BY <1>1, <1>7 DEF Receive, Taken, Events, Sends, Shown
  <2>2. st \in Int /\ st >= 0 /\ st <= version
    <3>1. Events(h) \in Seq(Int)
      BY <1>1 DEF Events
    <3>2. \A i \in 1..Len(Events(h)) : Events(h)[i] >= 0 /\ Events(h)[i] <= version
      BY DEF Events, Within, StatusInv, Sound, Known
    <3> HIDE DEF st
    <3>3. st = Events(h)[1] /\ 1 \in 1..Len(Events(h))
      BY <2>1, <3>1 DEF st
    <3> QED BY <3>1, <3>2, <3>3
  <2> HIDE DEF st
  <2>3. /\ Len(queue'[h]) <= QueueCap /\ \A i \in 1..Len(queue'[h]) : queue'[h][i] >= 0
        /\ Len(out'[h]) <= OutCap /\ \A i \in 1..Len(out'[h]) : out'[h][i] >= 0
    <3>1. CASE lazy[h]
      BY <1>1, <2>1, <3>1, TailWithin DEF Within
    <3>2. CASE ~lazy[h]
      BY <1>1, <2>1, <3>2, TailWithin DEF Within
    <3> QED BY <3>1, <3>2
  <2> QED BY <1>1, <1>2, <2>1, <2>2, <2>3 DEF Within, Starting
<1>8. CASE Greet(h)
  <2>1. view'[h] = Status /\ UNCHANGED <<queue, out, seed, pending>>
    BY <1>1, <1>8 DEF Greet, feed
  <2> QED BY <1>1, <1>2, <2>1 DEF Within, Status, Starting
<1>9. CASE Coalesce(h)
  <2>1. /\ view'[h] = pending[h] /\ pending[h] # Nothing /\ pending'[h] = Nothing
        /\ UNCHANGED <<queue, out, seed>>
    BY <1>1, <1>9 DEF Coalesce, Shown, feed
  <2>2. pending[h] >= 0 /\ pending[h] <= version /\ pending[h] \in Int
    BY <1>1, <2>1 DEF Within, StatusInv, Sound, Known, Values
  <2> QED BY <1>1, <1>2, <2>1, <2>2 DEF Within, Starting
<1>10. CASE Release(h)
  <2>1. /\ view'[h] = Nothing /\ pending'[h] = Nothing
        /\ UNCHANGED <<queue, out, seed>>
    BY <1>1, <1>10 DEF Release, feed
  <2> QED BY <1>2, <2>1 DEF Within
<1>11. CASE StreamEnds(h) \/ Admit(h) \/ Disconnect(h)
  <2>1. UNCHANGED <<queue, out, seed, pending, view>>
    BY <1>11 DEF StreamEnds, Admit, Disconnect, feed
  <2> QED BY <1>2, <2>1 DEF Within
<1> QED BY <1>3, <1>4, <1>5, <1>6, <1>7, <1>8, <1>9, <1>10, <1>11 DEF FeedStep, StreamStep

LEMMA WithinStep ==
    ASSUME StatusInv, StreamInv, [Next]_vars, \A h \in Clients : Within(h)
    PROVE  \A h \in Clients : Within(h)'
<1>1. CASE Silent
  <2>1. /\ version \in Nat /\ version' \in Nat /\ version <= version'
    BY <1>1 DEF StatusInv, StatusTypes, Silent
  <2>2. \A g \in Clients : Kept(g)
    BY <1>1 DEF Silent, Kept, streams
  <2> QED BY <2>1, <2>2, KeptIsWithin DEF StatusInv
<1>2. CASE Tell \/ TimerPushes
  <2>1. UNCHANGED <<version, main, open, streams>> /\ (Push \/ UNCHANGED feed)
    BY <1>2 DEF Tell, TimerPushes, notify, Coalesced, process, crawling
  <2>2. UNCHANGED feed => Silent
    BY <2>1 DEF Silent, feed, StatusInv, StatusTypes
  <2> QED BY <1>1, <2>1, <2>2, PushIsWithin
<1>3. CASE ClientStep
  <2>1. PICK h \in Clients :
               FeedStep(h) \/ StreamStep(h) \/ Admit(h) \/ Disconnect(h)
    BY <1>3 DEF ClientStep
  <2>2. Within(h)'
    BY <2>1, MoveIsWithin
  <2>3. ASSUME NEW g \in Clients, g # h PROVE Within(g)'
    <3>1. Kept(g)
      BY <2>1, <2>3, OthersKept DEF StatusInv
    <3>2. version' = version /\ version \in Nat
      BY <1>3, ClientsFrame DEF crawling, StatusInv, StatusTypes
    <3> QED BY <3>1, <3>2, KeptIsWithin DEF StatusInv
  <2> QED BY <2>2, <2>3
<1>4. CASE \/ CallerStep \/ Opens \/ Stopping \/ MainStep
           \/ SchedulerStarts \/ SchedulerStops \/ Pause \/ Resume
           \/ TimerFires \/ CrawlEnds \/ CrawlDone \/ Progress
           \/ \E at \in Following(crawl.at) : Enter(at)
  BY <1>1, <1>4, RestIsSilent
<1>5. CASE UNCHANGED vars
  <2>1. Silent
    BY <1>5 DEF Silent, vars, process, crawling, feed, StatusInv, StatusTypes
  <2> QED BY <1>1, <2>1
<1> QED BY <1>2, <1>3, <1>4, <1>5, NextSplits DEF OthersStep, CrawlStep

TypesInv ==
    FlagTypes /\ ChannelTypes /\ AnnounceInv /\ \A h \in Clients : Within(h)

LEMMA TypesInvInit ==
    ASSUME Init
    PROVE  TypesInv
<1>1. FlagTypes
  <2>1. (CHOOSE s \in Schedules : TRUE) \in Schedules
    BY ServiceAssumption
  <2> QED BY <2>1 DEF Init, FlagTypes
<1>2. ChannelTypes
  BY DEF Init, ChannelTypes
<1>3. AnnounceInv
  <2>1. load.crawls \in Nat /\ Each \in Nat
    BY ServiceAssumption DEF Init, Each
  <2>2. Starters = {} /\ Owed = 0
    BY DEF Init, Starters, Owed, Runs, NoCrawl
  <2> QED BY <2>1, <2>2 DEF Init, AnnounceInv
<1>4. \A h \in Clients : Within(h)
  BY ServiceAssumption DEF Init, Within
<1> QED BY <1>1, <1>2, <1>3, <1>4 DEF TypesInv

LEMMA TypesOfAll ==
    ASSUME StreamInv, CronInv, CrawlInv, ChannelInv, StatusInv, TypesInv
    PROVE  TypeOK
<1> USE DEF TypesInv
<1>1. /\ load \in Loads /\ {wg, ending} \subseteq 0..crawls /\ closed \in BOOLEAN /\ busy \in BOOLEAN
      /\ crawl \in [at : {"none", "begin", "crawling", "extracting", "metadata",
                          "finish"},
                    tell : {"no", "soft", "force"}, left : 0..MaxProgress,
                    late : BOOLEAN]
      /\ call \in [Callers -> {"idle", "checked", "claimed", "registered",
                               "applied"}]
  BY DEF CrawlInv, Stages, Calling
<1>2. version \in Versions
  <2>1. Each \in Nat /\ crawls \in Nat /\ crawl.left \in Nat /\ Owed \in Nat
    BY <1>1, ServiceAssumption DEF AnnounceInv, Each, Owed, Ahead
  <2>2. Each * crawls \in Nat /\ version \in Nat
    BY <2>1 DEF AnnounceInv
  <2>3. CASE Starters = {}
    BY <2>1, <2>2, <2>3 DEF AnnounceInv, Versions, Each
  <2>4. CASE Starters # {}
    <3>1. Each * (crawls - 1) + Each = Each * crawls /\ Each * (crawls - 1) \in Int
      BY <2>1, <2>4, OneMore DEF AnnounceInv
    <3>2. version <= Each * crawls
      BY <2>1, <2>2, <2>4, <3>1 DEF AnnounceInv
    <3> QED BY <2>2, <3>2 DEF Versions, Each
  <2> QED BY <2>3, <2>4
<1>3. crawls \in 0..load.crawls
  BY DEF AnnounceInv
<1>4. panic \in {"no", "send on closed channel", "close of closed channel"}
  BY DEF ChannelInv
<1>5. subs \subseteq Clients /\ shut \subseteq Clients \ subs
  BY DEF ChannelInv, ChannelTypes
<1>6. sseSubs \in 0..Cardinality(Clients)
  <2>1. IsFiniteSet(Clients) /\ Counted \subseteq Clients
    BY ServiceAssumption DEF Counted
  <2>2. Cardinality(Counted) <= Cardinality(Clients) /\ Cardinality(Clients) \in Nat
    BY <2>1, FS_Subset, FS_CardinalityType
  <2> QED BY <2>2, StreamSets DEF StreamInv
<1>7. /\ sub \in [Clients -> {"none", "poll", "seed", "send", "on"}]
      /\ pc \in [Clients -> {"off", "refuse", "admitted", "subscribing", "greet",
                             "stream", "leave", "release"}]
  BY DEF StreamInv, Places, Feeds
<1>8. ASSUME NEW h \in Clients
      PROVE  /\ Len(queue[h]) <= QueueCap /\ Len(out[h]) <= OutCap
             /\ \A i \in 1..Len(queue[h]) : queue[h][i] \in 0..version
             /\ {seed[h], pending[h], view[h]} \subseteq 0..version \union {Starting, Nothing}
             /\ {lazy[h], caught[h], sank[h], dropped[h]} \subseteq BOOLEAN
             /\ overtaken[h] \in {"no", "last", "once"}
  <2>1. /\ queue[h] \in Seq(Int) /\ version \in Nat /\ Within(h) /\ Known(h)
        /\ seed[h] \in Values /\ pending[h] \in Values /\ view[h] \in Values
    BY DEF StatusInv, StatusTypes, Sound
  <2>2. \A i \in 1..Len(queue[h]) : queue[h][i] \in 0..version
    BY <2>1 DEF Within, Known
  <2>3. {seed[h], pending[h], view[h]} \subseteq 0..version \union {Starting, Nothing}
    BY <2>1 DEF Within, Known, Values, Starting
  <2>4. {lazy[h], caught[h], sank[h], dropped[h]} \subseteq BOOLEAN /\ overtaken[h] \in {"no", "last", "once"}
    BY DEF StreamInv, StatusInv, StatusTypes, ChannelTypes
  <2> QED BY <2>1, <2>2, <2>3, <2>4 DEF Within
<1> QED BY <1>1, <1>2, <1>3, <1>4, <1>5, <1>6, <1>7, <1>8 DEF TypeOK, FlagTypes

LEMMA CrawlInvariant == Spec => []CrawlInv
BY CrawlInvInit, CrawlInvStep, PTL DEF Spec

LEMMA TypesInvariant == Spec => []TypesInv
<1>1. CrawlInv /\ StreamInv /\ StatusInv /\ TypesInv /\ [Next]_vars => TypesInv'
  <2> SUFFICES ASSUME CrawlInv, StreamInv, StatusInv, TypesInv, [Next]_vars
               PROVE  TypesInv'
    OBVIOUS
  <2>1. FlagTypes' /\ ChannelTypes' /\ AnnounceInv'
    BY FlagTypesStep, ChannelTypesStep, AnnounceInvStep DEF TypesInv
  <2>2. \A h \in Clients : Within(h)'
    BY WithinStep DEF TypesInv
  <2> QED BY <2>1, <2>2 DEF TypesInv
<1>2. Init => TypesInv
  BY TypesInvInit
<1> QED BY <1>1, <1>2, CrawlInvariant, StreamInvariant, StatusInvariant, PTL DEF Spec

\* However many clients, callers and crawls, and whatever is lost or late: each
\* goroutine is at a place of its code, channels stay within their capacity,
\* the wait group counts no more crawls than were begun, the one that runs and
\* those on their way out, and nothing a client is shown is ahead of the
\* status, nor the status of what the crawls so far announce.
THEOREM TypeCorrect == Spec => []TypeOK
<1>1. StreamInv /\ CronInv /\ CrawlInv /\ ChannelInv /\ StatusInv /\ TypesInv => TypeOK
  BY TypesOfAll
<1>2. Spec => []CronInv
  <2>1. Init => CronInv
    BY DEF Init, CronInv, CronFollowsConfig, Calling
  <2>2. CronInv /\ [Next]_vars => CronInv'
    BY CronInvStep
  <2> QED BY <2>1, <2>2, PTL DEF Spec
<1> QED BY <1>1, <1>2, StreamInvariant, CrawlInvariant, ChannelInvariant,
           StatusInvariant, TypesInvariant, PTL
=============================================================================
