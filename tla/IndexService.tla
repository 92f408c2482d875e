---------------------------- MODULE IndexService ----------------------------
(***************************************************************************)
(* The index service around the crawl (internal/index/service.go), its     *)
(* stand-in while the database opens (lazyIndex in main.go), the event     *)
(* streams that show its status (internal/api/index.go) and the end of the *)
(* daemon.  What a crawl does to the tables is in FileIndex; here it is    *)
(* the changes of status it announces.                                     *)
(*                                                                         *)
(* A status is a number, one more at every change that runCrawl announces  *)
(* to its subscribers.  Time is not counted: whether a second has passed   *)
(* since the last push, or ten since the shutdown began, is a choice.      *)
(***************************************************************************)
EXTENDS Integers, Sequences, FiniteSets

CONSTANTS
    Clients,      \* clients of the event stream
    Callers,      \* goroutines that call Rescan and SetConfig, the cron's too
    Schedules,    \* cron expressions that are valid
    NoSchedule,   \* no cron running
    Nothing,      \* no status
    Loads,        \* bound: which of them act in a behaviour, the crawls it has
                  \* and their phases; settings, pauses, the end of the daemon
    QueueCap,     \* capacity of a subscriber's channel (16)
    OutCap,       \* of the stand-in's channel, with the status in hand (2)
    SseMax,       \* streams at a time (32)
    MaxProgress   \* bound: announced steps of progress of a crawl

ASSUME ServiceAssumption ==
    /\ IsFiniteSet(Clients)
    /\ QueueCap \in Nat \ {0} /\ OutCap \in Nat \ {0} /\ SseMax \in Nat \ {0}
    /\ MaxProgress \in Nat
    /\ NoSchedule \notin Schedules /\ Schedules # {}
    /\ Nothing \notin Int
    /\ \A l \in Loads : /\ l.streams \subseteq Clients
                        /\ l.callers \subseteq Callers
                        /\ l.phases \subseteq {"extracting", "metadata"}
                        /\ l.crawls \in Nat /\ {l.configs, l.pauses, l.stops} \subseteq BOOLEAN

VARIABLES
    load,         \* the member of Loads of this behaviour
    main,         \* where run() is
    open,         \* the database: "opening", "ready", "failed"
    signalled,    \* the context of the signals is done
    closed,       \* Service.closed
    panic,        \* what ended the process
    busy,         \* Service.crawlBusy
    wg,           \* Service.wg
    ending,       \* crawls that have given crawlBusy back and not left wg
    cancel,       \* Service.crawlCancel cancels the crawl that is busy
    ctxDone,      \* the context of that crawl is done
    paused,       \* Service.resumeCh # nil
    crawl,        \* the crawl
    crawls,       \* crawls so far
    version,      \* the status
    call,         \* where each caller is
    cfg,          \* Service.cfg.Schedule
    cron,         \* Service.cron, by its schedule
    schedOn,      \* Service.schedOn
    sched,        \* where RunScheduler is
    timerArmed,   \* Service.timerArmed
    firing,       \* a timer has gone off and not pushed yet
    subs,         \* Service.subs
    shut,         \* closed channels of subscribers
    queue,        \* what is in each channel
    sub,          \* where Subscribe or the stand-in's goroutine is
    seed,         \* the status Subscribe has read
    lazy,         \* subscribed through the stand-in
    out,          \* the stand-in's channel
    sseSubs,      \* server.sseSubs
    pc,           \* where each handler is
    pending,      \* its coalesced status
    view,         \* the status its client has seen last
    caught,       \* history: the client has seen an event since the greeting
    sank,         \* history: since then its view has gone back
    overtaken,    \* history: the seed was queued behind a newer push ("last"),
                  \* and others were queued since ("once")
    dropped       \* history: the last push found the channel full

process == <<load, main, open, signalled, closed, panic>>
crawling == <<busy, wg, ending, cancel, ctxDone, crawl, crawls, version>>
calls   == <<call, cfg, cron, schedOn, sched>>
timer   == <<timerArmed, firing>>
feed    == <<subs, shut, queue, sub, seed, lazy, out, overtaken, dropped>>
streams == <<sseSubs, pc, pending, view, caught, sank>>
vars == <<process, crawling, paused, calls, timer, feed, streams>>

-----------------------------------------------------------------------------
Starting == -1              \* the status of the stand-in
Status == IF open = "ready" THEN version ELSE Starting
\* A crawl announces four states and its steps of progress.
Versions == 0..(MaxProgress + 4) * crawls

NoCrawl == [at |-> "none", tell |-> "no", left |-> 0, late |-> FALSE]
Alive   == main # "exited" /\ panic = "no"

Init ==
    /\ load \in Loads
    /\ main = "serve" /\ open = "opening"
    /\ signalled = FALSE /\ closed = FALSE /\ panic = "no"
    /\ busy = FALSE /\ wg = 0 /\ ending = 0 /\ cancel = FALSE /\ ctxDone = FALSE
    /\ paused = FALSE /\ crawl = NoCrawl /\ crawls = 0 /\ version = 0
    /\ call = [c \in Callers |-> "idle"]
    /\ cfg \in IF load.configs THEN Schedules ELSE {CHOOSE s \in Schedules : TRUE}
    /\ cron = NoSchedule /\ schedOn = FALSE /\ sched = "new"
    /\ timerArmed = FALSE /\ firing = FALSE
    /\ subs = {} /\ shut = {}
    /\ queue = [h \in Clients |-> <<>>] /\ out = [h \in Clients |-> <<>>]
    /\ sub = [h \in Clients |-> "none"]
    /\ seed = [h \in Clients |-> Nothing]
    /\ lazy = [h \in Clients |-> FALSE]
    /\ sseSubs = 0
    /\ pc = [h \in Clients |-> "off"]
    /\ pending = [h \in Clients |-> Nothing]
    /\ view = [h \in Clients |-> Nothing]
    /\ caught = [h \in Clients |-> FALSE]
    /\ sank = [h \in Clients |-> FALSE]
    /\ overtaken = [h \in Clients |-> "no"]
    /\ dropped = [h \in Clients |-> FALSE]

-----------------------------------------------------------------------------
(* notify: one snapshot, taken under the lock, to every subscriber that    *)
(* has room.                                                               *)

\* Mutant: the snapshot is taken before the lock.
PushEarlier ==
    LET room == {h \in subs : Len(queue[h]) < QueueCap} IN
    /\ \E st \in {version - 1, version} :
         queue' = [h \in Clients |-> IF h \in room THEN Append(queue[h], st)
                                                   ELSE queue[h]]
    /\ overtaken' = [h \in Clients |-> IF h \in room /\ overtaken[h] = "last"
                                       THEN "once" ELSE overtaken[h]]
    /\ UNCHANGED <<subs, shut, sub, seed, lazy, out, dropped>>

Push ==
    LET room == {h \in subs : Len(queue[h]) < QueueCap} IN
    /\ queue' = [h \in Clients |-> IF h \in room THEN Append(queue[h], Status)
                                                 ELSE queue[h]]
    /\ overtaken' = [h \in Clients |-> IF h \in room /\ overtaken[h] = "last"
                                       THEN "once" ELSE overtaken[h]]
    /\ dropped' = [h \in Clients |-> IF h \in subs THEN h \notin room
                                                   ELSE dropped[h]]
    /\ UNCHANGED <<subs, shut, sub, seed, lazy, out>>

\* Mutant: an update within the second is left to the next one.
Forgotten ==
    /\ subs # {}
    /\ UNCHANGED <<timerArmed, firing, feed>>

\* Less than a second since the last push.
Coalesced ==
    /\ subs # {}
    /\ timerArmed' = TRUE
    /\ UNCHANGED <<firing, feed>>

notify(force) ==
    \/ Push /\ UNCHANGED timer
    \/ ~force /\ Coalesced

\* The timer's goroutine takes the lock twice.  Bound: one of them at a time.
TimerFires ==
    /\ timerArmed /\ ~firing
    /\ timerArmed' = FALSE /\ firing' = TRUE
    /\ UNCHANGED <<process, crawling, paused, calls, feed, streams>>

TimerPushes ==
    /\ firing
    /\ firing' = FALSE
    /\ Push
    /\ UNCHANGED <<process, crawling, paused, calls, timerArmed, streams>>

-----------------------------------------------------------------------------
(* The crawl.                                                              *)

Following(at) ==
    CASE at = "begin"      -> {"crawling"}
      [] at = "crawling"   -> load.phases \union {"finish"}
      [] at = "extracting" -> (load.phases \ {at}) \union {"finish"}
      [] at = "metadata"   -> {"finish"}
      [] OTHER             -> {}

\* Mutant: the gate does not look at the context.
GateOfPause == ~paused

\* waitGate.  A phase has a gate before every file; one that ends while the
\* service is paused does so as if it had been paused a moment later.
Gate == ~paused \/ ctxDone

\* A phase stores its state, the next step announces it.
Enter(at) ==
    /\ crawl.tell = "no"
    /\ at \in Following(crawl.at)
    /\ crawl.at # "begin" => Gate
    /\ ctxDone => at \in {"crawling", "finish"}
    /\ crawl' = [crawl EXCEPT !.at = at, !.tell = "force"]
    /\ version' = version + 1
    /\ UNCHANGED <<process, busy, wg, ending, cancel, ctxDone, crawls, paused,
                   calls, timer, feed, streams>>

Progress ==
    /\ crawl.at \in {"crawling", "extracting", "metadata"}
    /\ crawl.tell = "no" /\ crawl.left > 0 /\ Gate
    /\ crawl' = [crawl EXCEPT !.tell = "soft", !.left = @ - 1]
    /\ version' = version + 1
    /\ UNCHANGED <<process, busy, wg, ending, cancel, ctxDone, crawls, paused,
                   calls, timer, feed, streams>>

Tell ==
    /\ crawl.tell # "no"
    /\ notify(crawl.tell = "force")
    /\ crawl' = [crawl EXCEPT !.tell = "no"]
    /\ UNCHANGED <<process, busy, wg, ending, cancel, ctxDone, crawls, version,
                   paused, calls, streams>>

\* Mutant: the wait group's Done comes with crawlBusy, and again at the end.
CrawlEndsDone ==
    /\ crawl.at = "finish" /\ crawl.tell = "no"
    /\ busy' = FALSE /\ crawl' = NoCrawl /\ ending' = ending + 1
    /\ wg' = wg - 1
    /\ UNCHANGED <<process, cancel, ctxDone, crawls, version, paused, calls,
                   timer, feed, streams>>

\* The defers of the goroutine: crawlBusy first, from here on the next Rescan
\* may have it; then cancel, of a context that no one looks at any more ...
CrawlEnds ==
    /\ crawl.at = "finish" /\ crawl.tell = "no"
    /\ busy' = FALSE /\ crawl' = NoCrawl /\ ending' = ending + 1
    /\ UNCHANGED <<process, wg, cancel, ctxDone, crawls, version, paused, calls,
                   timer, feed, streams>>

\* ... and the wait group's Done last.
CrawlDone ==
    /\ ending > 0
    /\ ending' = ending - 1 /\ wg' = wg - 1
    /\ UNCHANGED <<process, busy, cancel, ctxDone, crawl, crawls, version,
                   paused, calls, timer, feed, streams>>

CrawlStep ==
    \/ \E at \in Following(crawl.at) : Enter(at)
    \/ Progress \/ Tell \/ CrawlEnds \/ CrawlDone

-----------------------------------------------------------------------------
(* Callers: Rescan in the four steps another goroutine may come between,   *)
(* SetConfig in the two that matter to the scheduler, Pause and Resume.    *)

Goes(c, step) == call' = [call EXCEPT ![c] = step]

\* The stand-in refuses a call, or forgets it, until the service is ready.
Served == open = "ready"

AskRescan(c) ==
    /\ call[c] = "idle" /\ c \in load.callers /\ crawls < load.crawls
    /\ Served /\ ~closed
    /\ Goes(c, "checked")
    /\ UNCHANGED <<process, crawling, paused, cfg, cron, schedOn, sched, timer,
                   feed, streams>>

Refused(c) ==
    /\ call[c] = "checked" /\ busy
    /\ Goes(c, "idle")
    /\ UNCHANGED <<process, crawling, paused, cfg, cron, schedOn, sched, timer,
                   feed, streams>>

Claim(c) ==
    /\ call[c] = "checked" /\ ~busy /\ crawls < load.crawls
    /\ busy' = TRUE /\ crawls' = crawls + 1
    /\ cancel' = FALSE /\ ctxDone' = FALSE
    /\ Goes(c, "claimed")
    /\ UNCHANGED <<process, wg, ending, crawl, version, paused, cfg, cron,
                   schedOn, sched, timer, feed, streams>>

Register(c) ==
    /\ call[c] = "claimed"
    /\ cancel' = TRUE
    /\ Goes(c, "registered")
    /\ UNCHANGED <<process, busy, wg, ending, ctxDone, crawl, crawls, version,
                   paused, cfg, cron, schedOn, sched, timer, feed, streams>>

Begun == [at |-> "begin", tell |-> "no", left |-> MaxProgress, late |-> closed]

\* Mutant: the goroutine enters the wait group itself, once it runs.
SpawnUncounted(c) ==
    /\ call[c] = "registered"
    /\ crawl' = Begun
    /\ Goes(c, "idle")
    /\ UNCHANGED <<process, busy, wg, ending, cancel, ctxDone, crawls, version,
                   paused, cfg, cron, schedOn, sched, timer, feed, streams>>

Spawn(c) ==
    /\ call[c] = "registered"
    /\ wg' = wg + 1
    /\ crawl' = Begun
    /\ Goes(c, "idle")
    /\ UNCHANGED <<process, busy, ending, cancel, ctxDone, crawls, version,
                   paused, cfg, cron, schedOn, sched, timer, feed, streams>>

\* What validateConfig refuses, an empty schedule too, changes nothing.
SetConfig(c, s) ==
    /\ call[c] = "idle" /\ c \in load.callers /\ load.configs
    /\ Served /\ ~closed
    /\ cfg' = s
    /\ Goes(c, "applied")
    /\ UNCHANGED <<process, crawling, paused, cron, schedOn, sched, timer,
                   feed, streams>>

\* Mutant: a cron that runs is left running.
RescheduleIfStopped(c) ==
    /\ call[c] = "applied"
    /\ cron' = IF schedOn /\ cron = NoSchedule THEN cfg ELSE cron
    /\ Goes(c, "idle")
    /\ UNCHANGED <<process, crawling, paused, cfg, schedOn, sched, timer, feed,
                   streams>>

\* restartCronLocked reads the live configuration.
Reschedule(c) ==
    /\ call[c] = "applied"
    /\ cron' = IF schedOn THEN cfg ELSE cron
    /\ Goes(c, "idle")
    /\ UNCHANGED <<process, crawling, paused, cfg, schedOn, sched, timer, feed,
                   streams>>

Pause ==
    /\ Served /\ ~paused /\ load.pauses
    /\ paused' = TRUE
    /\ UNCHANGED <<process, crawling, calls, timer, feed, streams>>

Resume ==
    /\ Served /\ paused
    /\ paused' = FALSE
    /\ UNCHANGED <<process, crawling, calls, timer, feed, streams>>

CallStep(c) ==
    \/ Refused(c) \/ Claim(c) \/ Register(c) \/ Spawn(c) \/ Reschedule(c)

-----------------------------------------------------------------------------
(* Opening the database, the scheduler, the end of the daemon.             *)

Opens ==
    /\ open = "opening"
    /\ open' \in {"ready", "failed"}
    /\ UNCHANGED <<load, main, signalled, closed, panic, crawling, paused,
                   calls, timer, feed, streams>>

SchedulerStarts ==
    /\ open = "ready" /\ sched = "new" /\ load.configs
    /\ sched' = "on" /\ schedOn' = TRUE /\ cron' = cfg
    /\ UNCHANGED <<process, crawling, paused, call, cfg, timer, feed, streams>>

SchedulerStops ==
    /\ sched = "on" /\ signalled
    /\ sched' = "over" /\ schedOn' = FALSE /\ cron' = NoSchedule
    /\ UNCHANGED <<process, crawling, paused, call, cfg, timer, feed, streams>>

MainGoes(step) ==
    /\ main' = step
    /\ UNCHANGED <<load, open, panic>>

\* A signal, or the listener fails.
Stopping ==
    /\ main = "serve" /\ load.stops
    /\ \/ MainGoes("shutdown") /\ signalled' = TRUE
       \/ MainGoes("close") /\ UNCHANGED signalled
    /\ UNCHANGED <<closed, crawling, paused, calls, timer, feed, streams>>

\* Shutdown returns when every request has ended or ten seconds are over.
ShutdownReturns ==
    /\ main = "shutdown"
    /\ MainGoes("close")
    /\ UNCHANGED <<signalled, closed, crawling, paused, calls, timer, feed,
                   streams>>

\* Without a service in the stand-in there is nothing to close.
CloseBegins ==
    /\ main = "close"
    /\ IF open = "ready" THEN MainGoes("cancel") /\ closed' = TRUE
                         ELSE MainGoes("exited") /\ UNCHANGED closed
    /\ UNCHANGED <<signalled, crawling, paused, calls, timer, feed, streams>>

CloseCancels ==
    /\ main = "cancel"
    /\ MainGoes("wait")
    /\ ctxDone' = (ctxDone \/ cancel)
    /\ UNCHANGED <<signalled, closed, busy, wg, ending, cancel, crawl, crawls,
                   version, paused, calls, timer, feed, streams>>

CloseWaits ==
    /\ main = "wait" /\ wg = 0
    /\ MainGoes("cron")
    /\ UNCHANGED <<signalled, closed, crawling, paused, calls, timer, feed,
                   streams>>

CloseStopsCron ==
    /\ main = "cron"
    /\ MainGoes("subs")
    /\ schedOn' = FALSE /\ cron' = NoSchedule
    /\ UNCHANGED <<signalled, closed, crawling, paused, call, cfg, sched,
                   timer, feed, streams>>

CloseEndsFeed ==
    /\ main = "subs"
    /\ MainGoes("db")
    /\ subs' = {} /\ shut' = shut \union subs
    /\ UNCHANGED <<signalled, closed, crawling, paused, calls, timer, queue,
                   sub, seed, lazy, out, overtaken, dropped, streams>>

\* db.Close, then the media service's Close, then the process ends.
CloseStore ==
    /\ main \in {"db", "rest"}
    /\ MainGoes(IF main = "db" THEN "rest" ELSE "exited")
    /\ UNCHANGED <<signalled, closed, crawling, paused, calls, timer, feed,
                   streams>>

MainStep ==
    \/ ShutdownReturns \/ CloseBegins \/ CloseCancels \/ CloseWaits
    \/ CloseStopsCron \/ CloseEndsFeed \/ CloseStore

-----------------------------------------------------------------------------
(* Subscribe, its cancel function, and the stand-in's goroutine.           *)

Subscribed(h) ==
    /\ subs' = subs \union {h} /\ shut' = shut \ {h}
    /\ queue' = [queue EXCEPT ![h] = <<>>]
    /\ sub' = [sub EXCEPT ![h] = "seed"]
    /\ overtaken' = [overtaken EXCEPT ![h] = "no"]
    /\ dropped' = [dropped EXCEPT ![h] = FALSE]

\* The seed is a status read after the lock is left ...
ReadSeed(h) ==
    /\ sub[h] = "seed"
    /\ seed' = [seed EXCEPT ![h] = version]
    /\ sub' = [sub EXCEPT ![h] = "send"]
    /\ UNCHANGED <<process, crawling, paused, calls, timer, subs, shut, queue,
                   lazy, out, overtaken, dropped, streams>>

\* ... and sent to a channel that may have been pushed to, or closed.
SendSeed(h) ==
    LET room == Len(queue[h]) < QueueCap IN
    /\ sub[h] = "send"
    /\ IF h \in shut
       THEN /\ panic' = "send on closed channel"
            /\ UNCHANGED <<queue, overtaken>>
       ELSE /\ queue' = IF room THEN [queue EXCEPT ![h] = Append(@, seed[h])]
                                ELSE queue
            /\ overtaken' = [overtaken EXCEPT ![h] =
                 IF room /\ queue[h] # <<>> /\ seed[h] < queue[h][Len(queue[h])]
                 THEN "last" ELSE "no"]
            /\ UNCHANGED panic
    /\ sub' = [sub EXCEPT ![h] = "on"]
    /\ seed' = [seed EXCEPT ![h] = Nothing]
    /\ pc' = [pc EXCEPT ![h] = IF lazy[h] THEN @ ELSE "greet"]
    /\ UNCHANGED <<load, main, open, signalled, closed, crawling, paused,
                   calls, timer, subs, shut, lazy, out, dropped, sseSubs,
                   pending, view, caught, sank>>

Closes(h) ==
    /\ subs' = subs \ {h} /\ shut' = shut \union {h}
    /\ panic' = IF h \in shut THEN "close of closed channel" ELSE panic

\* Mutant: the channel is closed without a look at the map.
CancelBlindly(h) == Closes(h)

Cancel(h) == IF h \in subs THEN Closes(h) ELSE UNCHANGED <<subs, shut, panic>>

\* The handler has left: the stand-in's done channel is closed.
Done(h) == pc[h] \in {"release", "off"}

\* The stand-in's goroutine looks for the service twice a second.
Poll(h) ==
    /\ sub[h] = "poll" /\ open = "ready"
    /\ Subscribed(h)
    /\ UNCHANGED <<process, crawling, paused, calls, timer, seed, lazy, out,
                   streams>>

StopPolling(h) ==
    /\ sub[h] = "poll" /\ Done(h)
    /\ sub' = [sub EXCEPT ![h] = "none"]
    /\ UNCHANGED <<process, crawling, paused, calls, timer, subs, shut, queue,
                   seed, lazy, out, overtaken, dropped, streams>>

Forward(h) ==
    /\ lazy[h] /\ sub[h] = "on" /\ queue[h] # <<>> /\ Len(out[h]) < OutCap
    /\ out' = [out EXCEPT ![h] = Append(@, Head(queue[h]))]
    /\ queue' = [queue EXCEPT ![h] = Tail(@)]
    /\ UNCHANGED <<process, crawling, paused, calls, timer, subs, shut, sub,
                   seed, lazy, overtaken, dropped, streams>>

StopForwarding(h) ==
    /\ lazy[h] /\ sub[h] = "on"
    /\ Done(h) \/ (h \in shut /\ queue[h] = <<>>)
    /\ Cancel(h)
    /\ sub' = [sub EXCEPT ![h] = "none"]
    /\ queue' = [queue EXCEPT ![h] = <<>>]
    /\ out' = IF Done(h) THEN [out EXCEPT ![h] = <<>>] ELSE out
    /\ UNCHANGED <<load, main, open, signalled, closed, crawling, paused,
                   calls, timer, seed, lazy, overtaken, dropped, streams>>

FeedStep(h) ==
    \/ ReadSeed(h) \/ SendSeed(h)
    \/ Poll(h) \/ StopPolling(h) \/ Forward(h) \/ StopForwarding(h)

-----------------------------------------------------------------------------
(* indexEvents, the handler of one stream.                                 *)

\* Mutant: one stream more than allowed.
Excess(n) == n > SseMax + 1

TooMany(n) == n > SseMax

\* Bound: a client comes back once the goroutine of its last stream is over.
Admit(h) ==
    /\ pc[h] = "off" /\ sub[h] = "none"
    /\ main = "serve" /\ h \in load.streams
    /\ sseSubs' = sseSubs + 1
    /\ pc' = [pc EXCEPT ![h] = IF TooMany(sseSubs + 1) THEN "refuse"
                                                       ELSE "admitted"]
    /\ UNCHANGED <<process, crawling, paused, calls, timer, feed, pending,
                   view, caught, sank>>

Subscribe(h) ==
    /\ pc[h] = "admitted"
    /\ IF open = "ready"
       THEN /\ Subscribed(h)
            /\ lazy' = [lazy EXCEPT ![h] = FALSE]
            /\ pc' = [pc EXCEPT ![h] = "subscribing"]
       ELSE /\ lazy' = [lazy EXCEPT ![h] = TRUE]
            /\ sub' = [sub EXCEPT ![h] = "poll"]
            /\ pc' = [pc EXCEPT ![h] = "greet"]
            /\ UNCHANGED <<subs, shut, queue, overtaken, dropped>>
    /\ UNCHANGED <<process, crawling, paused, calls, timer, seed, out, sseSubs,
                   pending, view, caught, sank>>

Greet(h) ==
    /\ pc[h] = "greet"
    /\ view' = [view EXCEPT ![h] = Status]
    /\ pc' = [pc EXCEPT ![h] = "stream"]
    /\ UNCHANGED <<process, crawling, paused, calls, timer, feed, sseSubs,
                   pending, caught, sank>>

Events(h) == IF lazy[h] THEN out[h] ELSE queue[h]

Taken(h) ==
    IF lazy[h] THEN out' = [out EXCEPT ![h] = Tail(@)] /\ UNCHANGED queue
               ELSE queue' = [queue EXCEPT ![h] = Tail(@)] /\ UNCHANGED out

Shown(h, st) ==
    /\ view' = [view EXCEPT ![h] = st]
    /\ caught' = [caught EXCEPT ![h] = TRUE]
    /\ sank' = [sank EXCEPT ![h] = @ \/ (caught[h] /\ st < view[h])]

\* Mutant: the status put off stays when a newer one is sent.
SendsKeeping(h, st) == Shown(h, st) /\ UNCHANGED pending

Sends(h, st) == Shown(h, st) /\ pending' = [pending EXCEPT ![h] = Nothing]

\* Sent if a second has passed since the last one, else put off.
Receive(h) ==
    /\ pc[h] = "stream" /\ Events(h) # <<>>
    /\ Taken(h)
    /\ LET st == Head(Events(h)) IN
         \/ Sends(h, st)
         \/ pending' = [pending EXCEPT ![h] = st] /\ UNCHANGED <<view, caught, sank>>
    /\ UNCHANGED <<process, crawling, paused, calls, timer, subs, shut, sub,
                   seed, lazy, overtaken, dropped, sseSubs, pc>>

Coalesce(h) ==
    /\ pc[h] = "stream" /\ pending[h] # Nothing
    /\ Shown(h, pending[h]) /\ pending' = [pending EXCEPT ![h] = Nothing]
    /\ UNCHANGED <<process, crawling, paused, calls, timer, feed, sseSubs, pc>>

\* The channel is closed and read to its end.
FeedIsOver(h) ==
    /\ Events(h) = <<>>
    /\ IF lazy[h] THEN sub[h] = "none" ELSE h \in shut

StreamEnds(h) ==
    /\ pc[h] = "stream" /\ FeedIsOver(h)
    /\ pc' = [pc EXCEPT ![h] = "leave"]
    /\ UNCHANGED <<process, crawling, paused, calls, timer, feed, sseSubs,
                   pending, view, caught, sank>>

\* The client is gone, or a write took longer than its deadline.
Disconnect(h) ==
    /\ pc[h] \in {"greet", "stream"}
    /\ pc' = [pc EXCEPT ![h] = "leave"]
    /\ UNCHANGED <<process, crawling, paused, calls, timer, feed, sseSubs,
                   pending, view, caught, sank>>

\* The defers: unsubscribe (of the stand-in: close done), then release.
Unsubscribe(h) ==
    /\ pc[h] = "leave"
    /\ IF lazy[h]
       THEN UNCHANGED <<subs, shut, panic, sub, queue>>
       ELSE /\ Cancel(h)
            /\ sub' = [sub EXCEPT ![h] = "none"]
            /\ queue' = [queue EXCEPT ![h] = <<>>]
    /\ pc' = [pc EXCEPT ![h] = "release"]
    /\ UNCHANGED <<load, main, open, signalled, closed, crawling, paused,
                   calls, timer, seed, lazy, out, overtaken, dropped, sseSubs,
                   pending, view, caught, sank>>

\* Also the end of a refused request, which takes back what it added.
Release(h) ==
    /\ pc[h] \in {"release", "refuse"}
    /\ sseSubs' = sseSubs - 1
    /\ pc' = [pc EXCEPT ![h] = "off"]
    /\ pending' = [pending EXCEPT ![h] = Nothing]
    /\ view' = [view EXCEPT ![h] = Nothing]
    /\ caught' = [caught EXCEPT ![h] = FALSE]
    /\ sank' = [sank EXCEPT ![h] = FALSE]
    /\ UNCHANGED <<process, crawling, paused, calls, timer, feed>>

StreamStep(h) ==
    \/ Subscribe(h) \/ Greet(h) \/ Receive(h) \/ Coalesce(h) \/ StreamEnds(h)
    \/ Unsubscribe(h) \/ Release(h)

-----------------------------------------------------------------------------
Over == ~Alive /\ UNCHANGED vars

Next ==
    \/ Alive /\ \/ CrawlStep \/ TimerFires \/ TimerPushes
                \/ Opens \/ SchedulerStarts \/ SchedulerStops
                \/ Stopping \/ MainStep \/ Pause \/ Resume
                \/ \E c \in Callers :
                     \/ CallStep(c) \/ AskRescan(c)
                     \/ \E s \in Schedules : SetConfig(c, s)
                \/ \E h \in Clients :
                     FeedStep(h) \/ StreamStep(h) \/ Admit(h) \/ Disconnect(h)
    \/ Over

Spec == Init /\ [][Next]_vars

\* Goroutines that can run do run, but nothing says that a crawl gets on with
\* its files before it is cancelled, that a client stays or goes, that anyone
\* calls, resumes or stops the daemon.
Fairness ==
    /\ WF_vars(Alive /\ Tell) /\ WF_vars(Alive /\ CrawlEnds)
    /\ WF_vars(Alive /\ CrawlDone)
    /\ WF_vars(Alive /\ ctxDone /\ CrawlStep)
    /\ WF_vars(Alive /\ TimerFires) /\ WF_vars(Alive /\ TimerPushes)
    /\ WF_vars(Alive /\ MainStep) /\ WF_vars(Alive /\ SchedulerStops)
    /\ \A c \in Callers : WF_vars(Alive /\ CallStep(c))
    /\ \A h \in Clients : WF_vars(Alive /\ FeedStep(h))
                          /\ WF_vars(Alive /\ StreamStep(h))

FairSpec == Spec /\ Fairness

-----------------------------------------------------------------------------
(* Properties.                                                             *)

\* Everything has its type; a status is never ahead of what the crawls so far
\* have to announce, and nothing on its way to a client is ahead of it.
TypeOK ==
    /\ load \in Loads
    /\ main \in {"serve", "shutdown", "close", "cancel", "wait", "cron", "subs",
                 "db", "rest", "exited"}
    /\ open \in {"opening", "ready", "failed"}
    /\ {signalled, closed, busy, cancel, ctxDone, paused, schedOn, timerArmed,
        firing} \subseteq BOOLEAN
    /\ panic \in {"no", "send on closed channel", "close of closed channel"}
    /\ crawls \in 0..load.crawls /\ version \in Versions
    /\ {wg, ending} \subseteq 0..crawls
    /\ crawl \in [at : {"none", "begin", "crawling", "extracting", "metadata",
                        "finish"},
                  tell : {"no", "soft", "force"}, left : 0..MaxProgress,
                  late : BOOLEAN]
    /\ call \in [Callers -> {"idle", "checked", "claimed", "registered",
                             "applied"}]
    /\ cfg \in Schedules /\ cron \in Schedules \union {NoSchedule}
    /\ sched \in {"new", "on", "over"}
    /\ subs \subseteq Clients /\ shut \subseteq Clients \ subs
    /\ sub \in [Clients -> {"none", "poll", "seed", "send", "on"}]
    /\ pc \in [Clients -> {"off", "refuse", "admitted", "subscribing", "greet",
                           "stream", "leave", "release"}]
    /\ sseSubs \in 0..Cardinality(Clients)
    /\ \A h \in Clients :
         /\ Len(queue[h]) <= QueueCap /\ Len(out[h]) <= OutCap
         /\ \A i \in 1..Len(queue[h]) : queue[h][i] \in 0..version
         /\ {seed[h], pending[h], view[h]} \subseteq 0..version \union {Starting, Nothing}
         /\ {lazy[h], caught[h], sank[h], dropped[h]} \subseteq BOOLEAN
         /\ overtaken[h] \in {"no", "last", "once"}

\* "Close cancels any running crawl, waits for it" (service.go:171): once it
\* has waited, no crawl runs but one whose Rescan had looked at closed before
\* Close began and left the wait group's Add for after.  At any time there is
\* one crawl, started or about to be, exactly when crawlBusy says so.
CloseWaitsForCrawl ==
    /\ main \in {"cron", "subs", "db", "rest"} /\ crawl.at # "none" => crawl.late
    /\ busy = (\/ crawl.at # "none"
               \/ \E c \in Callers : call[c] \in {"claimed", "registered"})

\* The cron runs only while the scheduler does, and with the schedule that is
\* configured as soon as no caller of SetConfig is between its two locks.
CronFollowsConfig ==
    /\ ~schedOn => cron = NoSchedule
    /\ schedOn /\ (\A c \in Callers : call[c] # "applied") => cron = cfg

\* No more streams than allowed, though the count is raised before it is
\* compared; and the count is of those that will lower it again.
StreamsWithinLimit ==
    /\ Cardinality({h \in Clients : pc[h] \notin {"off", "refuse"}}) <= SseMax
    /\ sseSubs = Cardinality({h \in Clients : pc[h] # "off"})

\* The streams are clients of SlotPool: a stream is let in only while fewer
\* than SseMax are in, though those about to be refused are counted as well.
SsePool == INSTANCE SlotPool WITH
    Clients <- Clients, Capacity <- SseMax,
    holders <- {h \in Clients : pc[h] \notin {"off", "refuse"}}
StreamsAreAPool == SsePool!Spec

\* Close and a subscriber's cancel function may both want to close its
\* channel: only one does.  A status is sent to a closed channel only while
\* the daemon ends, by a Subscribe that Close came in the middle of.
OnlySeedsPanic ==
    /\ panic # "close of closed channel"
    /\ panic = "send on closed channel" =>
         main \in {"db", "rest"} /\ \E h \in Clients : sub[h] = "on" /\ h \in shut

\* A channel never holds an older status behind a newer one, unless the seed
\* was sent behind a push: snapshots are taken and sent under one lock.
PushesInOrder ==
    \A h \in Clients : overtaken[h] = "no" =>
        \A i \in 1..Len(queue[h]) - 1 : queue[h][i] <= queue[h][i + 1]

\* What a client sees goes back from the greeting to what was queued before it
\* and, if its seed was sent behind a newer push (service.go:231), once more to
\* that seed; else it only goes forward, coalesced or not.
ViewGoesForward ==
    [][\A h \in Clients :
         view'[h] # Nothing /\ view[h] # Nothing /\ view'[h] < view[h] =>
           ~caught[h] \/ (overtaken[h] # "no" /\ ~sank[h])]_vars

\* "A trailing timer guarantees the final coalesced update is delivered"
\* (service.go:634): a client that stays sees the status as last announced,
\* however long the crawl then stands still, unless its channel was full at
\* the last push, or its seed was queued behind a newer one.
ViewCatchesUp ==
    \A h \in Clients :
        pc[h] = "stream" /\ sub[h] = "on" /\ h \in subs /\ crawl.tell = "no"
        ~> \/ view[h] = version
           \/ crawl.tell # "no"
           \/ pc[h] # "stream" \/ ~Alive \/ h \notin subs
           \/ dropped[h] \/ overtaken[h] = "last"

\* A shutdown ends, also with streams open, unless Close cancelled while the
\* cancel function of a crawl about to start was not in place yet.
MissedCancel == main = "wait" /\ busy /\ ~ctxDone
ShutdownEnds == main # "serve" ~> ~Alive \/ MissedCancel
=============================================================================
