---------------------------- MODULE MediaSessions ----------------------------
(***************************************************************************)
(* The media service of the daemon (internal/transcode): at most MaxProcs  *)
(* child processes at a time, at most MaxSessions sessions in memory.  A   *)
(* request of a player is a goroutine; its steps are separated where the   *)
(* code takes or leaves a lock, waits for a slot or for a child.           *)
(*                                                                         *)
(* Deadlines are not counted.  Whatever a deadline may cut short (the wait *)
(* for a slot, a child) may end at any moment; how long a session has been *)
(* idle only matters against the TTL, which Age stands for.                *)
(***************************************************************************)
EXTENDS Integers, FiniteSets

CONSTANTS
    Players,      \* concurrent requests
    Sessions,     \* ids, each given out once (the bound on sessions created)
    None,         \* no session, nobody
    MaxProcs, MaxSessions,
    HW            \* whether hardware encoding was detected

ASSUME BoundAssumption ==
    /\ MaxProcs \in Nat \ {0} /\ MaxSessions \in Nat \ {0}
    /\ IsFiniteSet(Players) /\ HW \in BOOLEAN
    /\ None \notin Sessions \union Players

VARIABLES
    sem,      \* tokens in the semaphore channel
    running,  \* Service.running, the counter of live children
    made,     \* ids given out
    live,     \* store.sessions
    order,    \* pairs of sessions, one used (lastUsed) no later than the other
    stale,    \* sessions whose lastUsed is more than the TTL ago
    active,   \* session.active
    hwFailed, \* sessions whose hardware encode failed once
    mu,       \* who holds store.mu over several steps
    scan,     \* the scan of put: sessions not yet looked at, victim so far
    req       \* the request of each player

vars == <<sem, running, made, live, order, stale, active, hwFailed, mu, scan, req>>
slots == <<sem, running>>
store == <<made, live, mu, scan>>
usage == <<order, stale, active, hwFailed>>

-----------------------------------------------------------------------------
Holding == {"open", "probing", "sample", "sampling", "stamp", "put", "scan",
            "acquired", "plan", "looking", "choose", "start", "starting",
            "streaming", "drained", "end", "release"}
Request == [at : {"idle", "touch", "acquire", "waiting"} \union Holding,
            op : {"probe", "create", "segment", "playlist"},
            ss : Sessions \union {None},
            hw : BOOLEAN]

Idle   == [at |-> "idle", op |-> "probe", ss |-> None, hw |-> FALSE]
NoScan == [full |-> FALSE, left |-> {}, victim |-> None]

\* A child process of the request is alive.
Childed == {"probing", "sampling", "looking", "starting", "streaming"}
\* The session counts the request as a producer.
Producing == {"plan", "looking", "choose", "start", "starting", "streaming",
              "drained", "end"}
\* The request has touched its session and is not answered yet.
Served == {"acquire", "waiting", "acquired"} \union Producing

At(p, steps)  == req[p].at \in steps
Goes(p, step) == req' = [req EXCEPT ![p].at = step]

Init ==
    /\ sem = 0 /\ running = 0
    /\ made = {} /\ live = {} /\ order = {} /\ stale = {}
    /\ active = [ss \in Sessions |-> 0] /\ hwFailed = {}
    /\ mu = None /\ scan = NoScan
    /\ req = [p \in Players |-> Idle]

-----------------------------------------------------------------------------
(* Sessions: last use, lookup, close, expiry.                              *)

\* The sessions whose last use matters: in the store, or about to enter it.
Known == {ss \in made : <<ss, ss>> \in order}

Without(dropped) == {pair \in order : pair[1] \notin dropped /\ pair[2] \notin dropped}

\* Mutant: a session is entered again without leaving its old place.
UsedAgain(ss) ==
    /\ order' = IF ss \in Known THEN order \union (Known \X {ss}) ELSE order
    /\ stale' = stale \ {ss}

Latest(ss) == Without({ss}) \union ((Known \union {ss}) \X {ss})

\* lastUsed = now; what a forgotten session records no longer matters.
Used(ss) ==
    /\ order' = IF ss \in Known THEN Latest(ss) ELSE order
    /\ stale' = stale \ {ss}

Forget(dropped) ==
    /\ live' = live \ dropped
    /\ order' = Without(dropped)

\* store.get finds the session under the store's lock and touches it after.
Get(p, op, ss) ==
    /\ At(p, {"idle"}) /\ mu = None /\ ss \in live
    /\ req' = [req EXCEPT ![p] = [Idle EXCEPT !.at = "touch", !.op = op, !.ss = ss]]
    /\ UNCHANGED <<slots, store, usage>>

\* The playlist is rendered and done; a segment may be out of range.
Touch(p) ==
    /\ At(p, {"touch"})
    /\ Used(req[p].ss)
    /\ \/ Goes(p, "idle")
       \/ req[p].op = "segment" /\ Goes(p, "acquire")
    /\ UNCHANGED <<slots, store, active, hwFailed>>

CloseSession(ss) ==
    /\ mu = None /\ ss \in live
    /\ Forget({ss})
    /\ UNCHANGED <<slots, made, mu, scan, stale, active, hwFailed, req>>

\* The TTL passes: far more than the time from a touch to begin().
Age(ss) ==
    /\ ss \in live \ stale
    /\ \A p \in Players : ~(req[p].ss = ss /\ At(p, Served \ Producing))
    /\ stale' = stale \union {ss}
    /\ UNCHANGED <<slots, store, order, active, hwFailed, req>>

\* Mutant: expired sessions go, whether or not a producer runs.
SweepBusyToo ==
    LET dropped == live \intersect stale IN
      /\ mu = None /\ dropped # {}
      /\ Forget(dropped)
      /\ UNCHANGED <<slots, made, mu, scan, stale, active, hwFailed, req>>

Sweep ==
    LET dropped == {ss \in live \intersect stale : active[ss] = 0} IN
      /\ mu = None /\ dropped # {}
      /\ Forget(dropped)
      /\ UNCHANGED <<slots, made, mu, scan, stale, active, hwFailed, req>>

-----------------------------------------------------------------------------
(* Slots: acquire, release.                                                *)

Ask(p, op) ==
    /\ At(p, {"idle"})
    /\ req' = [req EXCEPT ![p] = [Idle EXCEPT !.at = "acquire", !.op = op]]
    /\ UNCHANGED <<slots, store, usage>>

\* A free slot is taken at once or, after a wait, when one comes free.
Acquire(p) ==
    /\ At(p, {"acquire", "waiting"})
    /\ sem < MaxProcs /\ sem' = sem + 1
    /\ Goes(p, IF req[p].op = "segment" THEN "acquired" ELSE "open")
    /\ UNCHANGED <<running, store, usage>>

Wait(p) ==
    /\ At(p, {"acquire"}) /\ sem = MaxProcs
    /\ Goes(p, "waiting")
    /\ UNCHANGED <<slots, store, usage>>

\* Mutant: who never had a slot gives one back.
GiveUpReleasing(p) ==
    /\ At(p, {"waiting"})
    /\ sem' = sem - 1
    /\ req' = [req EXCEPT ![p] = Idle]
    /\ UNCHANGED <<running, store, usage>>

\* ProcWait is over or the client has left, even if a slot is free by now.
GiveUp(p) ==
    /\ At(p, {"waiting"})
    /\ req' = [req EXCEPT ![p] = Idle]
    /\ UNCHANGED <<slots, store, usage>>

Release(p) ==
    /\ At(p, {"release"})
    /\ sem' = sem - 1
    /\ req' = [req EXCEPT ![p] = Idle]
    /\ UNCHANGED <<running, store, usage>>

\* A child is started for p; a child of p is reaped.
Child(p, from, to) ==
    /\ At(p, from) /\ Goes(p, to)
    /\ running' = running + 1
    /\ UNCHANGED <<sem, store, usage>>

Reaped(p, from, to) ==
    /\ At(p, from) /\ Goes(p, to)
    /\ running' = running - 1
    /\ UNCHANGED <<sem, store, usage>>

Moves(p, from, to) ==
    /\ At(p, from) /\ Goes(p, to)
    /\ UNCHANGED <<slots, store, usage>>

-----------------------------------------------------------------------------
(* Probe and CreateSession.  The several keyframe lookups of one session   *)
(* run one after the other: one child stands for them.                     *)

OpenFails(p)  == Moves(p, {"open"}, "release")
StartProbe(p) == Child(p, {"open"}, "probing")
EndProbe(p)   == \/ Reaped(p, {"probing"}, "release")
                 \/ req[p].op = "create" /\ Reaped(p, {"probing"}, "sample")
StartSampling(p) == Child(p, {"sample"}, "sampling")
EndSampling(p)   == Reaped(p, {"sampling"}, "stamp") \/ Reaped(p, {"sampling"}, "release")
SkipSampling(p)  == Moves(p, {"sample"}, "stamp") \/ Moves(p, {"sample"}, "release")

\* The new session takes its id and its lastUsed before put.
Stamp(p, ss) ==
    /\ At(p, {"stamp"}) /\ ss \notin made
    /\ made' = made \union {ss}
    /\ order' = Latest(ss)
    /\ req' = [req EXCEPT ![p].at = "put", ![p].ss = ss]
    /\ UNCHANGED <<slots, live, mu, scan, stale, active, hwFailed>>

\* The file is too long to stream, or no id can be drawn.
StampFails(p) == Moves(p, {"stamp"}, "release")

\* Mutant: one session too many before the scan starts.
PutLockLate(p) ==
    /\ At(p, {"put"}) /\ mu = None
    /\ mu' = p
    /\ LET full == Cardinality(live) > MaxSessions IN
         scan' = [full |-> full, left |-> IF full THEN live ELSE {}, victim |-> None]
    /\ Goes(p, "scan")
    /\ UNCHANGED <<slots, made, live, usage>>

\* put holds the store's lock, but only each candidate's own for its look at it.
PutLock(p) ==
    /\ At(p, {"put"}) /\ mu = None
    /\ mu' = p
    /\ LET full == Cardinality(live) >= MaxSessions IN
         scan' = [full |-> full, left |-> IF full THEN live ELSE {}, victim |-> None]
    /\ Goes(p, "scan")
    /\ UNCHANGED <<slots, made, live, usage>>

Before(a, b) == a # b /\ <<a, b>> \in order

Examine(p, ss) ==
    /\ At(p, {"scan"}) /\ ss \in scan.left
    /\ LET better == active[ss] = 0 /\ (scan.victim = None \/ Before(ss, scan.victim)) IN
         scan' = [scan EXCEPT !.left = @ \ {ss}, !.victim = IF better THEN ss ELSE @]
    /\ UNCHANGED <<slots, made, live, mu, usage, req>>

\* Evict the victim and store the session, or refuse it if there is none.
PutEnd(p) ==
    /\ At(p, {"scan"}) /\ scan.left = {}
    /\ IF scan.full /\ scan.victim = None
       THEN /\ live' = live
            /\ order' = Without({req[p].ss})
       ELSE /\ live' = (live \ {scan.victim}) \union {req[p].ss}
            /\ order' = Without({scan.victim})
    /\ mu' = None /\ scan' = NoScan
    /\ Goes(p, "release")
    /\ UNCHANGED <<slots, made, stale, active, hwFailed>>

-----------------------------------------------------------------------------
(* OpenSegment, the stream it hands out, and Close.                        *)

BeginUse(p) ==
    /\ At(p, {"acquired"})
    /\ active' = [active EXCEPT ![req[p].ss] = @ + 1]
    /\ Used(req[p].ss)
    /\ Goes(p, "plan")
    /\ UNCHANGED <<slots, store, hwFailed>>

\* planSegment looks keyframes up, unless it is transcoding or has them.
StartLookup(p) == Child(p, {"plan"}, "looking")
EndLookup(p)   == Reaped(p, {"looking"}, "choose") \/ Reaped(p, {"looking"}, "end")
SkipLookup(p)  == Moves(p, {"plan"}, "choose") \/ Moves(p, {"plan"}, "end")

ChooseHW(p) ==
    /\ At(p, {"choose"})
    /\ req' = [req EXCEPT ![p].at = "start", ![p].hw = HW /\ req[p].ss \notin hwFailed]
    /\ UNCHANGED <<slots, store, usage>>

StartSegment(p) == Child(p, {"start"}, "starting")
FirstBytes(p)   == Moves(p, {"starting"}, "streaming")

\* Mutant: the retry asks for the hardware again.
StartFailsRetryingHW(p) ==
    /\ At(p, {"start", "starting"})
    /\ running' = IF At(p, {"starting"}) THEN running - 1 ELSE running
    /\ \/ /\ req[p].hw
          /\ hwFailed' = hwFailed \union {req[p].ss}
          /\ req' = [req EXCEPT ![p].at = "start"]
       \/ Goes(p, "end") /\ UNCHANGED hwFailed
    /\ UNCHANGED <<sem, store, order, stale, active>>

\* The input cannot be opened, or the child dies before its first byte; a
\* child that dies is reaped.  A hardware attempt is repeated once in
\* software, unless the request's context is over.
StartFails(p) ==
    /\ At(p, {"start", "starting"})
    /\ running' = IF At(p, {"starting"}) THEN running - 1 ELSE running
    /\ \/ /\ req[p].hw
          /\ hwFailed' = hwFailed \union {req[p].ss}
          /\ req' = [req EXCEPT ![p].at = "start", ![p].hw = FALSE]
       \/ Goes(p, "end") /\ UNCHANGED hwFailed
    /\ UNCHANGED <<sem, store, order, stale, active>>

\* Read meets the end of the output, or Close kills the child; both reap it
\* before done() runs.
ChildEnds(p)   == Reaped(p, {"streaming"}, "drained")
CloseStream(p) == Reaped(p, {"streaming"}, "end") \/ Moves(p, {"drained"}, "end")

EndUse(p) ==
    /\ At(p, {"end"})
    /\ active' = [active EXCEPT ![req[p].ss] = @ - 1]
    /\ Used(req[p].ss)
    /\ Goes(p, "release")
    /\ UNCHANGED <<slots, store, hwFailed>>

-----------------------------------------------------------------------------
Progress(p) ==
    \/ Touch(p) \/ Acquire(p) \/ Wait(p) \/ GiveUp(p) \/ Release(p)
    \/ OpenFails(p) \/ StartProbe(p) \/ EndProbe(p)
    \/ StartSampling(p) \/ EndSampling(p) \/ SkipSampling(p)
    \/ \E ss \in Sessions : Stamp(p, ss) \/ Examine(p, ss)
    \/ StampFails(p)
    \/ PutLock(p) \/ PutEnd(p)
    \/ BeginUse(p) \/ StartLookup(p) \/ EndLookup(p) \/ SkipLookup(p) \/ ChooseHW(p)
    \/ StartSegment(p) \/ StartFails(p) \/ FirstBytes(p) \/ ChildEnds(p)
    \/ CloseStream(p) \/ EndUse(p)

Arrive(p) ==
    \/ Ask(p, "probe")
    \/ made # Sessions /\ Ask(p, "create")
    \/ \E ss \in Sessions : Get(p, "playlist", ss) \/ Get(p, "segment", ss)

Next ==
    \/ \E p \in Players : Progress(p) \/ Arrive(p)
    \/ \E ss \in Sessions : CloseSession(ss) \/ Age(ss)
    \/ Sweep

Spec == Init /\ [][Next]_vars

\* A request's goroutine keeps running.  Its children end: a deadline kills
\* them if need be (probeTimeout, keyframeLookupTimeout, SegmentTimeout).  Its
\* client reads the stream or leaves: no deadline of the server forces that.
FairSpec == Spec /\ \A p \in Players : WF_vars(Progress(p))

-----------------------------------------------------------------------------
(* Properties.                                                             *)

\* Every variable has its type; the last uses order the sessions of the store
\* totally, and the store is locked exactly by a request that scans it.
TypeOK ==
    /\ sem \in 0..MaxProcs /\ running \in 0..MaxProcs
    /\ live \subseteq made /\ made \subseteq Sessions /\ stale \subseteq made
    /\ order \subseteq Known \X Known /\ live \subseteq Known
    /\ \A a, b \in Known : /\ Before(a, b) \/ Before(b, a) \/ a = b
                           /\ ~(Before(a, b) /\ Before(b, a))
    /\ \A a, b, c \in Known : Before(a, b) /\ Before(b, c) => Before(a, c)
    /\ active \in [Sessions -> 0..MaxProcs] /\ hwFailed \subseteq made
    /\ mu \in Players \union {None}
    /\ \A p \in Players : mu = p <=> At(p, {"scan"})
    /\ scan \in [full : BOOLEAN, left : SUBSET live, victim : live \union {None}]
    /\ req \in [Players -> Request]

\* On every path through a request, early errors, retries and give-ups
\* included, each slot taken is given back once, each child is counted until
\* it is reaped, and each producer keeps its session busy from begin to end;
\* so never more than MaxProcs children are alive, and none of a request that
\* has given its slot back.  (done() and fail() in OpenSegment, the deferred
\* release of Probe and CreateSession.)
CountersMatchRequests ==
    /\ sem = Cardinality({p \in Players : At(p, Holding)})
    /\ running = Cardinality({p \in Players : At(p, Childed)})
    /\ \A ss \in Sessions :
         active[ss] = Cardinality({p \in Players : req[p].ss = ss /\ At(p, Producing)})

\* Never more than MaxSessions sessions, though put evicts only one and
\* several requests create sessions at a time.
SessionsWithinLimit == Cardinality(live) <= MaxSessions

\* The TTL sweep never drops a session under a request that has touched it and
\* is still being served: a client that reads slowly keeps its session.
SweepSparesRequests ==
    [][Sweep => \A ss \in live \ live', p \in Players :
                   ~(req[p].ss = ss /\ At(p, Served))]_vars

\* "the caller is told the server is busy rather than an active player being
\* killed": put evicts no session a request is being served on.
NoPlayerLosesItsSession ==
    [][(\E p \in Players : PutEnd(p)) =>
         \A ss \in live \ live', p \in Players : ~(req[p].ss = ss /\ At(p, Served))]_vars

\* The slots are those of SlotPool: a request gets one only while fewer than
\* MaxProcs have one, and who gave up waiting has none to give back.
Slots == INSTANCE SlotPool WITH
    Clients <- Players, Capacity <- MaxProcs,
    holders <- {p \in Players : At(p, Holding)}
SlotsAreAPool == Slots!Spec

\* Every request is answered, with what it asked for or with "server busy",
\* and so every slot comes back.
RequestsAreAnswered == \A p \in Players : ~At(p, {"idle"}) ~> At(p, {"idle"})
=============================================================================
