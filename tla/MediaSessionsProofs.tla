------------------------- MODULE MediaSessionsProofs -------------------------
(***************************************************************************)
(* Proofs about MediaSessions, for any number of requests and sessions and *)
(* for every limit.                                                        *)
(***************************************************************************)
EXTENDS MediaSessions, FiniteSetTheorems, TLAPS

-----------------------------------------------------------------------------
(* Counting requests.                                                      *)

Steps == {"idle", "touch", "acquire", "waiting"} \union Holding

\* The requests that are in R.
Of(R) == {p \in Players : req[p] \in R}

Weight(b) == IF b THEN 1 ELSE 0

LEMMA OfIsFinite ==
    ASSUME NEW R
    PROVE  IsFiniteSet(Of(R)) /\ Cardinality(Of(R)) \in Nat
<1>1. IsFiniteSet(Of(R))
  BY BoundAssumption, FS_Subset DEF Of
<1> QED BY <1>1, FS_CardinalityType

\* One request moves: it leaves a set, enters it, or neither.
LEMMA Recount ==
    ASSUME NEW R, NEW p \in Players, NEW r,
           req \in [Players -> Request], req' = [req EXCEPT ![p] = r]
    PROVE  Cardinality(Of(R)') =
             Cardinality(Of(R)) + Weight(r \in R) - Weight(req[p] \in R)
<1>1. IsFiniteSet(Of(R)) /\ Cardinality(Of(R)) \in Nat
  BY OfIsFinite
<1>2. CASE r \in R /\ req[p] \notin R
  <2>1. Of(R)' = Of(R) \union {p} /\ p \notin Of(R)
    BY <1>2 DEF Of
  <2>2. Cardinality(Of(R) \union {p}) = Cardinality(Of(R)) + 1
    BY <1>1, <2>1, FS_AddElement
  <2> QED BY <1>1, <1>2, <2>1, <2>2 DEF Weight
<1>3. CASE r \notin R /\ req[p] \in R
  <2>1. Of(R)' = Of(R) \ {p} /\ p \in Of(R)
    BY <1>3 DEF Of
  <2>2. Cardinality(Of(R)') = Cardinality(Of(R)) - 1
    BY <1>1, <2>1, FS_RemoveElement
  <2> QED BY <1>1, <1>3, <2>2 DEF Weight
<1>4. CASE r \in R <=> req[p] \in R
  <2>1. Of(R)' = Of(R)
    BY <1>4 DEF Of
  <2> QED BY <1>1, <1>4, <2>1 DEF Weight
<1> QED BY <1>2, <1>3, <1>4

\* The record of a request whose goroutine goes on.
LEMMA GoesTo ==
    ASSUME req \in [Players -> Request], NEW p \in Players, NEW step \in Steps,
           Goes(p, step)
    PROVE  /\ req' = [req EXCEPT ![p] = [req[p] EXCEPT !.at = step]]
           /\ [req[p] EXCEPT !.at = step] \in Request
BY DEF Goes, Request, Steps

-----------------------------------------------------------------------------
(* The ledgers.                                                            *)

Holders       == {r \in Request : r.at \in Holding}
Parents       == {r \in Request : r.at \in Childed}
Producers(ss) == {r \in Request : r.ss = ss /\ r.at \in Producing}

\* A request for a segment, and no other, ever produces, and it has a session.
WellFormed ==
    {r \in Request :
       /\ r.op \in {"segment", "playlist"} => r.ss \in Sessions
       /\ r.at \in Producing \union {"acquired"} => r.op = "segment"
       /\ r.at \in {"put", "scan"} => r.ss \in Sessions}

LedgerInv ==
    /\ req \in [Players -> WellFormed]
    /\ live \subseteq Sessions
    /\ active \in [Sessions -> Int]
    /\ sem = Cardinality(Of(Holders))
    /\ running = Cardinality(Of(Parents))
    /\ \A ss \in Sessions : active[ss] = Cardinality(Of(Producers(ss)))
    /\ sem <= MaxProcs

\* A step of one request keeps each ledger level with what the request does.
Balanced(p, r) ==
    /\ r \in WellFormed
    /\ req' = [req EXCEPT ![p] = r]
    /\ sem' = sem + Weight(r \in Holders) - Weight(req[p] \in Holders)
    /\ running' = running + Weight(r \in Parents) - Weight(req[p] \in Parents)
    /\ active' \in [Sessions -> Int]
    /\ \A ss \in Sessions :
         active'[ss] = active[ss] + Weight(r \in Producers(ss))
                                  - Weight(req[p] \in Producers(ss))
    /\ r \in Holders /\ req[p] \notin Holders => sem < MaxProcs

LEMMA BalancedKeeps ==
    ASSUME LedgerInv, NEW p \in Players, NEW r, Balanced(p, r),
           live' \subseteq Sessions
    PROVE  LedgerInv'
<1>1. /\ req \in [Players -> Request] /\ req' \in [Players -> WellFormed]
      /\ req' = [req EXCEPT ![p] = r]
  BY DEF LedgerInv, Balanced, WellFormed
<1>2. sem' = Cardinality(Of(Holders)')
  BY <1>1, Recount DEF LedgerInv, Balanced
<1>3. running' = Cardinality(Of(Parents)')
  BY <1>1, Recount DEF LedgerInv, Balanced
<1>4. ASSUME NEW ss \in Sessions
      PROVE  active'[ss] = Cardinality(Of(Producers(ss))')
  <2> DEFINE R == Producers(ss)
  <2>1. Cardinality(Of(R)') =
          Cardinality(Of(R)) + Weight(r \in R) - Weight(req[p] \in R)
    <3> HIDE DEF R
    <3> QED BY <1>1, Recount
  <2>2. active[ss] = Cardinality(Of(R))
    BY DEF LedgerInv
  <2>3. active'[ss] = active[ss] + Weight(r \in R) - Weight(req[p] \in R)
    BY DEF Balanced
  <2> QED BY <2>1, <2>2, <2>3
<1>5. sem' <= MaxProcs
  <2>1. sem \in Nat /\ sem <= MaxProcs /\ MaxProcs \in Nat
    BY OfIsFinite, BoundAssumption DEF LedgerInv
  <2> QED BY <2>1 DEF Balanced, Weight
<1> QED BY <1>1, <1>2, <1>3, <1>4, <1>5 DEF LedgerInv, Balanced

\* Nothing is counted of requests that stay where they are.
LEMMA LedgersFrame ==
    ASSUME LedgerInv, live' \subseteq Sessions,
           UNCHANGED <<req, active, sem, running>>
    PROVE  LedgerInv'
BY DEF LedgerInv, Of

-----------------------------------------------------------------------------
(* The steps of a request, each with its balance.                          *)

\* A step that only moves on, of a request that produces or does not before
\* and after, and whose slot and child stay as they are.
LEMMA MovesBalance ==
    ASSUME LedgerInv, NEW p \in Players, NEW step \in Steps,
           Goes(p, step), UNCHANGED <<sem, running, active>>,
           step \in Holding <=> req[p].at \in Holding,
           step \in Childed <=> req[p].at \in Childed,
           step \in Producing <=> req[p].at \in Producing,
           step # "acquired", step # "put",
           step = "scan" => req[p].at = "put"
    PROVE  \E r : Balanced(p, r)
<1> DEFINE r == [req[p] EXCEPT !.at = step]
<1>1. req \in [Players -> Request] /\ req[p] \in WellFormed
  BY DEF LedgerInv, WellFormed
<1>2. req' = [req EXCEPT ![p] = r] /\ r \in Request
  BY <1>1, GoesTo
<1>3. r.at = step /\ r.op = req[p].op /\ r.ss = req[p].ss
  BY <1>1 DEF Request
<1>4. r \in WellFormed
  BY <1>1, <1>2, <1>3 DEF WellFormed
<1>5. /\ r \in Holders <=> req[p] \in Holders
      /\ r \in Parents <=> req[p] \in Parents
      /\ \A ss \in Sessions : r \in Producers(ss) <=> req[p] \in Producers(ss)
  BY <1>1, <1>2, <1>3 DEF WellFormed, Holders, Parents, Producers
<1>6. /\ sem \in Nat /\ running \in Nat /\ active \in [Sessions -> Int]
  BY OfIsFinite DEF LedgerInv
<1>7. Balanced(p, r)
  BY <1>2, <1>4, <1>5, <1>6 DEF Balanced, Weight
<1> QED BY <1>7

\* A child is started or reaped.
LEMMA ChildBalance ==
    ASSUME LedgerInv, NEW p \in Players, NEW step \in Steps,
           Goes(p, step), UNCHANGED <<sem, active>>,
           step \in Holding /\ req[p].at \in Holding,
           step \in Producing <=> req[p].at \in Producing,
           running' = running + Weight(step \in Childed)
                              - Weight(req[p].at \in Childed),
           step \notin {"acquired", "put", "scan"}
    PROVE  \E r : Balanced(p, r)
<1> DEFINE r == [req[p] EXCEPT !.at = step]
<1>1. req \in [Players -> Request] /\ req[p] \in WellFormed
  BY DEF LedgerInv, WellFormed
<1>2. req' = [req EXCEPT ![p] = r] /\ r \in Request
  BY <1>1, GoesTo
<1>3. r.at = step /\ r.op = req[p].op /\ r.ss = req[p].ss
  BY <1>1 DEF Request
<1>4. r \in WellFormed
  BY <1>1, <1>2, <1>3 DEF WellFormed
<1>5. /\ r \in Holders <=> req[p] \in Holders
      /\ r \in Parents <=> step \in Childed
      /\ req[p] \in Parents <=> req[p].at \in Childed
      /\ \A ss \in Sessions : r \in Producers(ss) <=> req[p] \in Producers(ss)
  BY <1>1, <1>2, <1>3 DEF WellFormed, Holders, Parents, Producers
<1>6. /\ sem \in Nat /\ running \in Nat /\ active \in [Sessions -> Int]
  BY OfIsFinite DEF LedgerInv
<1>7. Balanced(p, r)
  BY <1>2, <1>4, <1>5, <1>6 DEF Balanced, Weight
<1> QED BY <1>7

\* Steps that neither take nor leave a slot, a child or a session.
PlainStep(p) ==
    \/ Touch(p) \/ Wait(p) \/ OpenFails(p) \/ SkipSampling(p) \/ StampFails(p)
    \/ PutLock(p) \/ PutEnd(p) \/ SkipLookup(p) \/ FirstBytes(p)
    \/ At(p, {"drained"}) /\ CloseStream(p)

LEMMA PlainSteps ==
    ASSUME LedgerInv, NEW p \in Players, PlainStep(p)
    PROVE  \E r : Balanced(p, r)
<1>1. ASSUME NEW from \in Steps, NEW step \in Steps,
             req[p].at = from, Goes(p, step), UNCHANGED <<sem, running, active>>,
             step \in Holding <=> from \in Holding,
             step \in Childed <=> from \in Childed,
             step \in Producing <=> from \in Producing,
             step # "acquired", step # "put", step = "scan" => from = "put"
      PROVE  \E r : Balanced(p, r)
  BY <1>1, MovesBalance
<1> USE <1>1 DEF At, Moves, Steps, Holding, Childed, Producing, slots, usage
<1>2. CASE Touch(p)
  BY <1>2 DEF Touch
<1>3. CASE Wait(p)
  BY <1>3 DEF Wait
<1>4. CASE OpenFails(p) \/ SkipSampling(p) \/ StampFails(p)
  BY <1>4 DEF OpenFails, SkipSampling, StampFails
<1>5. CASE PutLock(p)
  BY <1>5 DEF PutLock
<1>6. CASE PutEnd(p)
  BY <1>6 DEF PutEnd
<1>7. CASE SkipLookup(p) \/ FirstBytes(p)
  BY <1>7 DEF SkipLookup, FirstBytes
<1>8. CASE At(p, {"drained"}) /\ CloseStream(p)
  BY <1>8 DEF CloseStream, Reaped
<1> QED BY <1>2, <1>3, <1>4, <1>5, <1>6, <1>7, <1>8 DEF PlainStep

\* Steps that start a child or reap one.
LEMMA ChildSteps ==
    ASSUME LedgerInv, NEW p \in Players,
           \/ StartProbe(p) \/ EndProbe(p) \/ StartSampling(p) \/ EndSampling(p)
           \/ StartLookup(p) \/ EndLookup(p) \/ StartSegment(p) \/ ChildEnds(p)
           \/ At(p, {"streaming"}) /\ CloseStream(p)
    PROVE  \E r : Balanced(p, r)
<1>0. running \in Nat
  BY OfIsFinite DEF LedgerInv
<1>1. ASSUME NEW from \in Steps, NEW step \in Steps,
             req[p].at = from, Goes(p, step), UNCHANGED <<sem, active>>,
             step \in Holding, from \in Holding,
             step \in Producing <=> from \in Producing,
             step \notin {"acquired", "put", "scan"},
             \/ running' = running + 1 /\ step \in Childed /\ from \notin Childed
             \/ running' = running - 1 /\ step \notin Childed /\ from \in Childed
      PROVE  \E r : Balanced(p, r)
  <2>1. running' = running + Weight(step \in Childed) - Weight(from \in Childed)
    BY <1>0, <1>1 DEF Weight
  <2> QED BY <1>1, <2>1, ChildBalance
<1> USE <1>1 DEF At, Child, Reaped, Steps, Holding, Childed, Producing, usage
<1>2. CASE StartProbe(p) \/ EndProbe(p)
  BY <1>2 DEF StartProbe, EndProbe
<1>3. CASE StartSampling(p) \/ EndSampling(p)
  BY <1>3 DEF StartSampling, EndSampling
<1>4. CASE StartLookup(p) \/ EndLookup(p)
  BY <1>4 DEF StartLookup, EndLookup
<1>5. CASE StartSegment(p) \/ ChildEnds(p)
  BY <1>5 DEF StartSegment, ChildEnds
<1>6. CASE At(p, {"streaming"}) /\ CloseStream(p)
  BY <1>6 DEF CloseStream, Moves
<1> QED BY <1>2, <1>3, <1>4, <1>5, <1>6

\* A request that is asked, gives up or ends has nothing to be counted.
LEMMA IdleUncounted ==
    ASSUME NEW r \in Request, r.at \in {"idle", "touch", "acquire"},
           r.op \in {"segment", "playlist"} => r.ss \in Sessions
    PROVE  /\ r \in WellFormed /\ r \notin Holders /\ r \notin Parents
           /\ \A x \in Sessions : r \notin Producers(x)
BY DEF WellFormed, Holders, Parents, Producers, Holding, Childed, Producing

LEMMA IdleBalance ==
    ASSUME LedgerInv, NEW p \in Players, NEW r,
           r \in WellFormed, r \notin Holders, r \notin Parents,
           \A x \in Sessions : r \notin Producers(x),
           req' = [req EXCEPT ![p] = r],
           req[p].at \in {"idle", "waiting", "release"},
           sem' = sem - Weight(req[p].at = "release"),
           UNCHANGED <<running, active>>
    PROVE  Balanced(p, r)
<1>1. req[p] \in WellFormed /\ req[p] \in Request
  BY DEF LedgerInv, WellFormed
<1>2. /\ req[p] \in Holders <=> req[p].at = "release"
      /\ req[p] \notin Parents
      /\ \A x \in Sessions : req[p] \notin Producers(x)
  BY <1>1 DEF Holders, Parents, Producers, Holding, Childed, Producing
<1>3. /\ sem \in Nat /\ running \in Nat /\ active \in [Sessions -> Int]
  BY OfIsFinite DEF LedgerInv
<1> QED BY <1>2, <1>3 DEF Balanced, Weight

\* What arrives: a request that has found its session, or waits for a slot.
LEMMA Arrivals ==
    ASSUME LedgerInv, NEW p \in Players, Arrive(p)
    PROVE  \E r \in Request :
             /\ req' = [req EXCEPT ![p] = r] /\ r.at \in {"touch", "acquire"}
             /\ r.op \in {"segment", "playlist"} => r.ss \in Sessions
             /\ r.at = "acquire" => r.ss = None
             /\ r.ss \in live \union {None}
             /\ req[p].at = "idle"
             /\ UNCHANGED <<sem, running, active, live, mu, scan, stale>>
<1>0. Idle \in Request /\ Idle.ss = None /\ live \subseteq Sessions
  BY DEF Idle, Request, LedgerInv
<1>1. CASE \E o \in {"probe", "create"} : Ask(p, o)
  <2>1. PICK o \in {"probe", "create"} : Ask(p, o)
    BY <1>1
  <2> DEFINE r == [Idle EXCEPT !.at = "acquire", !.op = o]
  <2>2. r \in Request /\ r.at = "acquire" /\ r.op = o /\ r.ss = None
    BY <1>0 DEF Request
  <2> QED BY <2>1, <2>2 DEF Ask, At, slots, store, usage
<1>2. CASE \E ss \in Sessions : Get(p, "playlist", ss) \/ Get(p, "segment", ss)
  <2>1. PICK o \in {"playlist", "segment"}, ss \in Sessions : Get(p, o, ss)
    BY <1>2
  <2> DEFINE r == [Idle EXCEPT !.at = "touch", !.op = o, !.ss = ss]
  <2>2. r \in Request /\ r.at = "touch" /\ r.op = o /\ r.ss = ss
    BY <1>0 DEF Request
  <2> QED BY <2>1, <2>2 DEF Get, At, slots, store, usage
<1> QED BY <1>1, <1>2 DEF Arrive

LEMMA EdgeSteps ==
    ASSUME LedgerInv, NEW p \in Players,
           GiveUp(p) \/ Release(p) \/ Arrive(p)
    PROVE  \E r : Balanced(p, r)
<1>0. req \in [Players -> Request] /\ live \subseteq Sessions /\ sem \in Nat
  BY OfIsFinite DEF LedgerInv, WellFormed
<1>1. CASE GiveUp(p) \/ Release(p)
  <2>1. Idle \in Request /\ Idle.at = "idle" /\ Idle.op = "probe"
    BY DEF Idle, Request
  <2>2. /\ Idle \in WellFormed /\ Idle \notin Holders /\ Idle \notin Parents
        /\ \A x \in Sessions : Idle \notin Producers(x)
    BY <2>1, IdleUncounted
  <2>3. /\ req' = [req EXCEPT ![p] = Idle]
        /\ req[p].at \in {"waiting", "release"}
        /\ sem' = sem - Weight(req[p].at = "release")
        /\ UNCHANGED <<running, active>>
    BY <1>0, <1>1 DEF GiveUp, Release, At, slots, usage, Weight
  <2> QED BY <2>2, <2>3, IdleBalance
<1>2. CASE Arrive(p)
  <2>1. PICK r \in Request :
          /\ req' = [req EXCEPT ![p] = r] /\ r.at \in {"touch", "acquire"}
          /\ r.op \in {"segment", "playlist"} => r.ss \in Sessions
          /\ req[p].at = "idle" /\ UNCHANGED <<sem, running, active>>
    BY <1>2, Arrivals
  <2>2. /\ r \in WellFormed /\ r \notin Holders /\ r \notin Parents
        /\ \A x \in Sessions : r \notin Producers(x)
    BY <2>1, IdleUncounted
  <2>3. sem' = sem - Weight(req[p].at = "release")
    BY <1>0, <2>1 DEF Weight
  <2> QED BY <2>1, <2>2, <2>3, IdleBalance
<1> QED BY <1>1, <1>2

\* A slot is taken.
LEMMA AcquireStep ==
    ASSUME LedgerInv, NEW p \in Players, Acquire(p)
    PROVE  \E r : Balanced(p, r)
<1> DEFINE step == IF req[p].op = "segment" THEN "acquired" ELSE "open"
           r == [req[p] EXCEPT !.at = step]
<1>1. /\ req \in [Players -> Request] /\ req[p] \in WellFormed /\ step \in Steps
  BY DEF LedgerInv, WellFormed, Steps, Holding
<1>2. req' = [req EXCEPT ![p] = r] /\ r \in Request
  <2> HIDE DEF step
  <2>1. Goes(p, step)
    BY DEF Acquire, step
  <2> QED BY <1>1, <2>1, GoesTo
<1>3. /\ r.at = step /\ r.op = req[p].op /\ r.ss = req[p].ss
      /\ step \in {"acquired", "open"} /\ req[p].at \in {"acquire", "waiting"}
      /\ step = "acquired" => r.op = "segment"
  BY <1>1 DEF Request, Acquire, At
<1> HIDE DEF r, step
<1>4. r \in WellFormed
  BY <1>1, <1>2, <1>3 DEF WellFormed, Producing
<1>5. /\ r \in Holders /\ req[p] \notin Holders
      /\ r \notin Parents /\ req[p] \notin Parents
      /\ \A ss \in Sessions : r \notin Producers(ss) /\ req[p] \notin Producers(ss)
  BY <1>1, <1>2, <1>3 DEF WellFormed, Holders, Parents, Producers, Holding,
     Childed, Producing
<1>6. /\ sem \in Nat /\ running \in Nat /\ active \in [Sessions -> Int]
      /\ sem < MaxProcs /\ sem' = sem + 1 /\ UNCHANGED <<running, active>>
  BY OfIsFinite DEF LedgerInv, Acquire, usage
<1>7. Balanced(p, r)
  BY <1>2, <1>4, <1>5, <1>6 DEF Balanced, Weight
<1> QED BY <1>7

\* A new session is stamped; the encoder is chosen.
LEMMA NoteSteps ==
    ASSUME LedgerInv, NEW p \in Players,
           ChooseHW(p) \/ \E ss \in Sessions : Stamp(p, ss)
    PROVE  \E r : Balanced(p, r)
<1>1. req[p] \in WellFormed /\ req[p] \in Request
  BY DEF LedgerInv, WellFormed
<1>2. /\ sem \in Nat /\ running \in Nat /\ active \in [Sessions -> Int]
  BY OfIsFinite DEF LedgerInv
<1>3. PICK r :
        /\ r \in WellFormed /\ req' = [req EXCEPT ![p] = r]
        /\ r \in Holders /\ req[p] \in Holders
        /\ r \notin Parents /\ req[p] \notin Parents
        /\ \A ss \in Sessions : r \in Producers(ss) <=> req[p] \in Producers(ss)
        /\ UNCHANGED <<sem, running, active>>
  <2>1. CASE ChooseHW(p)
    <3> DEFINE r == [req[p] EXCEPT !.at = "start",
                                   !.hw = HW /\ req[p].ss \notin hwFailed]
    <3>1. /\ req[p].at = "choose" /\ req' = [req EXCEPT ![p] = r]
          /\ UNCHANGED <<sem, running, active>>
      BY <1>1, <2>1 DEF ChooseHW, At, slots, usage, LedgerInv
    <3>2. r \in Request /\ r.at = "start" /\ r.op = req[p].op /\ r.ss = req[p].ss
      BY <1>1, BoundAssumption DEF Request, Holding
    <3> QED BY <1>1, <3>1, <3>2 DEF WellFormed, Holders, Parents, Producers,
            Holding, Childed, Producing
  <2>2. CASE \E ss \in Sessions : Stamp(p, ss)
    <3>1. PICK ss \in Sessions : Stamp(p, ss)
      BY <2>2
    <3> DEFINE r == [req[p] EXCEPT !.at = "put", !.ss = ss]
    <3>2. /\ req[p].at = "stamp" /\ req' = [req EXCEPT ![p] = r]
          /\ UNCHANGED <<sem, running, active>>
      BY <1>1, <3>1 DEF Stamp, At, slots, LedgerInv
    <3>3. r \in Request /\ r.at = "put" /\ r.op = req[p].op /\ r.ss = ss
      BY <1>1 DEF Request, Holding
    <3> QED BY <1>1, <3>2, <3>3 DEF WellFormed, Holders, Parents, Producers,
            Holding, Childed, Producing
  <2> QED BY <2>1, <2>2
<1>4. Balanced(p, r)
  BY <1>2, <1>3 DEF Balanced, Weight
<1> QED BY <1>4

\* The child of a segment fails, and may be tried once more in software.
LEMMA StartFailsStep ==
    ASSUME LedgerInv, NEW p \in Players, StartFails(p)
    PROVE  \E r : Balanced(p, r)
<1>1. req[p] \in WellFormed /\ req[p] \in Request
  BY DEF LedgerInv, WellFormed
<1>2. /\ sem \in Nat /\ running \in Nat /\ active \in [Sessions -> Int]
  BY OfIsFinite DEF LedgerInv
<1>3. PICK r \in {[req[p] EXCEPT !.at = "start", !.hw = FALSE],
                  [req[p] EXCEPT !.at = "end"]} :
        req' = [req EXCEPT ![p] = r]
  BY <1>1 DEF StartFails, Goes, LedgerInv
<1>4. /\ r \in Request /\ r.at \in {"start", "end"}
      /\ r.op = req[p].op /\ r.ss = req[p].ss
  BY <1>1, <1>3 DEF Request, Holding
<1>5. req[p].at \in {"start", "starting"} /\ UNCHANGED <<sem, active>>
  BY DEF StartFails, At
<1>6. running' = running - Weight(req[p].at = "starting")
  BY <1>2, <1>5 DEF StartFails, At, Weight
<1>7. /\ r \in WellFormed /\ r \in Holders /\ req[p] \in Holders
      /\ r \notin Parents
      /\ req[p] \in Parents <=> req[p].at = "starting"
      /\ \A ss \in Sessions : r \in Producers(ss) <=> req[p] \in Producers(ss)
  BY <1>1, <1>4, <1>5 DEF WellFormed, Holders, Parents, Producers, Holding,
     Childed, Producing
<1>8. Balanced(p, r)
  BY <1>2, <1>3, <1>5, <1>6, <1>7 DEF Balanced, Weight
<1> QED BY <1>8

\* A producer begins or ends to use its session.
LEMMA UseSteps ==
    ASSUME LedgerInv, NEW p \in Players, BeginUse(p) \/ EndUse(p)
    PROVE  \E r : Balanced(p, r)
<1> DEFINE begins == req[p].at = "acquired"
           step   == IF begins THEN "plan" ELSE "release"
           r      == [req[p] EXCEPT !.at = step]
<1>1. /\ req[p] \in WellFormed /\ req[p] \in Request
      /\ req \in [Players -> Request]
  BY DEF LedgerInv, WellFormed
<1>2. /\ sem \in Nat /\ running \in Nat /\ active \in [Sessions -> Int]
  BY OfIsFinite DEF LedgerInv
<1>3. /\ req[p].at \in {"acquired", "end"} /\ Goes(p, step)
      /\ UNCHANGED <<sem, running>>
      /\ active' = [active EXCEPT ![req[p].ss] =
                      IF begins THEN @ + 1 ELSE @ - 1]
  BY DEF BeginUse, EndUse, At, slots
<1>4. req[p].ss \in Sessions
  BY <1>1, <1>3 DEF WellFormed, Producing
<1>5. req' = [req EXCEPT ![p] = r] /\ r \in Request
  <2>1. step \in Steps
    BY DEF Steps, Holding
  <2> QED BY <1>1, <1>3, <2>1, GoesTo
<1>6. /\ r.at = step /\ r.op = req[p].op /\ r.ss = req[p].ss
      /\ step = IF begins THEN "plan" ELSE "release"
      /\ req[p].at = IF begins THEN "acquired" ELSE "end"
      /\ req[p].op = "segment"
  BY <1>1, <1>3 DEF Request, WellFormed, Producing
<1> HIDE DEF r, step, begins
<1>7. /\ r \in WellFormed /\ r \in Holders /\ req[p] \in Holders
      /\ r \notin Parents /\ req[p] \notin Parents
  BY <1>1, <1>3, <1>5, <1>6 DEF WellFormed, Holders, Parents, Holding, Childed,
     Producing
<1>8. ASSUME NEW ss \in Sessions
      PROVE  active'[ss] = active[ss] + Weight(r \in Producers(ss))
                                      - Weight(req[p] \in Producers(ss))
  <2>1. /\ r \in Producers(ss) <=> begins /\ req[p].ss = ss
        /\ req[p] \in Producers(ss) <=> ~begins /\ req[p].ss = ss
    BY <1>1, <1>3, <1>5, <1>6 DEF Producers, Producing
  <2>2. active[ss] \in Int
    BY <1>2
  <2> QED BY <1>2, <1>3, <1>4, <2>1, <2>2 DEF Weight
<1>9. active' \in [Sessions -> Int]
  BY <1>2, <1>3, <1>4
<1>10. Balanced(p, r)
  BY <1>2, <1>3, <1>5, <1>7, <1>8, <1>9 DEF Balanced, Weight
<1> QED BY <1>10

-----------------------------------------------------------------------------
(* The ledgers hold.                                                       *)

\* What a step of a request is to the ledgers.
LEMMA ProgressBalances ==
    ASSUME LedgerInv, NEW p \in Players, Progress(p) \/ Arrive(p)
    PROVE  \/ \E r : Balanced(p, r)
           \/ UNCHANGED <<req, active, sem, running>>
<1>1. CASE \E ss \in Sessions : Examine(p, ss)
  BY <1>1 DEF Examine, slots, usage
<1>2. CASE CloseStream(p)
  <2>1. CASE At(p, {"streaming"})
    BY <1>2, <2>1, ChildSteps
  <2>2. CASE At(p, {"drained"})
    BY <1>2, <2>2, PlainSteps DEF PlainStep
  <2> QED BY <1>2, <2>1, <2>2 DEF CloseStream, Reaped, Moves
<1>3. CASE PlainStep(p)
  BY <1>3, PlainSteps
<1>4. CASE \/ StartProbe(p) \/ EndProbe(p) \/ StartSampling(p) \/ EndSampling(p)
           \/ StartLookup(p) \/ EndLookup(p) \/ StartSegment(p) \/ ChildEnds(p)
  BY <1>4, ChildSteps
<1>5. CASE GiveUp(p) \/ Release(p) \/ Arrive(p)
  BY <1>5, EdgeSteps
<1>6. CASE Acquire(p)
  BY <1>6, AcquireStep
<1>7. CASE ChooseHW(p) \/ \E ss \in Sessions : Stamp(p, ss)
  BY <1>7, NoteSteps
<1>8. CASE StartFails(p)
  BY <1>8, StartFailsStep
<1>9. CASE BeginUse(p) \/ EndUse(p)
  BY <1>9, UseSteps
<1> QED BY <1>1, <1>2, <1>3, <1>4, <1>5, <1>6, <1>7, <1>8, <1>9
        DEF Progress, PlainStep

\* Only put stores a session: the one its request has made.
LEMMA ProgressLive ==
    ASSUME LedgerInv, NEW p \in Players, Progress(p) \/ Arrive(p)
    PROVE  live' \subseteq Sessions
<1>0. live \subseteq Sessions /\ req[p] \in WellFormed
  BY DEF LedgerInv
<1>1. CASE PutEnd(p)
  <2>1. req[p].ss \in Sessions
    BY <1>0, <1>1 DEF PutEnd, At, WellFormed
  <2> QED BY <1>0, <1>1, <2>1 DEF PutEnd
<1>2. CASE ~PutEnd(p)
  BY <1>0, <1>2 DEF Progress, Arrive, Touch, Acquire, Wait, GiveUp, Release,
     OpenFails, StartProbe, EndProbe, StartSampling, EndSampling, SkipSampling,
     Stamp, Examine, StampFails, PutLock, BeginUse, StartLookup, EndLookup,
     SkipLookup, ChooseHW, StartSegment, StartFails, FirstBytes, ChildEnds,
     CloseStream, EndUse, Ask, Get, Child, Reaped, Moves, store
<1> QED BY <1>1, <1>2

\* Steps of no request.
StoreStep == Sweep \/ \E ss \in Sessions : CloseSession(ss) \/ Age(ss)

LEMMA NextSplits ==
    ASSUME [Next]_vars
    PROVE  \/ \E p \in Players : Progress(p) \/ Arrive(p)
           \/ StoreStep
           \/ UNCHANGED vars
BY DEF Next, StoreStep

LEMMA StoreFrame ==
    ASSUME StoreStep
    PROVE  /\ UNCHANGED <<req, sem, running, active, made, mu, scan>>
           /\ live' \subseteq live
           /\ mu # None => live' = live
BY DEF StoreStep, Sweep, CloseSession, Age, Forget, slots, store

LEMMA LedgerInvInit ==
    ASSUME Init
    PROVE  LedgerInv
<1>1. Idle \in Request /\ Idle.at = "idle" /\ Idle.op = "probe"
  BY DEF Idle, Request
<1>2. /\ Idle \in WellFormed /\ Idle \notin Holders /\ Idle \notin Parents
      /\ \A ss \in Sessions : Idle \notin Producers(ss)
  BY <1>1, IdleUncounted
<1>3. /\ Of(Holders) = {} /\ Of(Parents) = {}
      /\ \A ss \in Sessions : Of(Producers(ss)) = {}
  BY <1>2 DEF Init, Of
<1>4. /\ Cardinality(Of(Holders)) = 0 /\ Cardinality(Of(Parents)) = 0
      /\ \A ss \in Sessions : Cardinality(Of(Producers(ss))) = 0
  BY <1>3, FS_EmptySet
<1>5. 0 <= MaxProcs
  BY BoundAssumption
<1> QED BY <1>2, <1>4, <1>5 DEF Init, LedgerInv

LEMMA LedgerInvStep ==
    ASSUME LedgerInv, [Next]_vars
    PROVE  LedgerInv'
<1>1. ASSUME NEW p \in Players, Progress(p) \/ Arrive(p)
      PROVE  LedgerInv'
  <2>1. live' \subseteq Sessions
    BY <1>1, ProgressLive
  <2> QED BY <1>1, <2>1, ProgressBalances, BalancedKeeps, LedgersFrame
<1>2. CASE StoreStep
  <2>1. live' \subseteq Sessions
    BY <1>2, StoreFrame DEF LedgerInv
  <2> QED BY <1>2, <2>1, StoreFrame, LedgersFrame
<1>3. CASE UNCHANGED vars
  <2>1. live' \subseteq Sessions
    BY <1>3 DEF vars, LedgerInv
  <2> QED BY <1>3, <2>1, LedgersFrame DEF vars
<1> QED BY <1>1, <1>2, <1>3, NextSplits

LEMMA LedgerInvariant == Spec => []LedgerInv
<1>1. Init => LedgerInv
  BY LedgerInvInit
<1>2. LedgerInv /\ [Next]_vars => LedgerInv'
  BY LedgerInvStep
<1> QED BY <1>1, <1>2, PTL DEF Spec

\* The sets the properties count are those the ledgers count.
LEMMA SameSets ==
    ASSUME LedgerInv
    PROVE  /\ {p \in Players : At(p, Holding)} = Of(Holders)
           /\ {p \in Players : At(p, Childed)} = Of(Parents)
           /\ \A ss \in Sessions :
                {p \in Players : req[p].ss = ss /\ At(p, Producing)}
                  = Of(Producers(ss))
BY DEF LedgerInv, WellFormed, At, Of, Holders, Parents, Producers

\* On every path of any number of requests the slots, the children and the
\* producers of each session are counted right.
THEOREM CountersAreRight == Spec => []CountersMatchRequests
<1>1. LedgerInv => CountersMatchRequests
  <2> SUFFICES ASSUME LedgerInv PROVE CountersMatchRequests
    OBVIOUS
  <2>1. sem = Cardinality({p \in Players : At(p, Holding)})
    BY SameSets DEF LedgerInv
  <2>2. running = Cardinality({p \in Players : At(p, Childed)})
    BY SameSets DEF LedgerInv
  <2>3. ASSUME NEW ss \in Sessions
        PROVE  active[ss] =
                 Cardinality({p \in Players : req[p].ss = ss /\ At(p, Producing)})
    BY SameSets DEF LedgerInv
  <2> QED BY <2>1, <2>2, <2>3 DEF CountersMatchRequests
<1> QED BY <1>1, LedgerInvariant, PTL

-----------------------------------------------------------------------------
(* The slots are a pool.                                                   *)

Slotted == {p \in Players : At(p, Holding)}

\* The pool counts as we do.
LEMMA SameCardinality ==
    \A S : Slots!Cardinality(S) = Cardinality(S)
BY DEF Slots!Cardinality, Slots!IsFiniteSet, Cardinality, IsFiniteSet

LEMMA PoolStep ==
    ASSUME LedgerInv, LedgerInv', [Next]_vars
    PROVE  [Slots!Next]_Slotted
<1>1. CASE UNCHANGED req
  BY <1>1 DEF Slotted, At
<1>2. ASSUME NEW p \in Players, NEW r, Balanced(p, r)
      PROVE  [Slots!Next]_Slotted
  <2>1. /\ req' = [req EXCEPT ![p] = r] /\ req \in [Players -> WellFormed]
        /\ sem = Cardinality(Slotted)
        /\ r \in Holders /\ req[p] \notin Holders => sem < MaxProcs
    BY <1>2, SameSets DEF LedgerInv, Balanced, Slotted
  <2>2. /\ r.at \in Holding <=> r \in Holders
        /\ req[p].at \in Holding <=> req[p] \in Holders
    BY <1>2, <2>1 DEF Balanced, WellFormed, Holders
  <2>3. CASE r \in Holders /\ req[p] \notin Holders
    <3>1. p \notin Slotted /\ Slotted' = Slotted \union {p}
      BY <2>1, <2>2, <2>3 DEF Slotted, At
    <3> QED BY <2>1, <2>3, <3>1, SameCardinality
            DEF Slots!Next, Slots!Take, Slotted
  <2>4. CASE r \notin Holders /\ req[p] \in Holders
    <3>1. p \in Slotted /\ Slotted' = Slotted \ {p}
      BY <2>1, <2>2, <2>4 DEF Slotted, At
    <3> QED BY <3>1 DEF Slots!Next, Slots!Give, Slotted
  <2>5. CASE r \in Holders <=> req[p] \in Holders
    <3>1. Slotted' = Slotted
      BY <2>1, <2>2, <2>5 DEF Slotted, At
    <3> QED BY <3>1
  <2> QED BY <2>3, <2>4, <2>5
<1>3. ASSUME NEW p \in Players, Progress(p) \/ Arrive(p)
      PROVE  [Slots!Next]_Slotted
  BY <1>1, <1>2, <1>3, ProgressBalances
<1> QED BY <1>1, <1>3, NextSplits, StoreFrame DEF vars

\* The requests of the media service implement a pool of MaxProcs slots.
THEOREM SlotsImplementPool == Spec => SlotsAreAPool
<1>1. Init => Slots!Init
  BY DEF Init, Slots!Init, At, Idle, Holding
<1>2. LedgerInv /\ LedgerInv' /\ [Next]_vars => [Slots!Next]_Slotted
  BY PoolStep
<1> QED BY <1>1, <1>2, LedgerInvariant, PTL
        DEF Spec, SlotsAreAPool, Slots!Spec, Slotted

-----------------------------------------------------------------------------
(* The store and its limit.                                                *)

\* A scan looks at sessions of a store nobody changes meanwhile.
LimitInv ==
    /\ IsFiniteSet(live) /\ Cardinality(live) <= MaxSessions
    /\ None \notin live
    /\ mu \in Players \union {None}
    /\ \A p \in Players : mu = p <=> At(p, {"scan"})
    /\ scan \in [full : BOOLEAN, left : SUBSET live, victim : live \union {None}]
    /\ ~scan.full => scan.left = {} /\ scan.victim = None
    /\ mu # None /\ ~scan.full => Cardinality(live) < MaxSessions
    /\ mu = None => scan = NoScan

LEMMA LimitInvInit ==
    ASSUME Init
    PROVE  LimitInv
<1>1. IsFiniteSet(live) /\ Cardinality(live) = 0
  BY FS_EmptySet DEF Init
<1>2. \A p \in Players : mu # p /\ ~At(p, {"scan"})
  BY BoundAssumption DEF Init, At, Idle
<1>3. scan \in [full : BOOLEAN, left : SUBSET live, victim : live \union {None}]
  BY DEF Init, NoScan
<1> QED BY <1>1, <1>2, <1>3, BoundAssumption DEF Init, LimitInv, NoScan

\* A step of p that neither has to do with the scan nor with the store.
LEMMA ElsewhereKeepsLimit ==
    ASSUME LimitInv, LedgerInv, NEW p \in Players,
           req[p].at # "scan", req'[p].at # "scan",
           \E r : req' = [req EXCEPT ![p] = r],
           UNCHANGED <<live, mu, scan>>
    PROVE  LimitInv'
BY DEF LimitInv, LedgerInv, At

LEMMA PutLockKeepsLimit ==
    ASSUME LimitInv, LedgerInv, NEW p \in Players, PutLock(p)
    PROVE  LimitInv'
<1> DEFINE full == Cardinality(live) >= MaxSessions
<1>1. /\ mu = None /\ mu' = p /\ UNCHANGED live
      /\ scan' = [full |-> full, left |-> IF full THEN live ELSE {}, victim |-> None]
      /\ req' = [req EXCEPT ![p] = [req[p] EXCEPT !.at = "scan"]]
  BY DEF PutLock, Goes, LedgerInv
<1>2. full \in BOOLEAN /\ Cardinality(live) \in Nat /\ MaxSessions \in Nat
  BY FS_CardinalityType, BoundAssumption DEF LimitInv
<1>3. \A q \in Players : mu' = q <=> At(q, {"scan"})'
  BY <1>1, BoundAssumption DEF LimitInv, LedgerInv, WellFormed, Request, At
<1>4. /\ scan' \in [full : BOOLEAN, left : SUBSET live', victim : live' \union {None}]
      /\ ~scan'.full => scan'.left = {} /\ scan'.victim = None
      /\ ~scan'.full => Cardinality(live') < MaxSessions
  <2>1. CASE full
    <3>1. scan' = [full |-> TRUE, left |-> live, victim |-> None]
      BY <1>1, <2>1
    <3> QED BY <1>1, <3>1
  <2>2. CASE ~full
    <3>1. scan' = [full |-> FALSE, left |-> {}, victim |-> None]
      BY <1>1, <1>2, <2>2
    <3>2. Cardinality(live) < MaxSessions
      BY <1>2, <2>2
    <3> QED BY <1>1, <3>1, <3>2
  <2> QED BY <2>1, <2>2
<1>5. mu' \in Players /\ mu' # None
  BY <1>1, BoundAssumption
<1>6. /\ IsFiniteSet(live') /\ Cardinality(live') <= MaxSessions
      /\ None \notin live'
  BY <1>1 DEF LimitInv
<1> QED BY <1>3, <1>4, <1>5, <1>6 DEF LimitInv

LEMMA ExamineKeepsLimit ==
    ASSUME LimitInv, NEW p \in Players, NEW ss \in Sessions, Examine(p, ss)
    PROVE  LimitInv'
<1>1. /\ ss \in scan.left /\ UNCHANGED <<live, mu, req>>
      /\ \E v \in {ss, scan.victim} :
           scan' = [scan EXCEPT !.left = @ \ {ss}, !.victim = v]
  <2>1. scan' = [scan EXCEPT !.left = @ \ {ss},
                             !.victim = IF /\ active[ss] = 0
                                           /\ (scan.victim = None
                                               \/ Before(ss, scan.victim))
                                        THEN ss ELSE @]
    BY DEF Examine
  <2> QED BY <2>1 DEF Examine
<1>2. /\ mu # None /\ scan.full
  BY BoundAssumption, <1>1 DEF LimitInv, Examine, At
<1>3. /\ scan' \in [full : BOOLEAN, left : SUBSET live, victim : live \union {None}]
      /\ scan'.full
  BY <1>1, <1>2 DEF LimitInv
<1> QED BY <1>1, <1>2, <1>3 DEF LimitInv, At

\* The scan ends with a victim, or found the store below its limit, or the
\* new session is refused.
LEMMA PutEndKeepsLimit ==
    ASSUME LimitInv, LedgerInv, NEW p \in Players, PutEnd(p)
    PROVE  LimitInv'
<1> DEFINE new == req[p].ss
<1>1. /\ At(p, {"scan"}) /\ mu = p /\ mu' = None /\ scan' = NoScan
      /\ req' = [req EXCEPT ![p] = [req[p] EXCEPT !.at = "release"]]
  BY DEF PutEnd, Goes, LedgerInv, LimitInv
<1>2. new \in Sessions
  BY <1>1 DEF LedgerInv, WellFormed, At
<1>3. \A q \in Players : mu' # q /\ ~At(q, {"scan"})'
  BY <1>1, BoundAssumption DEF LimitInv, LedgerInv, WellFormed, Request, At
<1>4. IsFiniteSet(live') /\ Cardinality(live') <= MaxSessions
  <2>0. /\ IsFiniteSet(live) /\ Cardinality(live) \in Nat /\ MaxSessions \in Nat
        /\ Cardinality(live) <= MaxSessions
    BY FS_CardinalityType, BoundAssumption DEF LimitInv
  <2>1. CASE scan.full /\ scan.victim = None
    BY <2>0, <2>1 DEF PutEnd
  <2>2. CASE ~(scan.full /\ scan.victim = None)
    <3> DEFINE rest == live \ {scan.victim}
    <3>0. live' = rest \union {new}
      BY <2>2 DEF PutEnd
    <3>1. /\ IsFiniteSet(rest)
          /\ Cardinality(rest) = IF scan.victim \in live THEN Cardinality(live) - 1
                                                         ELSE Cardinality(live)
      BY <2>0, FS_RemoveElement
    <3>2. /\ IsFiniteSet(rest \union {new})
          /\ Cardinality(rest \union {new})
               = IF new \in rest THEN Cardinality(rest) ELSE Cardinality(rest) + 1
      BY <3>1, FS_AddElement
    <3>3. scan.victim \in live \/ Cardinality(live) < MaxSessions
      <4>1. CASE scan.full
        BY <4>1, <2>2 DEF LimitInv
      <4>2. CASE ~scan.full
        BY <1>1, <4>2, BoundAssumption DEF LimitInv
      <4> QED BY <4>1, <4>2
    <3> QED BY <2>0, <3>0, <3>1, <3>2, <3>3
  <2> QED BY <2>1, <2>2 DEF PutEnd
<1>5. None \notin live'
  BY <1>2, BoundAssumption DEF PutEnd, LimitInv
<1>6. scan' \in [full : BOOLEAN, left : SUBSET live', victim : live' \union {None}]
  BY <1>1 DEF NoScan
<1> QED BY <1>1, <1>3, <1>4, <1>5, <1>6 DEF LimitInv, NoScan

LEMMA StoreKeepsLimit ==
    ASSUME LimitInv, StoreStep
    PROVE  LimitInv'
<1>1. /\ UNCHANGED <<req, mu, scan>> /\ live' \subseteq live
      /\ mu # None => live' = live
  BY StoreFrame
<1>2. CASE live' = live
  BY <1>1, <1>2 DEF LimitInv, At
<1>3. CASE mu = None
  <2>1. IsFiniteSet(live') /\ Cardinality(live') <= MaxSessions
    <3>1. /\ IsFiniteSet(live) /\ Cardinality(live) \in Nat
          /\ MaxSessions \in Nat /\ Cardinality(live) <= MaxSessions
      BY FS_CardinalityType, BoundAssumption DEF LimitInv
    <3>2. IsFiniteSet(live') /\ Cardinality(live') <= Cardinality(live)
      BY <1>1, <3>1, FS_Subset
    <3>3. Cardinality(live') \in Nat
      BY <3>2, FS_CardinalityType
    <3> QED BY <3>1, <3>2, <3>3
  <2>2. scan' \in [full : BOOLEAN, left : SUBSET live', victim : live' \union {None}]
    BY <1>1, <1>3 DEF LimitInv, NoScan
  <2> QED BY <1>1, <1>3, <2>1, <2>2 DEF LimitInv, At
<1> QED BY <1>1, <1>2, <1>3

LEMMA LimitInvStep ==
    ASSUME LimitInv, LedgerInv, [Next]_vars
    PROVE  LimitInv'
<1>1. ASSUME NEW p \in Players, Progress(p) \/ Arrive(p)
      PROVE  LimitInv'
  <2>1. CASE PutLock(p)
    BY <2>1, PutLockKeepsLimit
  <2>2. CASE PutEnd(p)
    BY <2>2, PutEndKeepsLimit
  <2>3. CASE \E ss \in Sessions : Examine(p, ss)
    BY <2>3, ExamineKeepsLimit
  <2>4. CASE ~(PutLock(p) \/ PutEnd(p) \/ \E ss \in Sessions : Examine(p, ss))
    <3>1. /\ \E r : req' = [req EXCEPT ![p] = r]
          /\ UNCHANGED <<live, mu, scan>>
          /\ req[p].at # "scan" /\ req'[p].at # "scan"
      <4> USE DEF Steps, Holding, Goes, At, Moves, Child, Reaped, store
      <4>0. req[p] \in Request /\ req \in [Players -> Request]
        BY DEF LedgerInv, WellFormed
      <4> USE <4>0 DEF Request
      <4>1. CASE \/ Touch(p) \/ Acquire(p) \/ Wait(p) \/ OpenFails(p)
                 \/ SkipSampling(p) \/ StampFails(p) \/ SkipLookup(p)
                 \/ FirstBytes(p)
        BY <4>1 DEF Touch, Acquire, Wait, OpenFails, SkipSampling, StampFails,
           SkipLookup, FirstBytes
      <4>2. CASE GiveUp(p) \/ Release(p)
        BY <4>2 DEF GiveUp, Release, Idle
      <4>3. CASE ChooseHW(p) \/ \E ss \in Sessions : Stamp(p, ss)
        BY <4>3 DEF ChooseHW, Stamp
      <4>4. CASE \/ StartProbe(p) \/ EndProbe(p) \/ StartSampling(p)
                 \/ EndSampling(p) \/ StartLookup(p) \/ EndLookup(p)
        BY <4>4 DEF StartProbe, EndProbe, StartSampling, EndSampling,
           StartLookup, EndLookup
      <4>5. CASE StartSegment(p) \/ ChildEnds(p) \/ CloseStream(p)
        BY <4>5 DEF StartSegment, ChildEnds, CloseStream
      <4>6. CASE StartFails(p)
        BY <4>6 DEF StartFails
      <4>7. CASE BeginUse(p) \/ EndUse(p)
        BY <4>7 DEF BeginUse, EndUse
      <4>8. CASE Arrive(p)
        BY <4>8, Arrivals
      <4> HIDE <4>0 DEF Steps, Holding, Goes, At, Moves, Child, Reaped, store,
                        Request
      <4> QED BY <1>1, <2>4, <4>1, <4>2, <4>3, <4>4, <4>5, <4>6, <4>7, <4>8
              DEF Progress
    <3> QED BY <3>1, ElsewhereKeepsLimit
  <2> QED BY <2>1, <2>2, <2>3, <2>4
<1>2. CASE UNCHANGED vars
  BY <1>2 DEF vars, LimitInv, At
<1> QED BY <1>1, <1>2, NextSplits, StoreKeepsLimit

\* However many requests store sessions at a time, and though the store drops
\* at most one for each, it never holds more than MaxSessions.
THEOREM StoreLimit == Spec => []SessionsWithinLimit
<1>1. Init => LimitInv
  BY LimitInvInit
<1>2. LimitInv /\ LedgerInv /\ [Next]_vars => LimitInv'
  BY LimitInvStep
<1>3. LimitInv => SessionsWithinLimit
  BY DEF LimitInv, SessionsWithinLimit
<1> QED BY <1>1, <1>2, <1>3, LedgerInvariant, PTL DEF Spec

-----------------------------------------------------------------------------
(* The sweep.                                                              *)

\* A request that waits to use its session has touched it within the TTL.
FreshInv ==
    /\ stale \subseteq Sessions
    /\ \A p \in Players : At(p, Served \ Producing) => req[p].ss \notin stale

LEMMA FreshInvStep ==
    ASSUME FreshInv, LedgerInv, [Next]_vars
    PROVE  FreshInv'
<1>0. req \in [Players -> Request] /\ live \subseteq Sessions
  BY DEF LedgerInv, WellFormed
<1> DEFINE W == {"acquire", "waiting", "acquired"}
<1>1. Served \ Producing = W
  BY DEF Served, Producing
<1>2. ASSUME NEW p \in Players, NEW r, r \in Request,
             req' = [req EXCEPT ![p] = r], stale' \subseteq stale,
             r.at \in W => r.ss \notin stale'
      PROVE  FreshInv'
  BY <1>0, <1>1, <1>2 DEF FreshInv, At
<1>3. ASSUME UNCHANGED req, stale' \subseteq stale
      PROVE  FreshInv'
  BY <1>3 DEF FreshInv, At
<1>4. ASSUME NEW p \in Players, Progress(p) \/ Arrive(p)
      PROVE  FreshInv'
  <2>1. PICK r \in Request :
          /\ req' = [req EXCEPT ![p] = r] /\ stale' \subseteq stale
          /\ r.at \in W => \/ req[p].at \in W /\ r.ss = req[p].ss
                           \/ r.ss \notin stale'
    <3>0. req[p] \in Request
      BY <1>0
    <3> USE <1>0, <3>0
        DEF Request, Holding, Goes, At, Moves, Child, Reaped, usage, Used
    <3>1. CASE \/ Wait(p) \/ OpenFails(p) \/ SkipSampling(p) \/ StampFails(p)
               \/ PutLock(p) \/ PutEnd(p) \/ SkipLookup(p) \/ FirstBytes(p)
      BY <3>1 DEF Wait, OpenFails, SkipSampling, StampFails, PutLock, PutEnd,
         SkipLookup, FirstBytes
    <3>2. CASE GiveUp(p) \/ Release(p)
      BY <3>2 DEF GiveUp, Release, Idle
    <3>3. CASE ChooseHW(p) \/ \E ss \in Sessions : Stamp(p, ss)
      BY <3>3, BoundAssumption DEF ChooseHW, Stamp
    <3>4. CASE \/ StartProbe(p) \/ EndProbe(p) \/ StartSampling(p)
               \/ EndSampling(p) \/ StartLookup(p) \/ EndLookup(p)
      BY <3>4 DEF StartProbe, EndProbe, StartSampling, EndSampling,
         StartLookup, EndLookup
    <3>5. CASE StartSegment(p) \/ ChildEnds(p) \/ CloseStream(p)
      BY <3>5 DEF StartSegment, ChildEnds, CloseStream
    <3>6. CASE StartFails(p)
      BY <3>6 DEF StartFails
    <3>7. CASE BeginUse(p) \/ EndUse(p)
      BY <3>7 DEF BeginUse, EndUse
    <3>8. CASE Touch(p)
      BY <3>8 DEF Touch
    <3>9. CASE Acquire(p)
      <4>1. PICK step \in {"acquired", "open"} :
                   req' = [req EXCEPT ![p] = [req[p] EXCEPT !.at = step]]
        BY <3>9 DEF Acquire
      <4>2. [req[p] EXCEPT !.at = step] \in Request
        OBVIOUS
      <4> QED BY <3>9, <4>1, <4>2 DEF Acquire
    <3>10. CASE \E ss \in Sessions : Examine(p, ss)
      BY <3>10 DEF Examine
    <3>11. CASE Arrive(p)
      <4>1. None \notin stale
        BY BoundAssumption DEF FreshInv
      <4>2. PICK r \in Request :
              /\ req' = [req EXCEPT ![p] = r] /\ r.at \in {"touch", "acquire"}
              /\ r.at = "acquire" => r.ss = None
              /\ UNCHANGED stale
        BY <3>11, Arrivals
      <4> QED BY <4>1, <4>2
    <3> HIDE <1>0, <3>0
        DEF Request, Holding, Goes, At, Moves, Child, Reaped, usage, Used
    <3> QED BY <1>4, <3>1, <3>2, <3>3, <3>4, <3>5, <3>6, <3>7, <3>8, <3>9,
              <3>10, <3>11 DEF Progress
  <2>2. r.at \in W => r.ss \notin stale'
    BY <1>1, <2>1 DEF FreshInv, At
  <2> QED BY <1>2, <2>1, <2>2
<1>5. CASE StoreStep
  <2>1. CASE Sweep \/ \E ss \in Sessions : CloseSession(ss)
    BY <1>3, <2>1 DEF Sweep, CloseSession, Forget
  <2>2. CASE \E ss \in Sessions : Age(ss)
    BY <1>0, <2>2 DEF Age, FreshInv, At
  <2> QED BY <1>5, <2>1, <2>2 DEF StoreStep
<1>6. CASE UNCHANGED vars
  BY <1>3, <1>6 DEF vars
<1> QED BY <1>4, <1>5, <1>6, NextSplits

\* The sweep never drops a session under a request that is being served.
THEOREM SweepSpares == Spec => SweepSparesRequests
<1> DEFINE Spares == Sweep => \A ss \in live \ live', p \in Players :
                       ~(req[p].ss = ss /\ At(p, Served))
<1>1. Init => FreshInv
  BY BoundAssumption DEF Init, FreshInv, At, Served, Producing, Idle
<1>2. FreshInv /\ LedgerInv /\ [Next]_vars => FreshInv'
  BY FreshInvStep
<1>3. FreshInv /\ LedgerInv => Spares
  <2> SUFFICES ASSUME FreshInv, LedgerInv, Sweep,
                      NEW ss \in live \ live', NEW p \in Players,
                      req[p].ss = ss, At(p, Served)
               PROVE  FALSE
    OBVIOUS
  <2>1. ss \in stale /\ active[ss] = 0 /\ ss \in Sessions
    BY DEF Sweep, Forget, LedgerInv
  <2>2. At(p, Producing)
    BY <2>1 DEF FreshInv, At
  <2>3. p \in Of(Producers(ss))
    BY <2>2 DEF LedgerInv, WellFormed, Of, Producers, At
  <2>4. IsFiniteSet(Of(Producers(ss))) /\ Cardinality(Of(Producers(ss))) = 0
    BY <2>1, OfIsFinite DEF LedgerInv
  <2>5. Of(Producers(ss)) = {}
    BY <2>4, FS_EmptySet
  <2> QED BY <2>3, <2>5
<1> QED BY <1>1, <1>2, <1>3, LedgerInvariant, PTL DEF Spec, SweepSparesRequests
-----------------------------------------------------------------------------
(* The order of last uses, and the types.                                  *)

\* The last uses order the sessions they matter of, and no others, totally.
Ordered ==
    /\ order \subseteq Known \X Known
    /\ \A a, b \in Known : /\ Before(a, b) \/ Before(b, a) \/ a = b
                           /\ ~(Before(a, b) /\ Before(b, a))
    /\ \A a, b, c \in Known : Before(a, b) /\ Before(b, c) => Before(a, c)

LEMMA SameOrder ==
    ASSUME Ordered, UNCHANGED <<made, order>>
    PROVE  Ordered' /\ Known' = Known
<1>1. Known' = Known
  BY DEF Known
<1>2. \A a, b : Before(a, b)' <=> Before(a, b)
  BY DEF Before
<1> QED BY <1>1, <1>2 DEF Ordered

LEMMA WithoutOrdered ==
    ASSUME Ordered, NEW dropped, order' = Without(dropped), UNCHANGED made
    PROVE  Ordered' /\ Known' = Known \ dropped
<1>1. \A a, b : <<a, b>> \in order' <=>
                  <<a, b>> \in order /\ a \notin dropped /\ b \notin dropped
  BY DEF Without
<1>2. Known' = Known \ dropped
  BY <1>1 DEF Known
<1>3. order' \subseteq Known' \X Known'
  BY <1>1, <1>2 DEF Ordered, Without
<1>4. \A a, b \in Known' : Before(a, b)' <=> Before(a, b)
  BY <1>1, <1>2 DEF Before
<1> QED BY <1>2, <1>3, <1>4 DEF Ordered

LEMMA LatestOrdered ==
    ASSUME Ordered, NEW ss \in made', made \subseteq made',
           made' \subseteq made \union {ss}, order' = Latest(ss)
    PROVE  Ordered' /\ Known' = Known \union {ss}
<1>1. \A a, b : <<a, b>> \in order' <=>
                  \/ <<a, b>> \in order /\ a # ss /\ b # ss
                  \/ a \in Known \union {ss} /\ b = ss
  BY DEF Latest, Without
<1>2. Known' = Known \union {ss}
  BY <1>1 DEF Known
<1>3. order' \subseteq Known' \X Known'
  BY <1>1, <1>2 DEF Ordered, Latest, Without
<1>4. \A a, b \in Known' :
        Before(a, b)' <=> \/ Before(a, b) /\ a # ss /\ b # ss
                          \/ a # ss /\ b = ss
  BY <1>1, <1>2 DEF Before
<1>5. \A a, b \in Known' : a # ss /\ b # ss => a \in Known /\ b \in Known
  BY <1>2
<1>6. \A a, b \in Known' : /\ Before(a, b)' \/ Before(b, a)' \/ a = b
                           /\ ~(Before(a, b)' /\ Before(b, a)')
  BY <1>4, <1>5 DEF Ordered
<1>7. \A a, b, c \in Known' : Before(a, b)' /\ Before(b, c)' => Before(a, c)'
  <2> SUFFICES ASSUME NEW a \in Known', NEW b \in Known', NEW c \in Known',
                      Before(a, b)', Before(b, c)'
               PROVE  Before(a, c)'
    OBVIOUS
  <2>1. a # ss /\ b # ss
    BY <1>4
  <2> QED BY <1>4, <1>5, <2>1 DEF Ordered
<1> QED BY <1>2, <1>3, <1>6, <1>7 DEF Ordered

\* A touch changes the order, not the sessions in it.
LEMMA UsedOrdered ==
    ASSUME Ordered, NEW ss, Used(ss), UNCHANGED made
    PROVE  Ordered' /\ Known' = Known /\ stale' \subseteq stale
<1>1. CASE ss \in Known
  <2>1. order' = Latest(ss) /\ ss \in made
    BY <1>1 DEF Used, Known
  <2> QED BY <1>1, <2>1, LatestOrdered DEF Used
<1>2. CASE ss \notin Known
  <2>1. order' = order
    BY <1>2 DEF Used
  <2> QED BY <2>1, SameOrder DEF Used
<1> QED BY <1>1, <1>2

Entering == {"put", "scan"}

\* Sessions are forgotten with their place in the order, and one that is about
\* to be stored has a place, of its own, before it is in the store.
OrderInv ==
    /\ made \subseteq Sessions /\ stale \subseteq made /\ hwFailed \subseteq made
    /\ Ordered
    /\ live \subseteq Known
    /\ \A p \in Players : req[p].ss \in made \union {None}
    /\ \A p \in Players : At(p, Entering) => req[p].ss \in Known \ live
    /\ \A p, q \in Players :
         At(p, Entering) /\ At(q, Entering) /\ p # q => req[p].ss # req[q].ss

\* A step after which the order is of the same sessions, and the request enters
\* no session it did not enter before.
LEMMA MoveKeepsOrder ==
    ASSUME OrderInv, NEW p \in Players, NEW r, req \in [Players -> Request],
           req' = [req EXCEPT ![p] = r], UNCHANGED <<made, live>>,
           Ordered', Known' = Known, stale' \subseteq made, hwFailed' \subseteq made,
           r.ss \in made \union {None},
           r.at \in Entering => req[p].at \in Entering /\ r.ss = req[p].ss
    PROVE  OrderInv'
<1>1. /\ req'[p] = r
      /\ \A q \in Players : q # p => req'[q] = req[q]
  OBVIOUS
<1>2. /\ \A q \in Players : At(q, Entering)' =>
           At(q, Entering) /\ req'[q].ss = req[q].ss
      /\ \A q \in Players : req'[q].ss \in made \union {None}
  BY <1>1 DEF OrderInv, At
<1>3. \A q \in Players : At(q, Entering)' => req'[q].ss \in Known \ live
  BY <1>2 DEF OrderInv
<1>4. \A q, s \in Players :
        At(q, Entering)' /\ At(s, Entering)' /\ q # s => req'[q].ss # req'[s].ss
  BY <1>2 DEF OrderInv
<1> QED BY <1>2, <1>3, <1>4 DEF OrderInv

LEMMA StampKeepsOrder ==
    ASSUME OrderInv, LedgerInv, NEW p \in Players, NEW ss \in Sessions, Stamp(p, ss)
    PROVE  OrderInv'
<1> DEFINE r == [req[p] EXCEPT !.at = "put", !.ss = ss]
<1>1. req \in [Players -> Request]
  BY DEF LedgerInv, WellFormed
<1>2. /\ ss \notin made /\ made' = made \union {ss} /\ order' = Latest(ss)
      /\ UNCHANGED <<live, stale, hwFailed>>
      /\ req' = [req EXCEPT ![p] = r]
  BY <1>1 DEF Stamp
<1>3. r.ss = ss
  BY <1>1 DEF Request
<1>4. Ordered' /\ Known' = Known \union {ss} /\ ss \notin Known
  BY <1>2, LatestOrdered DEF OrderInv, Known
<1> HIDE DEF r
<1>5. /\ req'[p].ss = ss
      /\ \A q \in Players : q # p => req'[q] = req[q]
  BY <1>1, <1>2, <1>3
<1>6. ss \notin live
  BY <1>4 DEF OrderInv
<1>7. \A q \in Players : q # p /\ At(q, Entering)' =>
        req'[q].ss \in Known \ live /\ req'[q].ss # ss
  BY <1>4, <1>5 DEF OrderInv, At
<1>8. \A q \in Players : At(q, Entering)' => req'[q].ss \in Known' \ live'
  BY <1>2, <1>4, <1>5, <1>6, <1>7
<1>9. \A q, s \in Players :
        At(q, Entering)' /\ At(s, Entering)' /\ q # s => req'[q].ss # req'[s].ss
  <2> SUFFICES ASSUME NEW q \in Players, NEW s \in Players,
                      At(q, Entering)', At(s, Entering)', q # s
               PROVE  req'[q].ss # req'[s].ss
    OBVIOUS
  <2>1. CASE q = p \/ s = p
    BY <1>5, <1>7, <2>1
  <2>2. CASE q # p /\ s # p
    BY <1>5, <2>2 DEF OrderInv, At
  <2> QED BY <2>1, <2>2
<1>10. \A q \in Players : req'[q].ss \in made' \union {None}
  BY <1>2, <1>5 DEF OrderInv
<1>11. /\ made' \subseteq Sessions /\ stale' \subseteq made' /\ hwFailed' \subseteq made'
       /\ live' \subseteq Known'
  BY <1>2, <1>4 DEF OrderInv
<1> QED BY <1>4, <1>8, <1>9, <1>10, <1>11 DEF OrderInv

\* The session goes from the requests' hands into the store, the victim goes
\* from the store, or the new one goes from the order.
LEMMA PutEndKeepsOrder ==
    ASSUME OrderInv, LimitInv, LedgerInv, NEW p \in Players, PutEnd(p)
    PROVE  OrderInv'
<1> DEFINE new == req[p].ss
           gone == IF scan.full /\ scan.victim = None THEN new ELSE scan.victim
           r == [req[p] EXCEPT !.at = "release"]
<1>1. req \in [Players -> Request]
  BY DEF LedgerInv, WellFormed
<1>2. /\ At(p, Entering) /\ req' = [req EXCEPT ![p] = r]
      /\ UNCHANGED <<made, stale, hwFailed>>
      /\ order' = Without({gone})
  BY <1>1 DEF PutEnd, Goes, At, Entering
<1>3. r.at = "release" /\ r.ss = new
  BY <1>1 DEF Request
<1>4. /\ new \in Known \ live
      /\ scan.victim \in live \union {None}
  BY <1>2 DEF OrderInv, LimitInv
<1>5. \/ live' = live /\ gone = new
      \/ live' = (live \ {gone}) \union {new} /\ gone \in live \union {None}
  BY <1>4 DEF PutEnd
<1>6. None \notin Known
  BY BoundAssumption DEF OrderInv, Known
<1> HIDE DEF gone, r
<1>7. Ordered' /\ Known' = Known \ {gone}
  BY <1>2, WithoutOrdered DEF OrderInv
<1>8. live' \subseteq Known'
  BY <1>4, <1>5, <1>6, <1>7 DEF OrderInv
<1>9. \A q \in Players : At(q, Entering)' =>
        /\ q # p /\ At(q, Entering) /\ req'[q].ss = req[q].ss
        /\ req[q].ss # new
  <2> TAKE q \in Players
  <2> HAVE At(q, Entering)'
  <2>1. q # p
    BY <1>1, <1>2, <1>3 DEF At, Entering
  <2>2. req'[q] = req[q]
    BY <1>1, <1>2, <2>1
  <2> QED BY <1>2, <2>1, <2>2 DEF OrderInv, At
<1>10. \A q \in Players : At(q, Entering)' => req'[q].ss \in Known' \ live'
  <2> TAKE q \in Players
  <2> HAVE At(q, Entering)'
  <2>1. req'[q].ss \in Known \ live /\ req'[q].ss # new
    BY <1>9 DEF OrderInv
  <2> QED BY <1>5, <1>6, <1>7, <2>1
<1>11. \A q, s \in Players :
        At(q, Entering)' /\ At(s, Entering)' /\ q # s => req'[q].ss # req'[s].ss
  BY <1>9 DEF OrderInv
<1>12. \A q \in Players : req'[q].ss \in made \union {None}
  BY <1>1, <1>2, <1>3 DEF OrderInv
<1>13. /\ made' \subseteq Sessions /\ stale' \subseteq made' /\ hwFailed' \subseteq made'
  BY <1>2 DEF OrderInv
<1> QED BY <1>2, <1>7, <1>8, <1>10, <1>11, <1>12, <1>13 DEF OrderInv

\* The steps of a request that are about no session's place.
LEMMA ElsewhereOrder ==
    ASSUME LedgerInv, NEW p \in Players, Progress(p),
           ~(Touch(p) \/ BeginUse(p) \/ EndUse(p) \/ PutEnd(p) \/ StartFails(p)),
           \A ss \in Sessions : ~Stamp(p, ss) /\ ~Examine(p, ss)
    PROVE  /\ UNCHANGED <<made, live, order, stale, hwFailed>>
           /\ \E r : /\ req' = [req EXCEPT ![p] = r]
                     /\ r.ss \in {req[p].ss, None}
                     /\ r.at \in Entering =>
                          req[p].at \in Entering /\ r.ss = req[p].ss
<1>0. req[p] \in Request /\ req \in [Players -> Request]
  BY DEF LedgerInv, WellFormed
<1> USE <1>0 DEF Request, Goes, At, Moves, Child, Reaped, store, usage, Entering
<1>1. CASE \/ Acquire(p) \/ Wait(p) \/ OpenFails(p) \/ SkipSampling(p)
           \/ StampFails(p) \/ SkipLookup(p) \/ FirstBytes(p)
  BY <1>1 DEF Acquire, Wait, OpenFails, SkipSampling, StampFails, SkipLookup,
     FirstBytes
<1>2. CASE GiveUp(p) \/ Release(p)
  BY <1>2 DEF GiveUp, Release, Idle
<1>3. CASE ChooseHW(p) \/ PutLock(p)
  BY <1>3 DEF ChooseHW, PutLock
<1>4. CASE \/ StartProbe(p) \/ EndProbe(p) \/ StartSampling(p)
           \/ EndSampling(p) \/ StartLookup(p) \/ EndLookup(p)
  BY <1>4 DEF StartProbe, EndProbe, StartSampling, EndSampling,
     StartLookup, EndLookup
<1>5. CASE StartSegment(p) \/ ChildEnds(p) \/ CloseStream(p)
  BY <1>5 DEF StartSegment, ChildEnds, CloseStream
<1> HIDE <1>0 DEF Request, Goes, At, Moves, Child, Reaped, store, usage, Entering
<1> QED BY <1>1, <1>2, <1>3, <1>4, <1>5 DEF Progress

\* A session is touched, or its hardware is found to fail.
LEMMA UseKeepsOrder ==
    ASSUME OrderInv, LedgerInv, NEW p \in Players,
           Touch(p) \/ BeginUse(p) \/ EndUse(p) \/ StartFails(p)
    PROVE  OrderInv'
<1>1. req \in [Players -> Request] /\ req[p] \in WellFormed /\ req[p] \in Request
  BY DEF LedgerInv, WellFormed
<1>2. PICK r : /\ req' = [req EXCEPT ![p] = r]
               /\ r.ss = req[p].ss /\ r.at \notin Entering
  BY <1>1 DEF Touch, BeginUse, EndUse, StartFails, Goes, Request, Entering
<1>3. UNCHANGED <<made, live>>
  BY DEF Touch, BeginUse, EndUse, StartFails, store
<1>4. Ordered' /\ Known' = Known /\ stale' \subseteq stale
  <2>1. CASE Touch(p) \/ BeginUse(p) \/ EndUse(p)
    <3>1. Used(req[p].ss)
      BY <2>1 DEF Touch, BeginUse, EndUse
    <3> QED BY <1>3, <3>1, UsedOrdered DEF OrderInv
  <2>2. CASE StartFails(p)
    BY <1>3, <2>2, SameOrder DEF StartFails, OrderInv
  <2> QED BY <2>1, <2>2
<1>5. hwFailed' \subseteq made
  <2>1. CASE Touch(p) \/ BeginUse(p) \/ EndUse(p)
    BY <2>1 DEF Touch, BeginUse, EndUse, OrderInv
  <2>2. CASE StartFails(p)
    <3>1. req[p].ss \in made
      BY <1>1, <2>2, BoundAssumption
         DEF StartFails, At, WellFormed, Producing, OrderInv
    <3> QED BY <2>2, <3>1 DEF StartFails, OrderInv
  <2> QED BY <2>1, <2>2
<1>6. r.ss \in made \union {None} /\ stale' \subseteq made
  BY <1>2, <1>4 DEF OrderInv
<1> QED BY <1>1, <1>2, <1>3, <1>4, <1>5, <1>6, MoveKeepsOrder

LEMMA ArriveKeepsOrder ==
    ASSUME OrderInv, LedgerInv, NEW p \in Players, Arrive(p)
    PROVE  OrderInv'
<1>1. /\ UNCHANGED <<made, live, order, stale, hwFailed>>
      /\ req \in [Players -> Request]
  BY DEF Arrive, Ask, Get, store, usage, LedgerInv, WellFormed
<1>2. PICK r \in Request :
        /\ req' = [req EXCEPT ![p] = r] /\ r.at \in {"touch", "acquire"}
        /\ r.ss \in live \union {None}
  BY Arrivals
<1>3. /\ Ordered' /\ Known' = Known
      /\ r.at \notin Entering /\ r.ss \in made \union {None}
  BY <1>1, <1>2, SameOrder DEF OrderInv, Entering, Known
<1>4. stale' \subseteq made /\ hwFailed' \subseteq made
  BY <1>1 DEF OrderInv
<1> QED BY <1>1, <1>2, <1>3, <1>4, MoveKeepsOrder

LEMMA StoreKeepsOrder ==
    ASSUME OrderInv, StoreStep
    PROVE  OrderInv'
<1>1. UNCHANGED <<req, made, hwFailed>> /\ stale' \subseteq made
  BY DEF StoreStep, Sweep, CloseSession, Age, store, OrderInv, Known
<1>2. PICK dropped \in SUBSET live : Forget(dropped)
  <2>1. CASE Sweep
    BY <2>1 DEF Sweep
  <2>2. CASE \E ss \in Sessions : CloseSession(ss)
    BY <2>2 DEF CloseSession
  <2>3. CASE \E ss \in Sessions : Age(ss)
    <3>1. live' = live /\ order' = order
      BY <2>3 DEF Age, store
    <3>2. Without({}) = order
      BY DEF Without
    <3>3. Forget({})
      BY <3>1, <3>2 DEF Forget
    <3> QED BY <3>3
  <2> QED BY <2>1, <2>2, <2>3 DEF StoreStep
<1>3. live' = live \ dropped /\ order' = Without(dropped)
  BY <1>2 DEF Forget
<1>4. Ordered' /\ Known' = Known \ dropped
  BY <1>1, <1>3, WithoutOrdered DEF OrderInv
<1> QED BY <1>1, <1>3, <1>4 DEF OrderInv, At

LEMMA OrderInvStep ==
    ASSUME OrderInv, LimitInv, LedgerInv, [Next]_vars
    PROVE  OrderInv'
<1>0. req \in [Players -> Request]
  BY DEF LedgerInv, WellFormed
<1>1. ASSUME NEW p \in Players, Progress(p)
      PROVE  OrderInv'
  <2>1. CASE Touch(p) \/ BeginUse(p) \/ EndUse(p) \/ StartFails(p)
    BY <2>1, UseKeepsOrder
  <2>2. CASE PutEnd(p)
    BY <2>2, PutEndKeepsOrder
  <2>3. CASE \E ss \in Sessions : Stamp(p, ss)
    BY <2>3, StampKeepsOrder
  <2>4. CASE \E ss \in Sessions : Examine(p, ss)
    BY <2>4, SameOrder DEF Examine, usage, OrderInv, At
  <2>5. CASE /\ ~(Touch(p) \/ BeginUse(p) \/ EndUse(p) \/ PutEnd(p) \/ StartFails(p))
             /\ \A ss \in Sessions : ~Stamp(p, ss) /\ ~Examine(p, ss)
    <3>1. /\ UNCHANGED <<made, live, order, stale, hwFailed>>
          /\ \E r : /\ req' = [req EXCEPT ![p] = r]
                    /\ r.ss \in {req[p].ss, None}
                    /\ r.at \in Entering =>
                         req[p].at \in Entering /\ r.ss = req[p].ss
      BY <1>1, <2>5, ElsewhereOrder
    <3>2. Ordered' /\ Known' = Known /\ stale' \subseteq made /\ hwFailed' \subseteq made
      BY <3>1, SameOrder DEF OrderInv
    <3>3. PICK r : /\ req' = [req EXCEPT ![p] = r]
                   /\ r.ss \in {req[p].ss, None}
                   /\ r.at \in Entering =>
                        req[p].at \in Entering /\ r.ss = req[p].ss
      BY <3>1
    <3>4. r.ss \in made \union {None}
      BY <3>3 DEF OrderInv
    <3> QED BY <1>0, <3>1, <3>2, <3>3, <3>4, MoveKeepsOrder
  <2> QED BY <2>1, <2>2, <2>3, <2>4, <2>5
<1>2. CASE UNCHANGED vars
  BY <1>2, SameOrder DEF vars, OrderInv, At
<1> QED BY <1>1, <1>2, NextSplits, ArriveKeepsOrder, StoreKeepsOrder

LEMMA OrderInvInit ==
    ASSUME Init
    PROVE  OrderInv
BY DEF Init, OrderInv, Ordered, Known, Before, At, Idle, Entering

\* What is counted is counted of requests that hold a slot.
LEMMA CountersBounded ==
    ASSUME LedgerInv
    PROVE  /\ sem \in 0..MaxProcs /\ running \in 0..MaxProcs
           /\ active \in [Sessions -> 0..MaxProcs]
<1>1. /\ IsFiniteSet(Of(Holders)) /\ sem = Cardinality(Of(Holders))
      /\ sem \in Nat /\ sem <= MaxProcs /\ MaxProcs \in Nat
  BY OfIsFinite, BoundAssumption DEF LedgerInv
<1>2. ASSUME NEW R, R \subseteq Holders
      PROVE  Cardinality(Of(R)) \in 0..MaxProcs
  <2>1. Of(R) \subseteq Of(Holders)
    BY <1>2 DEF Of
  <2>2. Cardinality(Of(R)) <= Cardinality(Of(Holders)) /\ Cardinality(Of(R)) \in Nat
    BY <1>1, <2>1, FS_Subset, OfIsFinite
  <2> QED BY <1>1, <2>2
<1>3. Parents \subseteq Holders
  BY DEF Parents, Holders, Childed, Holding
<1>4. \A ss \in Sessions : Producers(ss) \subseteq Holders
  BY DEF Producers, Holders, Producing, Holding
<1>5. running \in 0..MaxProcs
  BY <1>2, <1>3 DEF LedgerInv
<1>6. \A ss \in Sessions : active[ss] \in 0..MaxProcs
  BY <1>2, <1>4 DEF LedgerInv
<1> QED BY <1>1, <1>5, <1>6 DEF LedgerInv

\* Every variable has its type: the counters stay within the slots, the store
\* is locked by the request that scans it, and the last uses order its
\* sessions totally, whatever is touched, closed, expired and evicted.
THEOREM TypeCorrect == Spec => []TypeOK
<1>1. Init => OrderInv
  BY OrderInvInit
<1>2. OrderInv /\ LimitInv /\ LedgerInv /\ [Next]_vars => OrderInv'
  BY OrderInvStep
<1>3. OrderInv /\ LimitInv /\ LedgerInv => TypeOK
  <2> SUFFICES ASSUME OrderInv, LimitInv, LedgerInv PROVE TypeOK
    OBVIOUS
  <2>1. req \in [Players -> Request]
    BY DEF LedgerInv, WellFormed
  <2>2. live \subseteq made
    BY DEF OrderInv, Known
  <2> QED BY <2>1, <2>2, CountersBounded DEF OrderInv, Ordered, LimitInv, TypeOK
<1>4. Init => LimitInv
  BY LimitInvInit
<1>5. LimitInv /\ LedgerInv /\ [Next]_vars => LimitInv'
  BY LimitInvStep
<1> QED BY <1>1, <1>2, <1>3, <1>4, <1>5, LedgerInvariant, PTL DEF Spec
=============================================================================
