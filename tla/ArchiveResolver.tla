--------------------------- MODULE ArchiveResolver ---------------------------
(***************************************************************************)
(* The archive resolver of the daemon (internal/archive): operations on    *)
(* paths like a.zip!/b.tar!/c, which open one layer through the other.     *)
(* They share MaxConcurrent slots, a budget for the temp files of nested   *)
(* layers and a cache of entry tables.                                     *)
(*                                                                         *)
(* Layer 0 is the archive on disk, layer i an entry of layer i - 1.  An    *)
(* operation is a sequence of instructions still to be done, the nested    *)
(* calls of the code laid out in the order in which they run.              *)
(***************************************************************************)
EXTENDS Integers, FiniteSets, Sequences, SequencesExt, Functions

CONSTANTS
    Ops,           \* concurrent operations
    MaxDepth,      \* Options.MaxDepth
    MaxConcurrent, \* Options.MaxConcurrent
    MaxTempBytes,  \* Options.MaxTempBytes
    MaxLayerBytes, \* maxLayerBytes
    Chunk,         \* the most one Write of a spill passes on
    CacheSlots,    \* tableCacheSlots
    MaxCacheBytes, \* Options.MaxCacheBytes
    TableSize,     \* bytes of a table: of a version of the archive and a layer
    MaxVersion,    \* bound: how often the archive is replaced
    Keyless,       \* bound: the layers for which the look at the archive may fail
    MaxLitter      \* bound: the bytes of temp files that could not be removed

ASSUME BoundAssumption ==
    /\ IsFiniteSet(Ops)
    /\ {MaxDepth, MaxConcurrent, CacheSlots, Chunk, MaxVersion} \subseteq Nat \ {0}
    /\ {MaxTempBytes, MaxLayerBytes, MaxCacheBytes, MaxLitter} \subseteq Nat
    /\ Keyless \subseteq 0..MaxDepth
    /\ TableSize \in [1..MaxVersion -> [0..MaxDepth -> Nat \ {0}]]

VARIABLES
    ver,   \* version of the archive on disk: a change of its time or size
    sem,   \* tokens in the semaphore channel
    used,  \* tempLedger.used
    cache, \* tableCache: keys (least recently used first), vals, bytes
    op,    \* what each operation has still to do, and what it holds
    going, \* bytes an operation has given back, of a temp file it has yet to remove
    litter \* bytes of the temp files that could not be removed

disk == <<going, litter>>
vars == <<ver, sem, used, cache, op, disk>>

-----------------------------------------------------------------------------
(* Instructions.                                                           *)

Layers == 0..MaxDepth

\* A key is the version the archive had when it was looked at and the layer;
\* version 0 stands for a failed look, which yields no key.
Key(v, i) == [ver |-> v, layer |-> i]

Table(i)   == [do |-> "table", key |-> Key(0, i)]
Find(k)    == [do |-> "find",  key |-> k]
Slot       == [do |-> "slot",  key |-> Key(0, 0)]
Read       == [do |-> "read",  key |-> Key(0, 0)]
Spill(i)   == [do |-> "spill", key |-> Key(0, i)]
Write      == [do |-> "write", key |-> Key(0, 0)]
Parse(k)   == [do |-> "parse", key |-> k]
Put(k)     == [do |-> "put",   key |-> k]

\* The bytes of a nested layer are an entry opened in its parent: the parent's
\* table, a slot, the parent's bytes, and so on down to the archive on disk.
Parents(i) ==
    [j \in 1..(2 * i) |-> IF j % 2 = 1 THEN Table(i - 1 - j \div 2) ELSE Slot]

Bytes(i) == Parents(i) \o <<Read>> \o [j \in 1..i |-> Spill(j)]

openEntryRaw(i) == <<Table(i), Slot>> \o Bytes(i)

\* A bare compressed file is listed by its name alone; here it is read as well.
listBlob(k)     == <<Slot>> \o Bytes(k.layer) \o <<Parse(k), Put(k)>>

\* resolve looks the path up in one layer after the other.
resolve(n) == [i \in 1..n |-> Table(i - 1)]

Idle == [at |-> "idle", open |-> FALSE, work |-> <<>>, temps |-> <<>>, held |-> FALSE,
         over |-> 0, seen |-> 0, began |-> 0, fresh |-> TRUE]

NoTables == [keys |-> <<>>, vals |-> [k \in {} |-> 0], bytes |-> 0]

Init ==
    /\ ver = 1 /\ sem = 0 /\ used = 0
    /\ cache = NoTables
    /\ op = [p \in Ops |-> Idle]
    /\ going = [p \in Ops |-> 0] /\ litter = 0

\* Cleaning up comes before whatever the operation does next.
Running(p, do) ==
    /\ op[p].at = "run" /\ op[p].over = 0 /\ going[p] = 0
    /\ op[p].work # <<>> /\ Head(op[p].work).do = do

Then(p, work) == op' = [op EXCEPT ![p].work = work \o Tail(@)]

-----------------------------------------------------------------------------
(* Beginning and ending an operation.                                      *)

Begin(p, work, open) ==
    /\ op[p].at = "idle"
    /\ op' = [op EXCEPT ![p] = [Idle EXCEPT !.at = "run", !.open = open, !.work = work,
                                            !.began = ver]]
    /\ UNCHANGED <<ver, sem, used, cache, disk>>

Stat(p, n) == n > 0 /\ Begin(p, resolve(n), FALSE)

\* A directory in layer n - 1, or the root of layer n.
List(p, n) ==
    \/ n > 0 /\ Begin(p, resolve(n) \o <<Table(n - 1)>>, FALSE)
    \/ n < MaxDepth /\ Begin(p, resolve(n) \o <<Table(n)>>, FALSE)

Open(p, n) == n > 0 /\ Begin(p, resolve(n) \o openEntryRaw(n - 1), TRUE)

\* What an operation that broke off has still to give back.
Broken(o) == [Idle EXCEPT !.at = "fail", !.temps = o.temps, !.held = o.held]

Streaming(o) == [Idle EXCEPT !.at = "stream", !.temps = o.temps]

\* Mutant: a slot is given back in any case.
ReleasedAlways(p) == sem - 1

\* done() gives the operation's slot back, if it ever took one.
Released(p) == IF op[p].held THEN sem - 1 ELSE sem

\* The stream of Open keeps the temp files of its layers until it is closed.
Answer(p) ==
    /\ op[p].at = "run" /\ op[p].work = <<>> /\ going[p] = 0
    /\ sem' = Released(p)
    /\ op' = [op EXCEPT ![p] = IF @.open THEN Streaming(@) ELSE Idle]
    /\ UNCHANGED <<ver, used, cache, disk>>

\* An I/O error, an invalid archive, too many entries, no such entry, or the
\* deadline; what is open is closed on the way out.
Fails(p) ==
    /\ op[p].at = "run" /\ op[p].over = 0 /\ op[p].work # <<>> /\ going[p] = 0
    /\ op' = [op EXCEPT ![p] = Broken(@)]
    /\ UNCHANGED <<ver, sem, used, cache, disk>>

\* The cleanup of a temp file first gives its bytes back to the ledger.
Release(p, n) ==
    /\ used' = used - n
    /\ going' = [going EXCEPT ![p] = n]
    /\ UNCHANGED litter

\* Then it removes the file; nobody looks whether that succeeds.
RemoveTemp(p) ==
    /\ going[p] > 0
    /\ going' = [going EXCEPT ![p] = 0]
    /\ litter' \in {litter, litter + going[p]} /\ litter' <= MaxLitter
    /\ UNCHANGED <<ver, sem, used, cache, op>>

Drop(p) ==
    /\ op[p].at = "fail" /\ op[p].temps # <<>> /\ going[p] = 0
    /\ Release(p, Last(op[p].temps))
    /\ op' = [op EXCEPT ![p].temps = Front(@)]
    /\ UNCHANGED <<ver, sem, cache>>

\* Mutant: an operation that fails while it reads keeps its slot.
EndKeepingSlot(p) ==
    /\ op[p].at = "fail" /\ op[p].temps = <<>> /\ going[p] = 0
    /\ op' = [op EXCEPT ![p] = Idle]
    /\ UNCHANGED <<ver, sem, used, cache, disk>>

End(p) ==
    /\ op[p].at = "fail" /\ op[p].temps = <<>> /\ going[p] = 0
    /\ sem' = Released(p)
    /\ op' = [op EXCEPT ![p] = Idle]
    /\ UNCHANGED <<ver, used, cache, disk>>

CloseStream(p) ==
    /\ op[p].at = "stream"
    /\ op' = [op EXCEPT ![p] = Broken(@)]
    /\ UNCHANGED <<ver, sem, used, cache, disk>>

-----------------------------------------------------------------------------
(* Entry tables: tableForBlob and the cache.                               *)

\* cacheKey looks at the archive on disk before anything of it is read; where
\* that fails the listing goes on without a key.
MakeKey(p) ==
    /\ Running(p, "table")
    /\ LET i == Head(op[p].work).key.layer IN
         \/ Then(p, <<Find(Key(ver, i))>>)
         \/ i \in Keyless /\ Then(p, listBlob(Key(0, i)))
    /\ UNCHANGED <<ver, sem, used, cache, disk>>

Touched(keys, k) == Append(RemoveFirst(keys, k), k)

Hit(p) ==
    /\ Running(p, "find")
    /\ LET k == Head(op[p].work).key IN
         /\ k \in DOMAIN cache.vals
         /\ cache' = [cache EXCEPT !.keys = Touched(@, k)]
         /\ op' = [op EXCEPT ![p].work = Tail(@), ![p].fresh = @ /\ cache.vals[k] >= op[p].began]
    /\ UNCHANGED <<ver, sem, used, disk>>

Miss(p) ==
    /\ Running(p, "find")
    /\ LET k == Head(op[p].work).key IN
         k \notin DOMAIN cache.vals /\ Then(p, listBlob(k))
    /\ UNCHANGED <<ver, sem, used, cache, disk>>

\* The bytes counted for a cached table.
Size(vals, k) == TableSize[vals[k]][k.layer]

\* Mutant: the table that is replaced stays counted.
StoredTwice(k, v) ==
    [keys  |-> Touched(cache.keys, k),
     vals  |-> [x \in DOMAIN cache.vals \union {k} |-> IF x = k THEN v ELSE cache.vals[x]],
     bytes |-> cache.bytes + TableSize[v][k.layer]]

\* The listing of k read from version v, in place of an earlier one of k.
Stored(k, v) ==
    LET old == IF k \in DOMAIN cache.vals THEN Size(cache.vals, k) ELSE 0 IN
      [keys  |-> Touched(cache.keys, k),
       vals  |-> [x \in DOMAIN cache.vals \union {k} |-> IF x = k THEN v ELSE cache.vals[x]],
       bytes |-> cache.bytes + TableSize[v][k.layer] - old]

\* What the cache holds without its n oldest tables.
BytesWithout(c, n) ==
    c.bytes - SumFunction([j \in 1..n |-> Size(c.vals, c.keys[j])])

\* The oldest tables go until slots and bytes suffice, the newest stays.
Evicted(c) ==
    LET Fits(n) == \/ n = Len(c.keys) - 1
                   \/ Len(c.keys) - n <= CacheSlots /\ BytesWithout(c, n) <= MaxCacheBytes
        n == CHOOSE m \in 0..(Len(c.keys) - 1) : Fits(m) /\ \A l \in 0..(m - 1) : ~Fits(l)
        old == {c.keys[j] : j \in 1..n}
    IN [keys  |-> SubSeq(c.keys, n + 1, Len(c.keys)),
        vals  |-> [k \in DOMAIN c.vals \ old |-> c.vals[k]],
        bytes |-> BytesWithout(c, n)]

\* Mutant: the table is filed under the version seen when it is put.
PutLate(p) ==
    /\ Running(p, "put")
    /\ LET k == Head(op[p].work).key IN
         cache' = IF k.ver = 0 THEN cache
                  ELSE Evicted(Stored(Key(ver, k.layer), op[p].seen))
    /\ op' = [op EXCEPT ![p].work = Tail(@), ![p].seen = 0,
                        ![p].fresh = @ /\ op[p].seen >= op[p].began]
    /\ UNCHANGED <<ver, sem, used, disk>>

\* A listing without a key is not cached, but it answers its operation.
PutTable(p) ==
    /\ Running(p, "put")
    /\ LET k == Head(op[p].work).key IN
         cache' = IF k.ver = 0 THEN cache ELSE Evicted(Stored(k, op[p].seen))
    /\ op' = [op EXCEPT ![p].work = Tail(@), ![p].seen = 0,
                        ![p].fresh = @ /\ op[p].seen >= op[p].began]
    /\ UNCHANGED <<ver, sem, used, disk>>

-----------------------------------------------------------------------------
(* Slots, bytes and temp files.                                            *)

\* Mutant: every nested open takes a slot of its own.
acquireAgain(p) ==
    /\ Running(p, "slot")
    /\ sem < MaxConcurrent
    /\ sem' = sem + 1
    /\ op' = [op EXCEPT ![p].work = Tail(@), ![p].held = TRUE]
    /\ UNCHANGED <<ver, used, cache, disk>>

\* The slot an operation holds serves its nested opens too.
acquire(p) ==
    /\ Running(p, "slot")
    /\ \/ op[p].held /\ sem' = sem
       \/ ~op[p].held /\ sem < MaxConcurrent /\ sem' = sem + 1
    /\ op' = [op EXCEPT ![p].work = Tail(@), ![p].held = TRUE]
    /\ UNCHANGED <<ver, used, cache, disk>>

\* The archive is opened: the rest of the operation reads that version.  An
\* open layer is a cell of temps, the bytes its temp file takes (0: no file).
OpenFile(p) ==
    /\ Running(p, "read")
    /\ op' = [op EXCEPT ![p].work = Tail(@), ![p].seen = ver, ![p].temps = Append(@, 0)]
    /\ UNCHANGED <<ver, sem, used, cache, disk>>

\* What holds the entry's stream is closed once the layer has bytes of its own.
Parent(p) == op[p].temps[Len(op[p].temps) - 1]

\* A tar is streamed out of its parent, a small zip kept in memory.
Stream(p) ==
    /\ Running(p, "spill")
    /\ \/ UNCHANGED <<used, disk>> /\ op' = [op EXCEPT ![p].work = Tail(@)]
       \/ /\ Release(p, Last(op[p].temps))
          /\ op' = [op EXCEPT ![p].work = Tail(@), ![p].temps = Append(Front(@), 0)]
    /\ UNCHANGED <<ver, sem, cache>>

CreateTemp(p) ==
    /\ Running(p, "spill")
    /\ op' = [op EXCEPT ![p].work = <<Write>> \o Tail(@), ![p].temps = Append(@, 0)]
    /\ UNCHANGED <<ver, sem, used, cache, disk>>

\* reserve counts the bytes first and looks whether they fit afterwards.
reserve(p) ==
    /\ Running(p, "write")
    /\ \E c \in 1..Chunk :
         /\ Last(op[p].temps) + c <= MaxLayerBytes + 1
         /\ used' = used + c
         /\ op' = [op EXCEPT ![p] =
                     IF used + c > MaxTempBytes THEN [op[p] EXCEPT !.over = c]
                     ELSE [op[p] EXCEPT !.temps = Append(Front(@), Last(@) + c)]]
    /\ UNCHANGED <<ver, sem, cache, disk>>

\* Mutant: the bytes that did not fit stay counted.
RefuseCounted(p) ==
    /\ op[p].over > 0
    /\ op' = [op EXCEPT ![p] = Broken(@)]
    /\ UNCHANGED <<ver, sem, used, cache, disk>>

Refuse(p) ==
    /\ op[p].over > 0
    /\ used' = used - op[p].over
    /\ op' = [op EXCEPT ![p] = Broken(@)]
    /\ UNCHANGED <<ver, sem, cache, disk>>

\* All is copied: the parent is closed, or the layer was too large.
Copied(p) ==
    /\ Running(p, "write")
    /\ IF Last(op[p].temps) > MaxLayerBytes
       THEN UNCHANGED <<used, disk>> /\ op' = [op EXCEPT ![p] = Broken(@)]
       ELSE /\ Release(p, Parent(p))
            /\ op' = [op EXCEPT ![p].work = Tail(@),
                                ![p].temps = Append(Front(Front(@)), Last(@))]
    /\ UNCHANGED <<ver, sem, cache>>

\* The listing is parsed and its bytes are let go.
ParseList(p) ==
    /\ Running(p, "parse")
    /\ Release(p, Last(op[p].temps))
    /\ op' = [op EXCEPT ![p].work = Tail(@), ![p].temps = Front(@)]
    /\ UNCHANGED <<ver, sem, cache>>

\* Somebody rewrites the archive on disk.
Replace ==
    /\ ver < MaxVersion
    /\ ver' = ver + 1
    /\ UNCHANGED <<sem, used, cache, op, disk>>

-----------------------------------------------------------------------------
Steps(p) ==
    \/ Answer(p) \/ Drop(p) \/ RemoveTemp(p) \/ End(p)
    \/ MakeKey(p) \/ Hit(p) \/ Miss(p) \/ PutTable(p)
    \/ OpenFile(p) \/ Stream(p) \/ CreateTemp(p)
    \/ reserve(p) \/ Refuse(p) \/ Copied(p) \/ ParseList(p)

Next ==
    \/ \E p \in Ops, n \in 0..MaxDepth : Stat(p, n) \/ List(p, n) \/ Open(p, n)
    \/ \E p \in Ops : Steps(p) \/ acquire(p) \/ Fails(p) \/ CloseStream(p)
    \/ Replace

Spec == Init /\ [][Next]_vars

\* Goroutines are scheduled, and a slot that is given back goes to the
\* longest waiting sender of the channel.  Failures and closes may not come.
Fairness == \A p \in Ops : WF_vars(Steps(p)) /\ SF_vars(acquire(p))

-----------------------------------------------------------------------------
(* Properties.                                                             *)

Instruction ==
    [do : {"table", "find", "slot", "read", "spill", "write", "parse", "put"},
     key : [ver : 0..MaxVersion, layer : Layers]]

Operation ==
    [at : {"idle", "run", "fail", "stream"}, open : BOOLEAN, work : Seq(Instruction),
     temps : Seq(0..(MaxLayerBytes + 1)), held : BOOLEAN, over : 0..Chunk,
     seen : 0..MaxVersion, began : 0..MaxVersion, fresh : BOOLEAN]

\* The state has its type; in particular there are never fewer than no and
\* never more than MaxConcurrent tokens in the channel, and the ledger is
\* past its budget by at most a chunk of each operation.
TypeOK ==
    /\ ver \in 1..MaxVersion
    /\ sem \in 0..MaxConcurrent
    /\ used \in 0..(MaxTempBytes + Chunk * Cardinality(Ops))
    /\ cache.keys \in Seq([ver : 1..MaxVersion, layer : Layers])
    /\ DOMAIN cache.vals = ToSet(cache.keys)
    /\ \A k \in DOMAIN cache.vals : cache.vals[k] \in 1..MaxVersion
    /\ op \in [Ops -> Operation]
    /\ going \in [Ops -> 0..(MaxLayerBytes + 1)]
    /\ litter \in 0..MaxLitter

\* A slot is out for exactly the operations that hold one, whatever way they
\* end, and no archive byte is touched without one (opGate, acquire, done).
SlotsMatchOperations ==
    /\ sem = Cardinality({p \in Ops : op[p].held})
    /\ \A p \in Ops : op[p].at = "run" /\ op[p].temps # <<>> => op[p].held

\* Bytes of the temp files that an operation or its open stream still uses.
TempBytes(p) == SumFunction(op[p].temps)

\* The ledger counts the temp files that operations and open streams still
\* use, and nothing else once a refused chunk is taken back; those files never
\* take more than MaxTempBytes.  The disk may hold more, by what is let go but
\* not yet removed (going) and by what could not be removed (litter): of these
\* the ledger knows nothing.
LedgerMatchesTemps ==
    LET files == SumFunction([p \in Ops |-> TempBytes(p)]) IN
      /\ used = files + SumFunction([p \in Ops |-> op[p].over])
      /\ files <= MaxTempBytes

\* The byte count of the cache is the sum over its tables although several
\* operations file the same listing, and only a single table may exceed it.
CacheIsExact ==
    /\ IsInjective(cache.keys)
    /\ cache.bytes = SumFunction([k \in DOMAIN cache.vals |-> Size(cache.vals, k)])
    /\ Len(cache.keys) <= CacheSlots
    /\ Len(cache.keys) > 1 => cache.bytes <= MaxCacheBytes

\* No operation is answered from a table older than the archive was when the
\* operation began, however listing, replacing and caching interleave.
NoStaleAnswers == \A p \in Ops : op[p].fresh

\* The slots are those of SlotPool: the nested opens of an operation share
\* one, which comes back once.
Slots == INSTANCE SlotPool WITH
    Clients <- Ops, Capacity <- MaxConcurrent,
    holders <- {p \in Ops : op[p].held}
OperationsShareSlots == Slots!Spec

\* Every operation ends: nested opens never wait for the slot their own
\* operation holds, even where no deadline would break them off.
OperationsEnd == \A p \in Ops : op[p].at = "run" ~> op[p].at # "run"
=============================================================================
