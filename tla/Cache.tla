------------------------------- MODULE Cache -------------------------------
(***************************************************************************)
(* The two-layer result cache of pkg/cache: an in-memory L1 map with       *)
(* invalidation tombstones over an optional L2 Store (cache.go,            *)
(* invalidate.go).  Goroutines run Get, SetWithTTL and Invalidate, cut     *)
(* where the code can be interrupted: at every read of the clock, every    *)
(* critical section of Cache.mu and every call of the Store.               *)
(*                                                                         *)
(* Several Cache objects (one per operating-system process) may share one  *)
(* Store; each has its own L1 and its own tombstones.                      *)
(*                                                                         *)
(* What a value contains is abstracted to the one thing the properties     *)
(* tell apart, ver: how recent the data is that the value was made from.   *)
(* The history variable epoch counts what superseded the cached value of a *)
(* key.  A value made at epoch e has version e + 1 and brings the epoch    *)
(* there when it lands; an invalidation counts two, so that it supersedes  *)
(* the values under way as well.                                           *)
(***************************************************************************)
EXTENDS Integers, FiniteSets

CONSTANTS
    Keys,           \* the cache keys
    Instances,      \* the Cache objects that share the Store
    Goroutines,     \* the goroutines that call them
    InstanceOf,     \* the Cache object each goroutine calls
    Setters,        \* the goroutines that call SetWithTTL
    Invalidators,   \* the goroutines that call Invalidate
    TTLs,           \* the times to live a setter asks for, 0 for "never expires"
    TombstoneTTL,   \* WithTombstoneTTL, 0 for "retain forever"
    HasStore,       \* whether WithStore installed an L2 store
    StoreFaults,    \* what the store may do wrong, see below
    NoEntry,        \* the absence of an entry
    MaxTime,        \* bound: the clock stops here
    MaxEpoch        \* bound: no Set or Invalidate of a key starts at this epoch

(***************************************************************************)
(* Time 0 is Go's zero time: no expiry, no tombstone, never pruned.        *)
(***************************************************************************)
NoTime == 0
Time == Nat \ {NoTime}

Entry == [ver : Nat, stored : Time, expires : Nat]

(***************************************************************************)
(* "get", "set", "delete": the call returns an error and changes nothing.  *)
(* "leak": Delete reports success and removes nothing, which the Store     *)
(* interface allows.                                                       *)
(***************************************************************************)
Faults == {"get", "set", "delete", "leak"}

(***************************************************************************)
(* The last conjunct is the safety contract of WithTombstoneTTL: a         *)
(* consumer that prunes tombstones lets no entry outlive the retention.    *)
(***************************************************************************)
ASSUME CacheAssumption ==
    /\ Keys # {}
    /\ InstanceOf \in [Goroutines -> Instances]
    /\ Setters \subseteq Goroutines
    /\ Invalidators \subseteq Goroutines
    /\ TTLs \subseteq Nat
    /\ TombstoneTTL \in Nat
    /\ HasStore \in BOOLEAN
    /\ StoreFaults \subseteq Faults
    /\ NoEntry \notin Entry
    /\ MaxTime \in Nat
    /\ MaxEpoch \in Nat
    /\ TombstoneTTL > 0 => \A ttl \in TTLs : 0 < ttl /\ ttl <= TombstoneTTL

VARIABLES
    clock,          \* what Cache.clock returns
    l1,             \* Cache.l1 of every instance
    tombstones,     \* Cache.tombstones of every instance
    lastPrune,      \* Cache.lastPrune of every instance
    store,          \* the bytes the shared Store holds, decoded
    pc,             \* where each goroutine is, or how its call returned
    op,             \* the locals of each goroutine's call
    epoch,          \* history: how often each key's value was superseded
    pruned          \* history: the latest tombstone pruning dropped

cacheVars == <<clock, l1, tombstones, lastPrune, store, pc, op, epoch, pruned>>

Returned == {"hit", "miss", "done", "error"}

PCs == {"idle", "getL1", "getL2", "getClock", "getPromote", "setL1", "setL2",
        "invL1", "invL2"} \cup Returned

(***************************************************************************)
(* now is the clock as the call last read it and ent the entry it handles. *)
(* History: since is the epoch of the key when the call began and fetched  *)
(* the instant at which ent was last known to be in the cache.             *)
(***************************************************************************)
Call == [key : Keys, now : Nat, ent : Entry \cup {NoEntry}, since : Nat, fetched : Nat]

TypeOK ==
    /\ clock \in Time
    /\ l1 \in [Instances -> [Keys -> Entry \cup {NoEntry}]]
    /\ tombstones \in [Instances -> [Keys -> Nat]]
    /\ lastPrune \in [Instances -> Nat]
    /\ store \in [Keys -> Entry \cup {NoEntry}]
    /\ pc \in [Goroutines -> PCs]
    /\ op \in [Goroutines -> Call]
    /\ epoch \in [Keys -> Nat]
    /\ pruned \in [Instances -> [Keys -> Nat]]

-----------------------------------------------------------------------------
(* Entries and their validity.                                             *)

ExpiresAt(t, ttl) == IF ttl > 0 THEN t + ttl ELSE NoTime

(* Mutant: the entry is not stamped with the instant of its writing.       *)
NewEntryUnstamped(v, t, ttl) ==
    [ver |-> v, stored |-> NoTime, expires |-> ExpiresAt(t, ttl)]

NewEntry(v, t, ttl) == [ver |-> v, stored |-> t, expires |-> ExpiresAt(t, ttl)]

Expired(e, t) == e.expires # NoTime /\ e.expires <= t

(* Mutant: written at the instant of the invalidation counts as fresh.     *)
TombstonedStrictly(c, k, e) ==
    tombstones[c][k] # NoTime /\ e.stored < tombstones[c][k]

Tombstoned(c, k, e) == tombstones[c][k] # NoTime /\ e.stored <= tombstones[c][k]

validLocked(c, k, e, t) == ~Expired(e, t) /\ ~Tombstoned(c, k, e)

Later(a, b) == IF a >= b THEN a ELSE b

NoCall == [key |-> CHOOSE k \in Keys : TRUE, now |-> NoTime, ent |-> NoEntry,
           since |-> 0, fetched |-> NoTime]

(***************************************************************************)
(* A store may already hold entries an earlier process wrote.              *)
(***************************************************************************)
Init ==
    /\ clock = 1
    /\ l1 = [c \in Instances |-> [k \in Keys |-> NoEntry]]
    /\ tombstones = [c \in Instances |-> [k \in Keys |-> NoTime]]
    /\ lastPrune = [c \in Instances |-> NoTime]
    /\ store \in [Keys -> {NoEntry} \cup
                     (IF HasStore THEN {NewEntry(0, 1, ttl) : ttl \in TTLs} ELSE {})]
    /\ pc = [g \in Goroutines |-> "idle"]
    /\ op = [g \in Goroutines |-> NoCall]
    /\ epoch = [k \in Keys |-> 0]
    /\ pruned = [c \in Instances |-> [k \in Keys |-> NoTime]]

-----------------------------------------------------------------------------
(* Steps shared by the operations.                                         *)

layers == <<l1, tombstones, lastPrune, epoch, pruned>>

Here(g) == InstanceOf[g]

(* A call returns: "hit" with ent, "miss", "done" or "error".              *)
Finish(g, how) == pc' = [pc EXCEPT ![g] = how]

(* The first statement of every operation after its key check.             *)
Begin(g, k, at, e) ==
    /\ pc' = [pc EXCEPT ![g] = at]
    /\ op' = [op EXCEPT ![g] = [key |-> k, now |-> clock, ent |-> e,
                                since |-> epoch[k], fetched |-> clock]]

-----------------------------------------------------------------------------
(* Get.                                                                    *)

GetBegin(g, k) == Begin(g, k, "getL1", NoEntry)

ServableL1(g) ==
    LET cur == l1[Here(g)][op[g].key]
    IN  cur # NoEntry /\ validLocked(Here(g), op[g].key, cur, op[g].now)

GetL1Hit(g) ==
    LET c == Here(g)
        k == op[g].key
    IN  /\ pc[g] = "getL1"
        /\ ServableL1(g)
        /\ op' = [op EXCEPT ![g].ent = l1[c][k]]
        /\ Finish(g, "hit")
        /\ UNCHANGED <<clock, store, layers>>

(* An unservable L1 entry is evicted on the way to the store.              *)
GetL1Miss(g) ==
    LET c == Here(g)
        k == op[g].key
    IN  /\ pc[g] = "getL1"
        /\ ~ServableL1(g)
        /\ l1' = [l1 EXCEPT ![c][k] = NoEntry]
        /\ Finish(g, IF HasStore THEN "getL2" ELSE "miss")
        /\ UNCHANGED <<clock, store, op, tombstones, lastPrune, epoch, pruned>>

GetL2Found(g) ==
    /\ pc[g] = "getL2"
    /\ store[op[g].key] # NoEntry
    /\ op' = [op EXCEPT ![g].ent = store[op[g].key], ![g].fetched = clock]
    /\ pc' = [pc EXCEPT ![g] = "getClock"]
    /\ UNCHANGED <<clock, store, layers>>

GetL2Absent(g) ==
    /\ pc[g] = "getL2"
    /\ store[op[g].key] = NoEntry
    /\ Finish(g, "miss")
    /\ UNCHANGED <<clock, store, op, layers>>

(* The store, or the decoding of what it returned, failed.                 *)
GetL2Error(g) ==
    /\ pc[g] = "getL2"
    /\ "get" \in StoreFaults
    /\ Finish(g, "error")
    /\ UNCHANGED <<clock, store, op, layers>>

(* Mutant: the promotion is judged by the clock at the call's entry.       *)
GetClockAtEntry(g) ==
    /\ pc[g] = "getClock"
    /\ pc' = [pc EXCEPT ![g] = "getPromote"]
    /\ UNCHANGED <<clock, store, op, layers>>

(* The clock is read again: the store call may have taken long.            *)
GetClock(g) ==
    /\ pc[g] = "getClock"
    /\ op' = [op EXCEPT ![g].now = clock]
    /\ pc' = [pc EXCEPT ![g] = "getPromote"]
    /\ UNCHANGED <<clock, store, layers>>

(* Mutant: no freshness guard.                                             *)
NeverKeepsL1(g) == pc[g] # "getPromote"

(* The freshness guard: L1 holds a servable entry that is not older.       *)
KeepsL1(g) ==
    /\ ServableL1(g)
    /\ op[g].ent.stored <= l1[Here(g)][op[g].key].stored

GetKeep(g) ==
    /\ pc[g] = "getPromote"
    /\ KeepsL1(g)
    /\ op' = [op EXCEPT ![g].ent = l1[Here(g)][op[g].key]]
    /\ Finish(g, "hit")
    /\ UNCHANGED <<clock, store, layers>>

GetReject(g) ==
    /\ pc[g] = "getPromote"
    /\ ~KeepsL1(g)
    /\ ~validLocked(Here(g), op[g].key, op[g].ent, op[g].now)
    /\ Finish(g, "miss")
    /\ UNCHANGED <<clock, store, op, layers>>

(* Mutant: the store's answer is promoted without re-validation.           *)
GetPromoteUnchecked(g) ==
    /\ pc[g] = "getPromote"
    /\ ~KeepsL1(g)
    /\ l1' = [l1 EXCEPT ![Here(g)][op[g].key] = op[g].ent]
    /\ Finish(g, "hit")
    /\ UNCHANGED <<clock, store, op, tombstones, lastPrune, epoch, pruned>>

GetPromote(g) ==
    /\ pc[g] = "getPromote"
    /\ ~KeepsL1(g)
    /\ validLocked(Here(g), op[g].key, op[g].ent, op[g].now)
    /\ l1' = [l1 EXCEPT ![Here(g)][op[g].key] = op[g].ent]
    /\ Finish(g, "hit")
    /\ UNCHANGED <<clock, store, op, tombstones, lastPrune, epoch, pruned>>

-----------------------------------------------------------------------------
(* SetWithTTL.                                                             *)

SetBegin(g, k, v, ttl) == Begin(g, k, "setL1", NewEntry(v, clock, ttl))

SetL1(g) ==
    LET c == Here(g)
        k == op[g].key
    IN  /\ pc[g] = "setL1"
        /\ l1' = [l1 EXCEPT ![c][k] = op[g].ent]
        /\ tombstones' = [tombstones EXCEPT ![c][k] = NoTime]
        /\ epoch' = [epoch EXCEPT ![k] = Later(@, op[g].ent.ver)]
        /\ Finish(g, IF HasStore THEN "setL2" ELSE "done")
        /\ UNCHANGED <<clock, store, op, lastPrune, pruned>>

SetL2(g) ==
    /\ pc[g] = "setL2"
    /\ \/ /\ store' = [store EXCEPT ![op[g].key] = op[g].ent]
          /\ Finish(g, "done")
       \/ /\ "set" \in StoreFaults
          /\ store' = store
          /\ Finish(g, "error")
    /\ UNCHANGED <<clock, op, layers>>

-----------------------------------------------------------------------------
(* Invalidate.                                                             *)

InvalidateBegin(g, k) == Begin(g, k, "invL1", NoEntry)

(* pruneTombstonesLocked runs at most once per retention window.           *)
PruneDue(c, t) ==
    /\ TombstoneTTL > 0
    /\ lastPrune[c] = NoTime \/ t - lastPrune[c] >= TombstoneTTL

(* Mutants: a cutoff that forgets the retention, and one that doubles it.  *)
PrunableAtOnce(tomb, t) == tomb # NoTime /\ tomb <= t

PrunableLate(tomb, t) == tomb # NoTime /\ tomb < t - 2 * TombstoneTTL

Prunable(tomb, t) == tomb # NoTime /\ tomb < t - TombstoneTTL

InvalidateL1(g) ==
    LET c == Here(g)
        k == op[g].key
        t == op[g].now
        marked == [tombstones[c] EXCEPT ![k] = t]
        drop == IF PruneDue(c, t) THEN {j \in Keys : Prunable(marked[j], t)} ELSE {}
    IN  /\ pc[g] = "invL1"
        /\ l1' = [l1 EXCEPT ![c][k] = NoEntry]
        /\ tombstones' = [tombstones EXCEPT
                ![c] = [j \in Keys |-> IF j \in drop THEN NoTime ELSE marked[j]]]
        /\ lastPrune' = [lastPrune EXCEPT ![c] = IF PruneDue(c, t) THEN t ELSE @]
        /\ pruned' = [pruned EXCEPT
                ![c] = [j \in Keys |-> IF j \in drop THEN Later(@[j], marked[j]) ELSE @[j]]]
        /\ epoch' = [epoch EXCEPT ![k] = @ + 2]
        /\ Finish(g, IF HasStore THEN "invL2" ELSE "done")
        /\ UNCHANGED <<clock, store, op>>

InvalidateL2(g) ==
    /\ pc[g] = "invL2"
    /\ \/ /\ store' = [store EXCEPT ![op[g].key] = NoEntry]
          /\ Finish(g, "done")
       \/ /\ "leak" \in StoreFaults
          /\ store' = store
          /\ Finish(g, "done")
       \/ /\ "delete" \in StoreFaults
          /\ store' = store
          /\ Finish(g, "error")
    /\ UNCHANGED <<clock, op, layers>>

-----------------------------------------------------------------------------
(* The specification.                                                      *)

(* The body of whatever operation goroutine g is in.                       *)
GetStep(g) ==
    \/ GetL1Hit(g) \/ GetL1Miss(g)
    \/ GetL2Found(g) \/ GetL2Absent(g) \/ GetL2Error(g)
    \/ GetClock(g)
    \/ GetKeep(g) \/ GetReject(g) \/ GetPromote(g)

Step(g) ==
    \/ GetStep(g)
    \/ SetL1(g) \/ SetL2(g)
    \/ InvalidateL1(g) \/ InvalidateL2(g)

(* The callers.                                                            *)
Get(g, k) ==
    /\ pc[g] = "idle"
    /\ GetBegin(g, k)
    /\ UNCHANGED <<clock, store, layers>>

SetWithTTL(g, k, ttl) ==
    /\ pc[g] = "idle"
    /\ g \in Setters
    /\ epoch[k] < MaxEpoch
    /\ SetBegin(g, k, epoch[k] + 1, ttl)
    /\ UNCHANGED <<clock, store, layers>>

Invalidate(g, k) ==
    /\ pc[g] = "idle"
    /\ g \in Invalidators
    /\ epoch[k] < MaxEpoch
    /\ InvalidateBegin(g, k)
    /\ UNCHANGED <<clock, store, layers>>

Return(g) ==
    /\ pc[g] \in Returned
    /\ pc' = [pc EXCEPT ![g] = "idle"]
    /\ op' = [op EXCEPT ![g] = NoCall]
    /\ UNCHANGED <<clock, store, layers>>

Tick ==
    /\ clock < MaxTime
    /\ clock' = clock + 1
    /\ UNCHANGED <<store, pc, op, layers>>

Next ==
    \/ \E g \in Goroutines :
          \/ \E k \in Keys : Get(g, k) \/ Invalidate(g, k)
          \/ \E k \in Keys, ttl \in TTLs : SetWithTTL(g, k, ttl)
          \/ Step(g)
          \/ Return(g)
    \/ Tick

Spec == Init /\ [][Next]_cacheVars

-----------------------------------------------------------------------------
(* Properties.                                                             *)

Hit(g) == pc[g] = "hit"

(***************************************************************************)
(* An entry in L1 was written strictly after its key's last invalidation:  *)
(* Invalidate deletes and marks in one critical section, Set unmarks as it *)
(* writes, and the promotion in Get re-validates under the lock whatever   *)
(* landed while its store call was in flight (cache.go 315-334).           *)
(***************************************************************************)
TombstoneGuardsL1 ==
    \A c \in Instances, k \in Keys :
        l1[c][k] # NoEntry => ~Tombstoned(c, k, l1[c][k])

(***************************************************************************)
(* No hit returns an entry that had already expired when the call took it  *)
(* out of L1 or out of the store, however long the store call blocked      *)
(* (cache.go 17-18, 309-313).                                              *)
(***************************************************************************)
ExpiredNeverServed ==
    \A g \in Goroutines : Hit(g) => ~Expired(op[g].ent, op[g].fetched)

(***************************************************************************)
(* A Get never returns a value that an Invalidate or a newer Set had       *)
(* superseded before the Get began (cache.go 17-20, the freshness guard    *)
(* 321-325, invalidate.go 5-19).                                           *)
(***************************************************************************)
NoStaleServe ==
    \A g \in Goroutines : Hit(g) => op[g].ent.ver >= op[g].since

(***************************************************************************)
(* No step puts an entry into L1 over a newer one: the freshness guard     *)
(* never resurrects an older L2-read entry (cache.go 321-325).             *)
(***************************************************************************)
NeverResurrectOlder ==
    [][\A c \in Instances, k \in Keys :
          l1[c][k] # NoEntry /\ l1'[c][k] # NoEntry
              => l1'[c][k].ver >= l1[c][k].ver]_cacheVars

(***************************************************************************)
(* Within the contract of WithTombstoneTTL "no stale value is ever served" *)
(* (cache.go 130-132).  That is refuted: a Get reads the clock (313)       *)
(* before it takes the lock (318), and in between a tombstone may be       *)
(* pruned at a later instant, at which the value has expired but by the    *)
(* clock of the Get has not (NoStaleServe, MC_Cache_prune_stale.cfg).      *)
(* What does hold: a superseded value is returned only if it has expired   *)
(* while the call was under way.                                           *)
(***************************************************************************)
StaleServeHasExpired ==
    \A g \in Goroutines :
        Hit(g) => op[g].ent.ver >= op[g].since \/ Expired(op[g].ent, clock)

(***************************************************************************)
(* Every value a pruned tombstone would have rejected is itself already    *)
(* expired, wherever it is: in L1, in the store, or in the hands of a      *)
(* goroutine (the safety contract of WithTombstoneTTL, cache.go 119-134).  *)
(***************************************************************************)
Held(c, k) ==
    {l1[c][k], store[k]} \cup
    {op[g].ent : g \in {h \in Goroutines : InstanceOf[h] = c /\ op[h].key = k}}

PruneSafe ==
    \A c \in Instances, k \in Keys :
        \A e \in Held(c, k) \ {NoEntry} : e.stored <= pruned[c][k] => Expired(e, clock)

(***************************************************************************)
(* Pruning bounds the tombstones: an Invalidate leaves none behind that is *)
(* two retention windows older than the instant it works with.             *)
(***************************************************************************)
RetentionBounded ==
    [][\A g \in Goroutines : InvalidateL1(g) =>
          \A j \in Keys : LET tomb == tombstones'[Here(g)][j]
                          IN  tomb # NoTime => tomb > op[g].now - 2 * TombstoneTTL]_cacheVars

=============================================================================
