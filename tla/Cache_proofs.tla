---------------------------- MODULE Cache_proofs ----------------------------
(***************************************************************************)
(* Theorems about Cache for every set of keys, instances and goroutines,   *)
(* every writer, every fault of the store and every run of the clock.      *)
(***************************************************************************)
EXTENDS Cache, TLAPS

(***************************************************************************)
(* TypeOK is inductive together with the fact that a call between its read *)
(* of an entry and its use of it has an entry in hand.                     *)
(***************************************************************************)
Carrying == {"getClock", "getPromote", "setL1", "setL2", "hit"}

HandlesEntry == \A g \in Goroutines : pc[g] \in Carrying => op[g].ent \in Entry

Typed == TypeOK /\ HandlesEntry

LEMMA NewEntryType ==
    ASSUME NEW v \in Nat, NEW t \in Time, NEW ttl \in Nat
    PROVE  NewEntry(v, t, ttl) \in Entry
  BY DEF NewEntry, ExpiresAt, Entry, Time, NoTime

LEMMA LaterType ==
    ASSUME NEW a \in Nat, NEW b \in Nat
    PROVE  Later(a, b) \in Nat /\ Later(a, b) >= a /\ Later(a, b) >= b
  BY DEF Later

LEMMA InitTyped == Init => Typed
<1> SUFFICES ASSUME Init PROVE Typed
  OBVIOUS
<1> USE CacheAssumption
<1>1. \A ttl \in TTLs : NewEntry(0, 1, ttl) \in Entry
  BY NewEntryType DEF Time, NoTime
<1>2. store \in [Keys -> Entry \cup {NoEntry}]
  BY <1>1 DEF Init
<1>3. NoCall \in Call
  BY DEF NoCall, Call, NoTime
<1>4. TypeOK
  BY <1>2, <1>3 DEF Init, TypeOK, Time, NoTime, PCs, Returned
<1>5. HandlesEntry
  BY DEF Init, HandlesEntry, Carrying
<1> QED
  BY <1>4, <1>5 DEF Typed

LEMMA StepTyped == Typed /\ [Next]_cacheVars => Typed'
<1> SUFFICES ASSUME Typed, [Next]_cacheVars PROVE Typed'
  OBVIOUS
<1> USE CacheAssumption DEF Typed
<1> USE DEF TypeOK, HandlesEntry, Carrying, layers, Here, Finish, PCs, Returned
<1>1. ASSUME NEW g \in Goroutines, NEW k \in Keys, Get(g, k) PROVE Typed'
  BY <1>1 DEF Get, GetBegin, Begin, Call, Time
<1>2. ASSUME NEW g \in Goroutines, NEW k \in Keys, Invalidate(g, k) PROVE Typed'
  BY <1>2 DEF Invalidate, InvalidateBegin, Begin, Call, Time
<1>3. ASSUME NEW g \in Goroutines, NEW k \in Keys, NEW ttl \in TTLs, SetWithTTL(g, k, ttl)
      PROVE  Typed'
  <2>1. epoch[k] + 1 \in Nat /\ clock \in Time /\ ttl \in Nat
    OBVIOUS
  <2>2. NewEntry(epoch[k] + 1, clock, ttl) \in Entry
    BY <2>1, NewEntryType
  <2> QED
    BY <1>3, <2>2 DEF SetWithTTL, SetBegin, Begin, Call, Time
<1>4. ASSUME NEW g \in Goroutines, GetL1Hit(g) PROVE Typed'
  <2>1. l1[Here(g)][op[g].key] \in Entry
    BY <1>4 DEF GetL1Hit, ServableL1, Call
  <2> QED
    BY <1>4, <2>1 DEF GetL1Hit, Call
<1>5. ASSUME NEW g \in Goroutines, GetL1Miss(g) PROVE Typed'
  BY <1>5 DEF GetL1Miss, Call
<1>6. ASSUME NEW g \in Goroutines, GetL2Found(g) PROVE Typed'
  BY <1>6 DEF GetL2Found, Call, Time
<1>7. ASSUME NEW g \in Goroutines, GetL2Absent(g) \/ GetL2Error(g) PROVE Typed'
  BY <1>7 DEF GetL2Absent, GetL2Error
<1>8. ASSUME NEW g \in Goroutines, GetClock(g) PROVE Typed'
  BY <1>8 DEF GetClock, Call, Time
<1>9. ASSUME NEW g \in Goroutines, GetKeep(g) PROVE Typed'
  <2>1. l1[Here(g)][op[g].key] \in Entry
    BY <1>9 DEF GetKeep, KeepsL1, ServableL1, Call
  <2> QED
    BY <1>9, <2>1 DEF GetKeep, Call
<1>10. ASSUME NEW g \in Goroutines, GetReject(g) PROVE Typed'
  BY <1>10 DEF GetReject
<1>11. ASSUME NEW g \in Goroutines, GetPromote(g) PROVE Typed'
  BY <1>11 DEF GetPromote, Call
<1>12. ASSUME NEW g \in Goroutines, SetL1(g) PROVE Typed'
  <2>1. Later(epoch[op[g].key], op[g].ent.ver) \in Nat
    BY <1>12, LaterType DEF SetL1, Call, Entry
  <2> QED
    BY <1>12, <2>1 DEF SetL1, Call, NoTime
<1>13. ASSUME NEW g \in Goroutines, SetL2(g) PROVE Typed'
  BY <1>13 DEF SetL2, Call
<1>14. ASSUME NEW g \in Goroutines, InvalidateL1(g) PROVE Typed'
  <2> DEFINE c == Here(g)
             k == op[g].key
             t == op[g].now
             marked == [tombstones[c] EXCEPT ![k] = t]
             drop == IF PruneDue(c, t) THEN {j \in Keys : Prunable(marked[j], t)} ELSE {}
  <2>1. c \in Instances /\ k \in Keys /\ t \in Nat
    BY DEF Call
  <2>2. marked \in [Keys -> Nat]
    BY <2>1
  <2>3. tombstones' \in [Instances -> [Keys -> Nat]]
    <3>1. [j \in Keys |-> IF j \in drop THEN NoTime ELSE marked[j]] \in [Keys -> Nat]
      BY <2>2 DEF NoTime
    <3> QED
      BY <1>14, <2>1, <3>1 DEF InvalidateL1
  <2>4. pruned' \in [Instances -> [Keys -> Nat]]
    <3>1. \A j \in Keys : Later(pruned[c][j], marked[j]) \in Nat
      <4> TAKE j \in Keys
      <4>1. marked[j] \in Nat /\ pruned[c][j] \in Nat
        BY <2>1, <2>2
      <4> QED
        BY <4>1, LaterType
    <3> DEFINE newly == [j \in Keys |-> IF j \in drop THEN Later(pruned[c][j], marked[j])
                                                     ELSE pruned[c][j]]
    <3>2. newly \in [Keys -> Nat]
      BY <2>1, <3>1
    <3>3. pruned' = [pruned EXCEPT ![c] = newly]
      BY <1>14 DEF InvalidateL1
    <3> HIDE DEF newly
    <3> QED
      BY <2>1, <3>2, <3>3
  <2>5. lastPrune' \in [Instances -> Nat]
    BY <1>14, <2>1 DEF InvalidateL1
  <2>6. l1' \in [Instances -> [Keys -> Entry \cup {NoEntry}]]
    BY <1>14, <2>1 DEF InvalidateL1
  <2> QED
    BY <1>14, <2>1, <2>3, <2>4, <2>5, <2>6 DEF InvalidateL1
<1>15. ASSUME NEW g \in Goroutines, InvalidateL2(g) PROVE Typed'
  BY <1>15 DEF InvalidateL2, Call
<1>16. ASSUME NEW g \in Goroutines, Return(g) PROVE Typed'
  BY <1>16 DEF Return, NoCall, Call, NoTime
<1>17. CASE Tick
  BY <1>17 DEF Tick, Time, NoTime
<1>18. CASE UNCHANGED cacheVars
  BY <1>18 DEF cacheVars
<1> QED
  BY <1>1, <1>2, <1>3, <1>4, <1>5, <1>6, <1>7, <1>8, <1>9, <1>10, <1>11, <1>12,
     <1>13, <1>14, <1>15, <1>16, <1>17, <1>18 DEF Next, Step, GetStep

LEMMA AlwaysTyped == Spec => []Typed
  BY InitTyped, StepTyped, PTL DEF Spec

(***************************************************************************)
(* Every reachable state of the cache is well typed.                       *)
(***************************************************************************)
THEOREM TypeCorrect == Spec => []TypeOK
  BY AlwaysTyped, PTL DEF Typed

-----------------------------------------------------------------------------

(***************************************************************************)
(* Whatever Sets, Invalidates and promotions interleave, no entry in L1    *)
(* was written at or before its key's last invalidation.                   *)
(***************************************************************************)
LEMMA StepGuarded == Typed /\ TombstoneGuardsL1 /\ [Next]_cacheVars => TombstoneGuardsL1'
<1> SUFFICES ASSUME Typed, TombstoneGuardsL1, [Next]_cacheVars,
                    NEW c \in Instances, NEW k \in Keys, l1'[c][k] # NoEntry
             PROVE  ~Tombstoned(c, k, l1[c][k])'
  BY DEF TombstoneGuardsL1
<1> USE CacheAssumption DEF Typed, TypeOK, Tombstoned, Here, Call
<1>1. CASE l1'[c][k] = l1[c][k] /\ tombstones'[c][k] \in {tombstones[c][k], NoTime}
  BY <1>1 DEF TombstoneGuardsL1
<1>2. ASSUME NEW g \in Goroutines, NEW j \in Keys,
             Get(g, j) \/ Invalidate(g, j) \/ \E ttl \in TTLs : SetWithTTL(g, j, ttl)
      PROVE  UNCHANGED <<l1, tombstones>>
  BY <1>2 DEF Get, Invalidate, SetWithTTL, layers
<1>3. ASSUME NEW g \in Goroutines,
             \/ GetL1Hit(g) \/ GetL2Found(g) \/ GetL2Absent(g) \/ GetL2Error(g) \/ GetClock(g)
             \/ GetKeep(g) \/ GetReject(g) \/ SetL2(g) \/ InvalidateL2(g) \/ Return(g)
      PROVE  UNCHANGED <<l1, tombstones>>
  BY <1>3 DEF GetL1Hit, GetL2Found, GetL2Absent, GetL2Error, GetClock, GetKeep, GetReject,
              SetL2, InvalidateL2, Return, layers
<1>4. ASSUME NEW g \in Goroutines, GetL1Miss(g) PROVE ~Tombstoned(c, k, l1[c][k])'
  BY <1>1, <1>4 DEF GetL1Miss
<1>5. ASSUME NEW g \in Goroutines, GetPromote(g) PROVE ~Tombstoned(c, k, l1[c][k])'
  <2>1. CASE c = Here(g) /\ k = op[g].key
    <3>1. l1'[c][k] = op[g].ent /\ tombstones' = tombstones
      BY <1>5, <2>1 DEF GetPromote
    <3>2. ~Tombstoned(c, k, op[g].ent)
      BY <1>5, <2>1 DEF GetPromote, validLocked
    <3> QED
      BY <3>1, <3>2
  <2>2. CASE ~(c = Here(g) /\ k = op[g].key)
    BY <1>1, <1>5, <2>2 DEF GetPromote
  <2> QED
    BY <2>1, <2>2
<1>6. ASSUME NEW g \in Goroutines, SetL1(g) PROVE ~Tombstoned(c, k, l1[c][k])'
  <2>1. CASE c = Here(g) /\ k = op[g].key
    BY <1>6, <2>1 DEF SetL1
  <2>2. CASE ~(c = Here(g) /\ k = op[g].key)
    BY <1>1, <1>6, <2>2 DEF SetL1
  <2> QED
    BY <2>1, <2>2
<1>7. ASSUME NEW g \in Goroutines, InvalidateL1(g) PROVE ~Tombstoned(c, k, l1[c][k])'
  <2>1. ~(c = Here(g) /\ k = op[g].key)
    BY <1>7 DEF InvalidateL1
  <2>2. l1'[c][k] = l1[c][k]
    BY <1>7, <2>1 DEF InvalidateL1
  <2>3. tombstones'[c][k] \in {tombstones[c][k], NoTime}
    BY <1>7, <2>1 DEF InvalidateL1
  <2> QED
    BY <1>1, <2>2, <2>3
<1>8. CASE Tick \/ UNCHANGED cacheVars
  BY <1>1, <1>8 DEF Tick, cacheVars, layers
<1> QED
  BY <1>1, <1>2, <1>3, <1>4, <1>5, <1>6, <1>7, <1>8 DEF Next, Step, GetStep

(* No L1 entry is as old as the tombstone of its key, in any reachable state. *)
THEOREM NoTombstonedL1 == Spec => []TombstoneGuardsL1
<1>1. Init => TombstoneGuardsL1
  BY DEF Init, TombstoneGuardsL1
<1> QED
  BY <1>1, AlwaysTyped, StepGuarded, PTL DEF Spec

-----------------------------------------------------------------------------

(***************************************************************************)
(* However long a store call blocks and whatever happens meanwhile, a hit  *)
(* returns an entry that had not expired when it was taken from the cache. *)
(* A call never judges by a clock older than the entry it judges.          *)
(***************************************************************************)
FetchedFirst ==
    \A g \in Goroutines :
        pc[g] \in {"getL1", "getPromote"} => op[g].fetched <= op[g].now

FetchedInPast == \A g \in Goroutines : op[g].fetched <= clock

Unexpired == FetchedFirst /\ FetchedInPast /\ ExpiredNeverServed

LEMMA StepUnexpired == Typed /\ Unexpired /\ [Next]_cacheVars => Unexpired'
<1> SUFFICES ASSUME Typed, Unexpired, [Next]_cacheVars,
                    NEW h \in Goroutines
             PROVE  /\ (pc[h] \in {"getL1", "getPromote"} => op[h].fetched <= op[h].now)'
                    /\ (op[h].fetched <= clock)'
                    /\ (Hit(h) => ~Expired(op[h].ent, op[h].fetched))'
  BY DEF Unexpired, FetchedFirst, FetchedInPast, ExpiredNeverServed
<1> DEFINE Goal == /\ (pc[h] \in {"getL1", "getPromote"} => op[h].fetched <= op[h].now)'
                   /\ (op[h].fetched <= clock)'
                   /\ (Hit(h) => ~Expired(op[h].ent, op[h].fetched))'
<1> USE CacheAssumption DEF Typed, TypeOK, HandlesEntry, Carrying, Call, Time, NoTime
<1>1. CASE pc'[h] = pc[h] /\ op'[h] = op[h] /\ clock' \in {clock, clock + 1}
  BY <1>1 DEF Unexpired, FetchedFirst, FetchedInPast, ExpiredNeverServed, Hit, Expired
<1>2. CASE /\ pc'[h] \notin {"getL1", "getPromote", "hit"}
           /\ op'[h] = op[h] \/ op'[h].fetched \in {clock, NoTime}
           /\ clock' = clock
  BY <1>2 DEF Unexpired, FetchedInPast, Hit
<1>3. ASSUME NEW g \in Goroutines, NEW k \in Keys,
             Get(g, k) \/ Invalidate(g, k) \/ \E ttl \in TTLs : SetWithTTL(g, k, ttl)
      PROVE  Goal
  <2>1. CASE g = h
    BY <1>3, <2>1 DEF Get, GetBegin, Invalidate, InvalidateBegin, SetWithTTL, SetBegin, Begin, Hit
  <2>2. CASE g # h
    BY <1>1, <1>3, <2>2 DEF Get, GetBegin, Invalidate, InvalidateBegin, SetWithTTL, SetBegin, Begin
  <2> QED
    BY <2>1, <2>2
<1>4. ASSUME NEW g \in Goroutines, GetL1Hit(g) \/ GetKeep(g) PROVE Goal
  <2>1. CASE g = h
    <3>1. /\ op[h].fetched <= op[h].now
          /\ op'[h].fetched = op[h].fetched
          /\ clock' = clock
          /\ pc'[h] = "hit"
      BY <1>4, <2>1 DEF GetL1Hit, GetKeep, Unexpired, FetchedFirst, Finish
    <3>2. op'[h].ent \in Entry /\ ~Expired(op'[h].ent, op[h].now)
      BY <1>4, <2>1 DEF GetL1Hit, GetKeep, KeepsL1, ServableL1, validLocked, Here
    <3>3. ~Expired(op'[h].ent, op[h].fetched)
      BY <3>1, <3>2 DEF Expired, Entry
    <3> QED
      BY <3>1, <3>3 DEF Unexpired, FetchedInPast
  <2>2. CASE g # h
    BY <1>1, <1>4, <2>2 DEF GetL1Hit, GetKeep, Finish
  <2> QED
    BY <2>1, <2>2
<1>5. ASSUME NEW g \in Goroutines,
             \/ GetL1Miss(g) \/ GetL2Found(g) \/ GetL2Absent(g) \/ GetL2Error(g) \/ GetReject(g)
             \/ SetL1(g) \/ SetL2(g) \/ InvalidateL1(g) \/ InvalidateL2(g) \/ Return(g)
      PROVE  Goal
  <2>1. CASE g = h
    BY <1>2, <1>5, <2>1 DEF GetL1Miss, GetL2Found, GetL2Absent, GetL2Error, GetReject,
       SetL1, SetL2, InvalidateL1, InvalidateL2, Return, NoCall, Finish
  <2>2. CASE g # h
    BY <1>1, <1>5, <2>2 DEF GetL1Miss, GetL2Found, GetL2Absent, GetL2Error, GetReject,
       SetL1, SetL2, InvalidateL1, InvalidateL2, Return, Finish
  <2> QED
    BY <2>1, <2>2
<1>6. ASSUME NEW g \in Goroutines, GetClock(g) PROVE Goal
  <2>1. CASE g = h
    BY <1>6, <2>1 DEF GetClock, Unexpired, FetchedInPast, Hit
  <2>2. CASE g # h
    BY <1>1, <1>6, <2>2 DEF GetClock
  <2> QED
    BY <2>1, <2>2
<1>7. ASSUME NEW g \in Goroutines, GetPromote(g) PROVE Goal
  <2>1. CASE g = h
    <3>1. /\ op[h].fetched <= op[h].now
          /\ op' = op
          /\ clock' = clock
          /\ pc'[h] = "hit"
      BY <1>7, <2>1 DEF GetPromote, Unexpired, FetchedFirst, Finish
    <3>2. op[h].ent \in Entry /\ ~Expired(op[h].ent, op[h].now)
      BY <1>7, <2>1 DEF GetPromote, validLocked
    <3>3. ~Expired(op[h].ent, op[h].fetched)
      BY <3>1, <3>2 DEF Expired, Entry
    <3> QED
      BY <3>1, <3>3 DEF Unexpired, FetchedInPast
  <2>2. CASE g # h
    BY <1>1, <1>7, <2>2 DEF GetPromote, Finish
  <2> QED
    BY <2>1, <2>2
<1>8. CASE Tick \/ UNCHANGED cacheVars
  BY <1>1, <1>8 DEF Tick, cacheVars
<1> QED
  BY <1>3, <1>4, <1>5, <1>6, <1>7, <1>8 DEF Next, Step, GetStep

(* No Get returns an entry that had expired when it took its decision.     *)
THEOREM ServedUnexpired == Spec => []ExpiredNeverServed
<1>1. Init => Unexpired
  BY DEF Init, Unexpired, FetchedFirst, FetchedInPast, ExpiredNeverServed, Hit, NoCall, NoTime
<1>2. Unexpired => ExpiredNeverServed
  BY DEF Unexpired
<1> QED
  BY <1>1, <1>2, AlwaysTyped, StepUnexpired, PTL DEF Spec

-----------------------------------------------------------------------------

(***************************************************************************)
(* Under the contract of WithTombstoneTTL (in CacheAssumption) every value *)
(* that a pruned tombstone would have rejected has expired, wherever it    *)
(* is.  A tombstone is pruned only when it is older than the retention,    *)
(* and no entry outlives the retention.                                    *)
(***************************************************************************)
LivesAtMost(e) ==
    e # NoEntry /\ TombstoneTTL > 0
        => e.expires # NoTime /\ e.expires <= e.stored + TombstoneTTL

Lifetimes ==
    /\ \A c \in Instances, k \in Keys : LivesAtMost(l1[c][k])
    /\ \A k \in Keys : LivesAtMost(store[k])
    /\ \A g \in Goroutines : LivesAtMost(op[g].ent)

NowInPast == \A g \in Goroutines : op[g].now <= clock

PrunedLongAgo ==
    \A c \in Instances, k \in Keys :
        pruned[c][k] # NoTime => TombstoneTTL > 0 /\ pruned[c][k] + TombstoneTTL < clock

Retained == Lifetimes /\ NowInPast /\ PrunedLongAgo

LEMMA NewEntryLives ==
    ASSUME NEW v \in Nat, NEW t \in Time, NEW ttl \in TTLs
    PROVE  LivesAtMost(NewEntry(v, t, ttl))
  BY CacheAssumption DEF LivesAtMost, NewEntry, ExpiresAt, Time, NoTime

LEMMA StepLifetimes == Typed /\ Lifetimes /\ [Next]_cacheVars => Lifetimes'
<1> SUFFICES ASSUME Typed, Lifetimes, [Next]_cacheVars PROVE Lifetimes'
  OBVIOUS
<1> USE CacheAssumption DEF Lifetimes, Typed, TypeOK, layers, Here
<1>0. LivesAtMost(NoEntry)
  BY DEF LivesAtMost
<1>1. ASSUME NEW g \in Goroutines, NEW k \in Keys, Get(g, k) \/ Invalidate(g, k)
      PROVE  Lifetimes'
  <2>1. \A h \in Goroutines : op'[h].ent \in {op[h].ent, NoEntry}
    <3>1. \E at \in PCs : Begin(g, k, at, NoEntry)
      BY <1>1 DEF Get, GetBegin, Invalidate, InvalidateBegin, PCs
    <3> QED
      BY <3>1 DEF Begin
  <2>2. UNCHANGED <<l1, store>>
    BY <1>1 DEF Get, Invalidate
  <2> QED
    BY <1>0, <2>1, <2>2 DEF LivesAtMost
<1>2. ASSUME NEW g \in Goroutines, NEW k \in Keys, NEW ttl \in TTLs, SetWithTTL(g, k, ttl)
      PROVE  Lifetimes'
  <2> DEFINE new == NewEntry(epoch[k] + 1, clock, ttl)
  <2>1. LivesAtMost(new)
    <3>1. epoch[k] + 1 \in Nat /\ clock \in Time
      OBVIOUS
    <3> QED
      BY <3>1, NewEntryLives
  <2>2. \A h \in Goroutines : op'[h].ent \in {op[h].ent, new}
    BY <1>2 DEF SetWithTTL, SetBegin, Begin
  <2>3. UNCHANGED <<l1, store>>
    BY <1>2 DEF SetWithTTL
  <2> HIDE DEF new
  <2> QED
    BY <2>1, <2>2, <2>3 DEF LivesAtMost
<1>3. ASSUME NEW g \in Goroutines, GetL1Hit(g) \/ GetL2Found(g) \/ GetKeep(g)
      PROVE  Lifetimes'
  <2>1. op[g].key \in Keys /\ InstanceOf[g] \in Instances
    BY DEF Call
  <2>2. \A h \in Goroutines :
            op'[h].ent \in {op[h].ent, l1[InstanceOf[g]][op[g].key], store[op[g].key]}
    <3>1. CASE GetL1Hit(g)
      BY <2>1, <3>1 DEF GetL1Hit
    <3>2. CASE GetL2Found(g)
      BY <2>1, <3>2 DEF GetL2Found
    <3>3. CASE GetKeep(g)
      BY <2>1, <3>3 DEF GetKeep
    <3> QED
      BY <1>3, <3>1, <3>2, <3>3
  <2>3. UNCHANGED <<l1, store>>
    BY <1>3 DEF GetL1Hit, GetL2Found, GetKeep
  <2> QED
    BY <2>1, <2>2, <2>3 DEF LivesAtMost
<1>4. ASSUME NEW g \in Goroutines,
             GetL1Miss(g) \/ GetPromote(g) \/ SetL1(g) \/ InvalidateL1(g)
      PROVE  Lifetimes'
  <2>1. \A c \in Instances, k \in Keys : l1'[c][k] \in {l1[c][k], op[g].ent, NoEntry}
    <3>1. op[g].key \in Keys /\ InstanceOf[g] \in Instances
      BY DEF Call
    <3>2. CASE GetL1Miss(g)
      BY <3>1, <3>2 DEF GetL1Miss
    <3>3. CASE GetPromote(g)
      BY <3>1, <3>3 DEF GetPromote
    <3>4. CASE SetL1(g)
      BY <3>1, <3>4 DEF SetL1
    <3>5. CASE InvalidateL1(g)
      BY <3>1, <3>5 DEF InvalidateL1
    <3> QED
      BY <1>4, <3>2, <3>3, <3>4, <3>5
  <2>2. UNCHANGED <<op, store>>
    BY <1>4 DEF GetL1Miss, GetPromote, SetL1, InvalidateL1
  <2> QED
    BY <1>0, <2>1, <2>2 DEF LivesAtMost
<1>5. ASSUME NEW g \in Goroutines, SetL2(g) \/ InvalidateL2(g) PROVE Lifetimes'
  <2>1. \A k \in Keys : store'[k] \in {store[k], op[g].ent, NoEntry}
    BY <1>5 DEF SetL2, InvalidateL2, Call
  <2>2. UNCHANGED <<op, l1>>
    BY <1>5 DEF SetL2, InvalidateL2
  <2> QED
    BY <1>0, <2>1, <2>2 DEF LivesAtMost
<1>6. ASSUME NEW g \in Goroutines,
             GetL2Absent(g) \/ GetL2Error(g) \/ GetClock(g) \/ GetReject(g) \/ Return(g)
      PROVE  Lifetimes'
  <2>1. \A h \in Goroutines : op'[h].ent \in {op[h].ent, NoEntry}
    BY <1>6 DEF GetL2Absent, GetL2Error, GetClock, GetReject, Return, NoCall, Call
  <2>2. UNCHANGED <<l1, store>>
    BY <1>6 DEF GetL2Absent, GetL2Error, GetClock, GetReject, Return
  <2> QED
    BY <1>0, <2>1, <2>2 DEF LivesAtMost
<1>7. CASE Tick \/ UNCHANGED cacheVars
  BY <1>7 DEF Tick, cacheVars, LivesAtMost
<1> QED
  BY <1>1, <1>2, <1>3, <1>4, <1>5, <1>6, <1>7 DEF Next, Step, GetStep

LEMMA StepPruned == Typed /\ Retained /\ [Next]_cacheVars => (NowInPast /\ PrunedLongAgo)'
<1> SUFFICES ASSUME Typed, Retained, [Next]_cacheVars PROVE (NowInPast /\ PrunedLongAgo)'
  OBVIOUS
<1> USE CacheAssumption DEF NowInPast, PrunedLongAgo, Retained, Typed, TypeOK, Time, NoTime
<1>1. CASE pruned' = pruned /\ clock' \in {clock, clock + 1}
           /\ \A h \in Goroutines : op'[h].now \in {op[h].now, clock, NoTime}
  <2>1. clock' >= clock /\ clock \in Nat /\ clock' \in Nat
    BY <1>1
  <2>2. \A h \in Goroutines : op[h].now \in Nat /\ op[h].now <= clock
    BY DEF Call
  <2>3. NowInPast'
    <3> SUFFICES ASSUME NEW h \in Goroutines PROVE op'[h].now <= clock'
      BY DEF NowInPast
    <3>1. CASE op'[h].now = op[h].now
      BY <2>1, <2>2, <3>1
    <3>2. CASE op'[h].now \in {clock, NoTime}
      BY <2>1, <3>2
    <3> QED
      BY <1>1, <3>1, <3>2
  <2>4. PrunedLongAgo'
    BY <1>1, <2>1
  <2> QED
    BY <2>3, <2>4
<1>2. ASSUME NEW g \in Goroutines, NEW k \in Keys,
             Get(g, k) \/ Invalidate(g, k) \/ \E ttl \in TTLs : SetWithTTL(g, k, ttl)
      PROVE  (NowInPast /\ PrunedLongAgo)'
  <2>1. UNCHANGED <<pruned, clock>>
    BY <1>2 DEF Get, Invalidate, SetWithTTL, layers
  <2>2. \A h \in Goroutines : op'[h].now \in {op[h].now, clock, NoTime}
    BY <1>2 DEF Get, GetBegin, Invalidate, InvalidateBegin, SetWithTTL, SetBegin, Begin
  <2> QED
    BY <1>1, <2>1, <2>2
<1>3. ASSUME NEW g \in Goroutines, GetStep(g) \/ Return(g)
      PROVE  (NowInPast /\ PrunedLongAgo)'
  <2>1. UNCHANGED <<pruned, clock>>
    BY <1>3 DEF GetStep, GetL1Hit, GetL1Miss, GetL2Found, GetL2Absent, GetL2Error, GetClock,
       GetKeep, GetReject, GetPromote, Return, layers
  <2>2. \A h \in Goroutines : op'[h].now \in {op[h].now, clock, NoTime}
    <3>1. CASE \/ GetL1Hit(g)
               \/ GetKeep(g)
               \/ GetL2Found(g)
      <4>1. CASE GetL1Hit(g)
        BY <4>1 DEF GetL1Hit
      <4>2. CASE GetKeep(g)
        BY <4>2 DEF GetKeep
      <4>3. CASE GetL2Found(g)
        BY <4>3 DEF GetL2Found
      <4> QED
        BY <3>1, <4>1, <4>2, <4>3
    <3>2. CASE GetClock(g)
      BY <3>2 DEF GetClock
    <3>3. CASE GetL1Miss(g) \/ GetL2Absent(g) \/ GetL2Error(g) \/ GetReject(g) \/ GetPromote(g)
      BY <3>3 DEF GetL1Miss, GetL2Absent, GetL2Error, GetReject, GetPromote
    <3>4. CASE Return(g)
      BY <3>4 DEF Return, NoCall
    <3> QED
      BY <1>3, <3>1, <3>2, <3>3, <3>4 DEF GetStep
  <2> QED
    BY <1>1, <2>1, <2>2
<1>4. ASSUME NEW g \in Goroutines, SetL1(g) \/ SetL2(g) \/ InvalidateL2(g)
      PROVE  (NowInPast /\ PrunedLongAgo)'
  BY <1>1, <1>4 DEF SetL1, SetL2, InvalidateL2, layers
<1>5. ASSUME NEW g \in Goroutines, InvalidateL1(g) PROVE (NowInPast /\ PrunedLongAgo)'
  <2>1. NowInPast'
    BY <1>5 DEF InvalidateL1
  <2>2. ASSUME NEW c \in Instances, NEW k \in Keys, pruned'[c][k] # pruned[c][k]
        PROVE  /\ TombstoneTTL > 0
               /\ pruned'[c][k] + TombstoneTTL < clock
    <3> DEFINE t == op[g].now
               marked == [tombstones[c] EXCEPT ![op[g].key] = t]
    <3>1. c = Here(g)
      BY <1>5, <2>2 DEF InvalidateL1, Here
    <3>2. /\ PruneDue(c, t)
          /\ Prunable(marked[k], t)
          /\ pruned'[c][k] = Later(pruned[c][k], marked[k])
      BY <1>5, <2>2, <3>1 DEF InvalidateL1, Here
    <3>3. TombstoneTTL > 0
      BY <3>2 DEF PruneDue
    <3>4. t \in Nat /\ t <= clock /\ marked[k] \in Nat /\ pruned[c][k] \in Nat
      BY DEF Call
    <3>5. marked[k] + TombstoneTTL < clock
      BY <3>2, <3>3, <3>4 DEF Prunable
    <3>6. pruned'[c][k] = marked[k]
      BY <2>2, <3>2, <3>4 DEF Later
    <3> QED
      BY <3>3, <3>5, <3>6
  <2>3. clock' = clock
    BY <1>5 DEF InvalidateL1
  <2>4. PrunedLongAgo'
    BY <2>2, <2>3
  <2> QED
    BY <2>1, <2>4
<1>6. CASE Tick \/ UNCHANGED cacheVars
  BY <1>1, <1>6 DEF Tick, cacheVars, layers
<1> QED
  BY <1>2, <1>3, <1>4, <1>5, <1>6 DEF Next, Step

LEMMA RetainedIsSafe == Typed /\ Retained => PruneSafe
<1> SUFFICES ASSUME Typed, Retained,
                    NEW c \in Instances, NEW k \in Keys,
                    NEW e \in Held(c, k) \ {NoEntry}, e.stored <= pruned[c][k]
             PROVE  Expired(e, clock)
  BY DEF PruneSafe
<1> USE DEF Typed, TypeOK, Call
<1>1. e \in Entry /\ LivesAtMost(e)
  BY DEF Held, Retained, Lifetimes
<1>2. e.stored \in Nat \ {NoTime} /\ e.expires \in Nat /\ pruned[c][k] \in Nat /\ clock \in Nat
  BY <1>1 DEF Entry, Time
<1>3. TombstoneTTL \in Nat
  BY CacheAssumption
<1>4. pruned[c][k] # NoTime
  BY <1>2 DEF NoTime
<1>5. TombstoneTTL > 0 /\ pruned[c][k] + TombstoneTTL < clock
  BY <1>4 DEF Retained, PrunedLongAgo
<1>6. e.expires # NoTime /\ e.expires <= e.stored + TombstoneTTL
  BY <1>1, <1>5 DEF LivesAtMost
<1> QED
  BY <1>2, <1>3, <1>5, <1>6 DEF Expired

LEMMA AlwaysRetained == Spec => []Retained
<1>1. Init => Retained
  <2> SUFFICES ASSUME Init PROVE Retained
    OBVIOUS
  <2>1. \A ttl \in TTLs : LivesAtMost(NewEntry(0, 1, ttl))
    BY NewEntryLives DEF Time, NoTime
  <2>2. Lifetimes
    BY <2>1 DEF Init, Lifetimes, LivesAtMost, NoCall
  <2>3. NowInPast /\ PrunedLongAgo
    BY DEF Init, NowInPast, PrunedLongAgo, NoCall, NoTime
  <2> QED
    BY <2>2, <2>3 DEF Retained
<1>2. Typed /\ Retained /\ [Next]_cacheVars => Retained'
  BY StepLifetimes, StepPruned DEF Retained
<1> QED
  BY <1>1, <1>2, AlwaysTyped, PTL DEF Spec

(* What a pruned tombstone would have rejected has expired.                *)
THEOREM PruningIsSafe == Spec => []PruneSafe
  BY AlwaysRetained, AlwaysTyped, RetainedIsSafe, PTL

-----------------------------------------------------------------------------
(***************************************************************************)
(* Staleness.  Entries are only ever moved, between the store, the hands   *)
(* of goroutines and L1, and a Set alone makes a new one; where one        *)
(* goroutine writes, it makes them in the order of their versions.         *)
(***************************************************************************)
OneWriter == \A g, h \in Setters \cup Invalidators : g = h

OneTTL == \A a, b \in TTLs : a = b

Holds(k, e) ==
    \/ \E c \in Instances : e = l1[c][k]
    \/ e = store[k]
    \/ \E g \in Goroutines : op[g].key = k /\ e = op[g].ent

Made(g, k, e) ==
    \E ttl \in TTLs : SetWithTTL(g, k, ttl) /\ e = NewEntry(epoch[k] + 1, clock, ttl)

LEMMA HandsMove ==
    ASSUME Typed, [Next]_cacheVars, NEW h \in Goroutines, op'[h].ent \in Entry
    PROVE  LET k == op'[h].key
           IN  Holds(k, op'[h].ent) \/ \E g \in Setters : Made(g, k, op'[h].ent)
<1> DEFINE k == op'[h].key
           Goal == Holds(k, op'[h].ent) \/ \E g \in Setters : Made(g, k, op'[h].ent)
<1> SUFFICES Goal
  OBVIOUS
<1> USE CacheAssumption DEF Typed, TypeOK, Call
<1>1. CASE op'[h] = op[h]
  BY <1>1 DEF Holds
<1>2. CASE op'[h].ent = NoEntry
  BY <1>2
<1>3. ASSUME NEW g \in Goroutines, NEW j \in Keys, Get(g, j) \/ Invalidate(g, j) PROVE Goal
  <2>1. CASE g = h
    BY <1>2, <1>3, <2>1 DEF Get, GetBegin, Invalidate, InvalidateBegin, Begin
  <2>2. CASE g # h
    BY <1>1, <1>3, <2>2 DEF Get, GetBegin, Invalidate, InvalidateBegin, Begin
  <2> QED
    BY <2>1, <2>2
<1>4. ASSUME NEW g \in Goroutines, NEW j \in Keys, NEW ttl \in TTLs, SetWithTTL(g, j, ttl)
      PROVE  Goal
  <2>1. CASE g = h
    <3>1. k = j /\ op'[h].ent = NewEntry(epoch[j] + 1, clock, ttl) /\ g \in Setters
      BY <1>4, <2>1 DEF SetWithTTL, SetBegin, Begin
    <3>2. Made(g, k, op'[h].ent)
      BY <1>4, <3>1 DEF Made
    <3> QED
      BY <3>1, <3>2
  <2>2. CASE g # h
    BY <1>1, <1>4, <2>2 DEF SetWithTTL, SetBegin, Begin
  <2> QED
    BY <2>1, <2>2
<1>5. ASSUME NEW g \in Goroutines, GetL1Hit(g) \/ GetKeep(g) \/ GetL2Found(g) PROVE Goal
  <2>1. CASE g = h
    <3>1. op'[h].key = op[h].key /\ Here(h) \in Instances
      BY <1>5, <2>1 DEF GetL1Hit, GetKeep, GetL2Found, Here
    <3>2. op'[h].ent = l1[Here(h)][op[h].key] \/ op'[h].ent = store[op[h].key]
      BY <1>5, <2>1 DEF GetL1Hit, GetKeep, GetL2Found
    <3> QED
      BY <3>1, <3>2 DEF Holds
  <2>2. CASE g # h
    BY <1>1, <1>5, <2>2 DEF GetL1Hit, GetKeep, GetL2Found
  <2> QED
    BY <2>1, <2>2
<1>6. ASSUME NEW g \in Goroutines, GetClock(g) PROVE Goal
  <2>1. op'[h].key = op[h].key /\ op'[h].ent = op[h].ent
    BY <1>6 DEF GetClock
  <2> QED
    BY <2>1 DEF Holds
<1>7. ASSUME NEW g \in Goroutines, Return(g) PROVE Goal
  BY <1>1, <1>2, <1>7 DEF Return, NoCall
<1>8. ASSUME NEW g \in Goroutines,
             \/ GetL1Miss(g) \/ GetL2Absent(g) \/ GetL2Error(g) \/ GetReject(g) \/ GetPromote(g)
             \/ SetL1(g) \/ SetL2(g) \/ InvalidateL1(g) \/ InvalidateL2(g)
      PROVE  Goal
  BY <1>1, <1>8 DEF GetL1Miss, GetL2Absent, GetL2Error, GetReject, GetPromote,
     SetL1, SetL2, InvalidateL1, InvalidateL2
<1>9. CASE Tick \/ UNCHANGED cacheVars
  BY <1>1, <1>9 DEF Tick, cacheVars
<1> HIDE DEF Goal
<1> QED
  BY <1>3, <1>4, <1>5, <1>6, <1>7, <1>8, <1>9 DEF Next, Step, GetStep

LEMMA LayersMove ==
    ASSUME Typed, [Next]_cacheVars, NEW k \in Keys, NEW e \in Entry
    PROVE  /\ \A c \in Instances : l1'[c][k] = e => Holds(k, e)
           /\ store'[k] = e => Holds(k, e)
<1> USE CacheAssumption DEF Typed, TypeOK, Call, Here
<1>1. ASSUME NEW c \in Instances, l1'[c][k] = e PROVE Holds(k, e)
  <2>1. CASE l1'[c][k] = l1[c][k]
    BY <1>1, <2>1 DEF Holds
  <2>2. ASSUME NEW g \in Goroutines,
               GetL1Miss(g) \/ GetPromote(g) \/ SetL1(g) \/ InvalidateL1(g)
        PROVE  Holds(k, e)
    <3> DEFINE Moved == l1'[c][k] \in {l1[c][k], NoEntry} \/ (op[g].key = k /\ l1'[c][k] = op[g].ent)
    <3>1. CASE GetL1Miss(g)
      <4>1. Moved
        BY <3>1 DEF GetL1Miss
      <4> QED
        BY <1>1, <4>1 DEF Holds
    <3>2. CASE GetPromote(g)
      <4>1. Moved
        BY <3>2 DEF GetPromote
      <4> QED
        BY <1>1, <4>1 DEF Holds
    <3>3. CASE SetL1(g)
      <4>1. Moved
        BY <3>3 DEF SetL1
      <4> QED
        BY <1>1, <4>1 DEF Holds
    <3>4. CASE InvalidateL1(g)
      <4>1. Moved
        BY <3>4 DEF InvalidateL1
      <4> QED
        BY <1>1, <4>1 DEF Holds
    <3> QED
      BY <2>2, <3>1, <3>2, <3>3, <3>4
  <2>3. ASSUME NEW g \in Goroutines,
               \/ \E j \in Keys : Get(g, j) \/ Invalidate(g, j)
               \/ \E j \in Keys, ttl \in TTLs : SetWithTTL(g, j, ttl)
               \/ GetL1Hit(g) \/ GetL2Found(g) \/ GetL2Absent(g) \/ GetL2Error(g)
               \/ GetClock(g) \/ GetKeep(g) \/ GetReject(g)
               \/ SetL2(g) \/ InvalidateL2(g) \/ Return(g)
        PROVE  l1' = l1
    BY <2>3 DEF Get, Invalidate, SetWithTTL, GetL1Hit, GetL2Found, GetL2Absent, GetL2Error,
       GetClock, GetKeep, GetReject, SetL2, InvalidateL2, Return, layers
  <2>4. CASE Tick \/ UNCHANGED cacheVars
    BY <2>1, <2>4 DEF Tick, cacheVars, layers
  <2> QED
    BY <2>1, <2>2, <2>3, <2>4 DEF Next, Step, GetStep
<1>2. ASSUME store'[k] = e PROVE Holds(k, e)
  <2>1. CASE store'[k] = store[k]
    BY <1>2, <2>1 DEF Holds
  <2>2. ASSUME NEW g \in Goroutines, SetL2(g) \/ InvalidateL2(g) PROVE Holds(k, e)
    <3>1. store'[k] \in {store[k], NoEntry} \/ (op[g].key = k /\ store'[k] = op[g].ent)
      BY <2>2 DEF SetL2, InvalidateL2
    <3> QED
      BY <1>2, <3>1 DEF Holds
  <2>3. ASSUME NEW g \in Goroutines,
               \/ \E j \in Keys : Get(g, j) \/ Invalidate(g, j)
               \/ \E j \in Keys, ttl \in TTLs : SetWithTTL(g, j, ttl)
               \/ GetStep(g) \/ SetL1(g) \/ InvalidateL1(g) \/ Return(g)
        PROVE  store' = store
    BY <2>3 DEF Get, Invalidate, SetWithTTL, GetStep, GetL1Hit, GetL1Miss, GetL2Found,
       GetL2Absent, GetL2Error, GetClock, GetKeep, GetReject, GetPromote, SetL1, InvalidateL1,
       Return
  <2>4. CASE Tick \/ UNCHANGED cacheVars
    BY <2>1, <2>4 DEF Tick, cacheVars
  <2> QED
    BY <2>1, <2>2, <2>3, <2>4 DEF Next, Step
<1> QED
  BY <1>1, <1>2

LEMMA EntriesMove ==
    ASSUME Typed, [Next]_cacheVars, NEW k \in Keys, NEW e \in Entry, Holds(k, e)'
    PROVE  Holds(k, e) \/ \E g \in Setters : Made(g, k, e)
  BY HandsMove, LayersMove DEF Holds

(***************************************************************************)
(* Who writes, and what the entries of a key are to each other and to the  *)
(* one that is being written: made of one lifetime, the older ones of      *)
(* earlier versions, and none later than the call of the writer.           *)
(***************************************************************************)
Roles ==
    \A g \in Goroutines :
        /\ pc[g] \in {"setL1", "setL2"} => g \in Setters
        /\ pc[g] \in {"invL1", "invL2"} => g \in Invalidators

Uniform ==
    \A k \in Keys, e \in Entry :
        Holds(k, e) => /\ e.stored <= clock
                       /\ \E ttl \in TTLs : e.expires = ExpiresAt(e.stored, ttl)

WriterAhead ==
    \A g \in Goroutines :
        /\ pc[g] \in {"setL1", "invL1"} =>
              /\ op[g].now \in Time
              /\ \A e \in Entry : Holds(op[g].key, e) => e.stored <= op[g].now
        /\ pc[g] = "setL1" => /\ op[g].ent.stored = op[g].now
                              /\ op[g].ent.ver = epoch[op[g].key] + 1

Newest ==
    \A k \in Keys, e \in Entry :
        Holds(k, e) =>
            \/ e.ver <= epoch[k]
            \/ \E g \in Setters : pc[g] = "setL1" /\ op[g].key = k /\ e = op[g].ent

InSequence ==
    \A k \in Keys, e, f \in Entry :
        Holds(k, e) /\ Holds(k, f) /\ e.stored > f.stored => e.ver >= f.ver

LEMMA StepRoles == Typed /\ Roles /\ [Next]_cacheVars => Roles'
<1> SUFFICES ASSUME Typed, Roles, [Next]_cacheVars PROVE Roles'
  OBVIOUS
<1> USE CacheAssumption DEF Typed, TypeOK, Roles
<1>1. ASSUME NEW g \in Goroutines,
             \/ \E k \in Keys : Get(g, k) \/ Invalidate(g, k)
             \/ \E k \in Keys, ttl \in TTLs : SetWithTTL(g, k, ttl)
      PROVE  Roles'
  BY <1>1 DEF Get, GetBegin, Invalidate, InvalidateBegin, SetWithTTL, SetBegin, Begin
<1>2. ASSUME NEW g \in Goroutines, GetStep(g) \/ Return(g) PROVE Roles'
  BY <1>2 DEF GetStep, GetL1Hit, GetL1Miss, GetL2Found, GetL2Absent, GetL2Error, GetClock,
     GetKeep, GetReject, GetPromote, Return, Finish
<1>3. ASSUME NEW g \in Goroutines, SetL1(g) \/ SetL2(g) PROVE Roles'
  BY <1>3 DEF SetL1, SetL2, Finish
<1>4. ASSUME NEW g \in Goroutines, InvalidateL1(g) \/ InvalidateL2(g) PROVE Roles'
  BY <1>4 DEF InvalidateL1, InvalidateL2, Finish
<1>5. CASE Tick \/ UNCHANGED cacheVars
  BY <1>5 DEF Tick, cacheVars
<1> QED
  BY <1>1, <1>2, <1>3, <1>4, <1>5 DEF Next, Step

LEMMA ClockRises ==
    ASSUME Typed, [Next]_cacheVars
    PROVE  clock \in Nat /\ clock' \in Nat /\ clock <= clock'
<1> USE DEF Typed, TypeOK, Time
<1>1. ASSUME NEW g \in Goroutines,
             \/ \E k \in Keys : Get(g, k) \/ Invalidate(g, k)
             \/ \E k \in Keys, ttl \in TTLs : SetWithTTL(g, k, ttl)
             \/ GetStep(g) \/ SetL1(g) \/ SetL2(g) \/ InvalidateL1(g) \/ InvalidateL2(g)
             \/ Return(g)
      PROVE  clock' = clock
  BY <1>1 DEF Get, Invalidate, SetWithTTL, GetStep, GetL1Hit, GetL1Miss, GetL2Found,
     GetL2Absent, GetL2Error, GetClock, GetKeep, GetReject, GetPromote, SetL1, SetL2,
     InvalidateL1, InvalidateL2, Return
<1>2. CASE Tick \/ UNCHANGED cacheVars
  BY <1>2 DEF Tick, cacheVars
<1> QED
  BY <1>1, <1>2 DEF Next, Step

LEMMA StepUniform == Typed /\ Uniform /\ [Next]_cacheVars => Uniform'
<1> SUFFICES ASSUME Typed, Uniform, [Next]_cacheVars,
                    NEW k \in Keys, NEW e \in Entry, Holds(k, e)'
             PROVE  /\ e.stored <= clock'
                    /\ \E ttl \in TTLs : e.expires = ExpiresAt(e.stored, ttl)
  BY DEF Uniform, ExpiresAt
<1>1. clock \in Nat /\ clock' \in Nat /\ clock <= clock' /\ e.stored \in Nat
  BY ClockRises DEF Entry, Time
<1>2. CASE Holds(k, e)
  BY <1>1, <1>2 DEF Uniform
<1>3. ASSUME NEW g \in Setters, Made(g, k, e)
      PROVE  e.stored = clock /\ \E ttl \in TTLs : e.expires = ExpiresAt(e.stored, ttl)
  BY <1>3 DEF Made, NewEntry
<1> QED
  BY <1>1, <1>2, <1>3, EntriesMove

LEMMA InitHistory == Init => Roles /\ Uniform /\ WriterAhead /\ Newest /\ InSequence
<1> SUFFICES ASSUME Init PROVE Roles /\ Uniform /\ WriterAhead /\ Newest /\ InSequence
  OBVIOUS
<1>1. Roles /\ WriterAhead
  BY DEF Init, Roles, WriterAhead
<1>2. ASSUME NEW k \in Keys, NEW e \in Entry, Holds(k, e)
      PROVE  \E ttl \in TTLs : e = NewEntry(0, 1, ttl)
  BY <1>2, CacheAssumption DEF Init, Holds, NoCall
<1>3. Uniform
  BY <1>2, CacheAssumption DEF Uniform, NewEntry, Init
<1>4. Newest /\ InSequence
  BY <1>2, CacheAssumption DEF Newest, InSequence, NewEntry, Init
<1> QED
  BY <1>1, <1>3, <1>4

LEMMA MadeIs ==
    ASSUME Typed, NEW g \in Goroutines, NEW k \in Keys, NEW e \in Entry, Made(g, k, e)
    PROVE  /\ e.stored = clock /\ e.ver = epoch[k] + 1
           /\ g \in Setters /\ pc[g] = "idle" /\ pc'[g] = "setL1"
           /\ op'[g].key = k /\ op'[g].ent = e
           /\ UNCHANGED <<clock, epoch, l1, tombstones>>
<1> USE DEF Typed, TypeOK
<1>1. PICK ttl \in TTLs : SetWithTTL(g, k, ttl) /\ e = NewEntry(epoch[k] + 1, clock, ttl)
  BY DEF Made
<1>2. e.stored = clock /\ e.ver = epoch[k] + 1
  BY <1>1 DEF NewEntry
<1> QED
  BY <1>1, <1>2 DEF SetWithTTL, SetBegin, Begin, layers

LEMMA WriterGoesOn ==
    ASSUME Typed, [Next]_cacheVars, NEW g \in Goroutines, pc[g] \in {"setL1", "invL1"}
    PROVE  \/ pc'[g] = pc[g] /\ op'[g] = op[g] /\ ~SetL1(g) /\ ~InvalidateL1(g)
           \/ SetL1(g)
           \/ InvalidateL1(g)
<1> SUFFICES ASSUME ~SetL1(g), ~InvalidateL1(g) PROVE pc'[g] = pc[g] /\ op'[g] = op[g]
  OBVIOUS
<1> USE DEF Typed, TypeOK
<1>1. ASSUME NEW h \in Goroutines,
             \/ \E k \in Keys : Get(h, k) \/ Invalidate(h, k)
             \/ \E k \in Keys, ttl \in TTLs : SetWithTTL(h, k, ttl)
      PROVE  pc'[g] = pc[g] /\ op'[g] = op[g]
  BY <1>1 DEF Get, GetBegin, Invalidate, InvalidateBegin, SetWithTTL, SetBegin, Begin
<1>2. ASSUME NEW h \in Goroutines, GetStep(h) PROVE pc'[g] = pc[g] /\ op'[g] = op[g]
  BY <1>2 DEF GetStep, GetL1Hit, GetL1Miss, GetL2Found, GetL2Absent, GetL2Error, GetClock,
     GetKeep, GetReject, GetPromote, Finish
<1>3. ASSUME NEW h \in Goroutines,
             SetL1(h) \/ SetL2(h) \/ InvalidateL1(h) \/ InvalidateL2(h) \/ Return(h)
      PROVE  pc'[g] = pc[g] /\ op'[g] = op[g]
  BY <1>3 DEF SetL1, SetL2, InvalidateL1, InvalidateL2, Return, Returned, Finish
<1>4. CASE Tick \/ UNCHANGED cacheVars
  BY <1>4 DEF Tick, cacheVars
<1> QED
  BY <1>1, <1>2, <1>3, <1>4 DEF Next, Step

LEMMA WriterBegins ==
    ASSUME Typed, [Next]_cacheVars, NEW g \in Goroutines,
           pc[g] \notin {"setL1", "invL1"}, pc'[g] \in {"setL1", "invL1"}
    PROVE  /\ op'[g].now = clock /\ op'[g].key \in Keys /\ epoch' = epoch
           /\ pc'[g] = "setL1" => \E ttl \in TTLs :
                  op'[g].ent = NewEntry(epoch[op'[g].key] + 1, clock, ttl)
           /\ UNCHANGED <<tombstones, lastPrune, clock>>
<1> DEFINE Goal == /\ op'[g].now = clock /\ op'[g].key \in Keys /\ epoch' = epoch
                   /\ pc'[g] = "setL1" => \E ttl \in TTLs :
                          op'[g].ent = NewEntry(epoch[op'[g].key] + 1, clock, ttl)
                   /\ UNCHANGED <<tombstones, lastPrune, clock>>
<1> USE DEF Typed, TypeOK
<1>1. ASSUME NEW h \in Goroutines, NEW k \in Keys, Get(h, k) \/ Invalidate(h, k)
      PROVE  Goal
  BY <1>1 DEF Get, GetBegin, Invalidate, InvalidateBegin, Begin, layers
<1>2. ASSUME NEW h \in Goroutines, NEW k \in Keys, NEW ttl \in TTLs, SetWithTTL(h, k, ttl)
      PROVE  Goal
  <2>1. h = g
    BY <1>2 DEF SetWithTTL, SetBegin, Begin
  <2> QED
    BY <1>2, <2>1 DEF SetWithTTL, SetBegin, Begin, layers
<1>3. ASSUME NEW h \in Goroutines, GetStep(h) PROVE pc'[g] \notin {"setL1", "invL1"}
  BY <1>3 DEF GetStep, GetL1Hit, GetL1Miss, GetL2Found, GetL2Absent, GetL2Error, GetClock,
     GetKeep, GetReject, GetPromote, Finish
<1>4. ASSUME NEW h \in Goroutines,
             SetL1(h) \/ SetL2(h) \/ InvalidateL1(h) \/ InvalidateL2(h) \/ Return(h)
      PROVE  pc'[g] \notin {"setL1", "invL1"}
  BY <1>4 DEF SetL1, SetL2, InvalidateL1, InvalidateL2, Return, Finish
<1>5. CASE Tick \/ UNCHANGED cacheVars
  BY <1>5 DEF Tick, cacheVars
<1> QED
  BY <1>1, <1>2, <1>3, <1>4, <1>5 DEF Next, Step

LEMMA LayersChange ==
    ASSUME Typed, [Next]_cacheVars
    PROVE  \/ UNCHANGED <<epoch, tombstones, lastPrune, pruned>>
           \/ \E h \in Goroutines : SetL1(h) \/ InvalidateL1(h)
<1> DEFINE Same == UNCHANGED <<epoch, tombstones, lastPrune, pruned>>
<1>1. ASSUME NEW h \in Goroutines,
             \/ \E k \in Keys : Get(h, k) \/ Invalidate(h, k)
             \/ \E k \in Keys, ttl \in TTLs : SetWithTTL(h, k, ttl)
      PROVE  Same
  BY <1>1 DEF Get, Invalidate, SetWithTTL, layers
<1>2. ASSUME NEW h \in Goroutines, GetStep(h) \/ SetL2(h) \/ InvalidateL2(h) \/ Return(h)
      PROVE  Same
  BY <1>2 DEF GetStep, GetL1Hit, GetL1Miss, GetL2Found, GetL2Absent, GetL2Error, GetClock,
     GetKeep, GetReject, GetPromote, SetL2, InvalidateL2, Return, layers
<1>3. CASE Tick \/ UNCHANGED cacheVars
  BY <1>3 DEF Tick, cacheVars, layers
<1> QED
  BY <1>1, <1>2, <1>3 DEF Next, Step

LEMMA EpochRises ==
    ASSUME Typed, [Next]_cacheVars, NEW k \in Keys
    PROVE  epoch[k] \in Nat /\ epoch'[k] \in Nat /\ epoch[k] <= epoch'[k]
<1> USE DEF Typed, TypeOK
<1>1. ASSUME NEW h \in Goroutines, SetL1(h) PROVE epoch[k] <= epoch'[k]
  <2>1. op[h].key \in Keys /\ op[h].ent \in Entry /\ op[h].ent.ver \in Nat
    BY <1>1 DEF SetL1, HandlesEntry, Carrying, Call, Entry
  <2> DEFINE j == op[h].key
             new == Later(epoch[j], op[h].ent.ver)
  <2>2. new \in Nat /\ epoch[j] <= new
    BY <2>1, LaterType
  <2>3. epoch' = [epoch EXCEPT ![j] = new]
    BY <1>1 DEF SetL1
  <2> HIDE DEF new
  <2> QED
    BY <2>1, <2>2, <2>3
<1>2. ASSUME NEW h \in Goroutines, InvalidateL1(h) PROVE epoch[k] <= epoch'[k]
  BY <1>2 DEF InvalidateL1, Call
<1>3. epoch'[k] \in Nat
  BY StepTyped
<1> QED
  BY <1>1, <1>2, <1>3, LayersChange

LEMMA StepAhead ==
    OneWriter /\ Typed /\ Roles /\ Uniform /\ WriterAhead /\ [Next]_cacheVars => WriterAhead'
<1> SUFFICES ASSUME OneWriter, Typed, Roles, Uniform, WriterAhead, [Next]_cacheVars,
                    NEW g \in Goroutines, pc'[g] \in {"setL1", "invL1"}
             PROVE  /\ op'[g].now \in Time
                    /\ \A e \in Entry : Holds(op[g].key, e)' => e.stored <= op'[g].now
                    /\ pc'[g] = "setL1" => /\ op'[g].ent.stored = op'[g].now
                                           /\ op'[g].ent.ver = epoch'[op'[g].key] + 1
  BY DEF WriterAhead
<1> USE DEF Typed, TypeOK, Call
<1>0. clock \in Nat /\ clock \in Time
  BY DEF Time
<1>1. CASE pc[g] \in {"setL1", "invL1"} /\ pc'[g] = pc[g] /\ op'[g] = op[g]
           /\ ~SetL1(g) /\ ~InvalidateL1(g)
  <2>1. g \in Setters \cup Invalidators
    BY <1>1 DEF Roles
  <2>2. ASSUME NEW h \in Goroutines, SetL1(h) \/ InvalidateL1(h) PROVE FALSE
    <3>1. h \in Setters \cup Invalidators
      BY <2>2 DEF SetL1, InvalidateL1, Roles
    <3> QED
      BY <1>1, <2>1, <2>2, <3>1 DEF OneWriter
  <2>3. epoch' = epoch
    BY <2>2, LayersChange
  <2>4. ASSUME NEW e \in Entry, Holds(op[g].key, e)' PROVE e.stored <= op[g].now
    <3>1. op[g].key \in Keys /\ op'[g].key = op[g].key
      BY <1>1
    <3> DEFINE k == op[g].key
    <3>2. Holds(k, e) \/ \E h \in Setters : Made(h, k, e)
      <4>1. ASSUME NEW j \in Keys, j = op'[g].key, Holds(op[g].key, e)' PROVE Holds(j, e)'
        BY <1>1, <4>1 DEF Holds
      <4>2. Holds(op'[g].key, e) \/ \E h \in Setters : Made(h, op'[g].key, e)
        BY <2>4, <3>1, <4>1, EntriesMove
      <4> QED
        BY <3>1, <4>2
    <3>3. ASSUME NEW h \in Setters, Made(h, k, e) PROVE FALSE
      <4>1. pc[h] = "idle"
        BY <3>1, <3>3, MadeIs, CacheAssumption
      <4> QED
        BY <1>1, <2>1, <4>1 DEF OneWriter
    <3> QED
      BY <1>1, <3>2, <3>3 DEF WriterAhead
  <2> QED
    BY <1>1, <2>3, <2>4 DEF WriterAhead
<1>2. CASE pc[g] \notin {"setL1", "invL1"}
  <2>1. /\ op'[g].now = clock /\ op'[g].key \in Keys /\ epoch' = epoch
        /\ pc'[g] = "setL1" => \E ttl \in TTLs :
               op'[g].ent = NewEntry(epoch[op'[g].key] + 1, clock, ttl)
    BY <1>2, WriterBegins
  <2>2. ASSUME NEW e \in Entry, Holds(op[g].key, e)' PROVE e.stored <= clock
    <3>1. ASSUME NEW j \in Keys, j = op'[g].key PROVE Holds(j, e)'
      BY <2>2, <3>1 DEF Holds
    <3>2. Holds(op'[g].key, e) \/ \E h \in Setters : Made(h, op'[g].key, e)
      BY <2>1, <3>1, EntriesMove
    <3>3. ASSUME NEW h \in Setters, Made(h, op'[g].key, e) PROVE e.stored = clock
      BY <2>1, <3>3, MadeIs, CacheAssumption
    <3> QED
      BY <1>0, <2>1, <3>2, <3>3 DEF Uniform
  <2>3. ASSUME pc'[g] = "setL1"
        PROVE  op'[g].ent.stored = clock /\ op'[g].ent.ver = epoch[op'[g].key] + 1
    <3>1. PICK ttl \in TTLs : op'[g].ent = NewEntry(epoch[op'[g].key] + 1, clock, ttl)
      BY <2>1, <2>3
    <3> DEFINE v == epoch[op'[g].key] + 1
    <3>2. NewEntry(v, clock, ttl).stored = clock /\ NewEntry(v, clock, ttl).ver = v
      BY DEF NewEntry
    <3> QED
      BY <3>1, <3>2
  <2> QED
    BY <1>0, <2>1, <2>2, <2>3
<1>3. CASE SetL1(g) \/ InvalidateL1(g)
  BY <1>3 DEF SetL1, InvalidateL1, Finish
<1> QED
  BY <1>1, <1>2, <1>3, WriterGoesOn

LEMMA StepNewest == Typed /\ Newest /\ [Next]_cacheVars => Newest'
<1> SUFFICES ASSUME Typed, Newest, [Next]_cacheVars,
                    NEW k \in Keys, NEW e \in Entry, Holds(k, e)'
             PROVE  \/ e.ver <= epoch'[k]
                    \/ \E g \in Setters : pc'[g] = "setL1" /\ op'[g].key = k /\ e = op'[g].ent
  BY DEF Newest
<1> USE CacheAssumption
<1>1. ASSUME NEW g \in Setters, Made(g, k, e)
      PROVE  pc'[g] = "setL1" /\ op'[g].key = k /\ e = op'[g].ent
  BY <1>1, MadeIs
<1>2. CASE Holds(k, e) /\ e.ver <= epoch[k]
  <2>1. epoch[k] \in Nat /\ epoch'[k] \in Nat /\ epoch[k] <= epoch'[k] /\ e.ver \in Nat
    BY EpochRises DEF Entry
  <2> QED
    BY <1>2, <2>1
<1>3. ASSUME NEW g \in Setters, pc[g] = "setL1", op[g].key = k, e = op[g].ent
      PROVE  \/ e.ver <= epoch'[k]
             \/ pc'[g] = "setL1" /\ op'[g].key = k /\ e = op'[g].ent
  <2>1. CASE SetL1(g)
    <3>1. e.ver \in Nat /\ epoch[k] \in Nat
      BY DEF Entry, Typed, TypeOK
    <3>2. epoch'[k] = Later(epoch[k], e.ver)
      BY <1>3, <2>1 DEF SetL1, Typed, TypeOK
    <3> QED
      BY <3>1, <3>2, LaterType
  <2>2. ~InvalidateL1(g)
    BY <1>3 DEF InvalidateL1
  <2>3. CASE ~SetL1(g)
    <3>1. pc'[g] = pc[g] /\ op'[g] = op[g]
      BY <1>3, <2>2, <2>3, WriterGoesOn
    <3> QED
      BY <1>3, <3>1
  <2> QED
    BY <2>1, <2>3
<1> QED
  BY <1>1, <1>2, <1>3, EntriesMove DEF Newest

LEMMA StepSequence ==
    OneWriter /\ Typed /\ Uniform /\ Newest /\ InSequence /\ [Next]_cacheVars => InSequence'
<1> SUFFICES ASSUME OneWriter, Typed, Uniform, Newest, InSequence, [Next]_cacheVars,
                    NEW k \in Keys, NEW e \in Entry, NEW f \in Entry,
                    Holds(k, e)', Holds(k, f)', e.stored > f.stored
             PROVE  e.ver >= f.ver
  BY DEF InSequence
<1> USE CacheAssumption
<1>1. /\ e.ver \in Nat /\ f.ver \in Nat /\ e.stored \in Nat /\ f.stored \in Nat
      /\ clock \in Nat /\ epoch[k] \in Nat
  BY DEF Entry, Time, Typed, TypeOK
<1>2. CASE Holds(k, e) /\ Holds(k, f)
  BY <1>2 DEF InSequence
<1>3. ASSUME NEW g \in Setters, Made(g, k, e) PROVE e.ver >= f.ver
  <2>1. e.ver = epoch[k] + 1 /\ pc[g] = "idle"
    BY <1>3, MadeIs
  <2>2. ASSUME NEW h \in Setters, Made(h, k, f) PROVE f.ver = epoch[k] + 1
    BY <2>2, MadeIs
  <2>3. ASSUME Holds(k, f) PROVE f.ver <= epoch[k]
    BY <2>1, <2>3 DEF Newest, OneWriter
  <2> QED
    BY <1>1, <2>1, <2>2, <2>3, EntriesMove
<1>4. ASSUME NEW g \in Setters, Made(g, k, f), Holds(k, e) PROVE FALSE
  <2>1. f.stored = clock
    BY <1>4, MadeIs
  <2>2. e.stored <= clock
    BY <1>4 DEF Uniform
  <2> QED
    BY <1>1, <2>1, <2>2
<1> QED
  BY <1>2, <1>3, <1>4, EntriesMove

LEMMA ContentsChange ==
    ASSUME Typed, [Next]_cacheVars
    PROVE  \/ UNCHANGED <<l1, epoch, tombstones>>
           \/ \E g \in Goroutines : GetL1Miss(g) \/ GetPromote(g) \/ SetL1(g) \/ InvalidateL1(g)
<1> DEFINE Same == UNCHANGED <<l1, epoch, tombstones>>
<1>1. ASSUME NEW h \in Goroutines,
             \/ \E k \in Keys : Get(h, k) \/ Invalidate(h, k)
             \/ \E k \in Keys, ttl \in TTLs : SetWithTTL(h, k, ttl)
      PROVE  Same
  BY <1>1 DEF Get, Invalidate, SetWithTTL, layers
<1>2. ASSUME NEW h \in Goroutines,
             \/ GetL1Hit(h) \/ GetL2Found(h) \/ GetL2Absent(h) \/ GetL2Error(h) \/ GetClock(h)
             \/ GetKeep(h) \/ GetReject(h) \/ SetL2(h) \/ InvalidateL2(h) \/ Return(h)
      PROVE  Same
  BY <1>2 DEF GetL1Hit, GetL2Found, GetL2Absent, GetL2Error, GetClock, GetKeep, GetReject,
     SetL2, InvalidateL2, Return, layers
<1>3. CASE Tick \/ UNCHANGED cacheVars
  BY <1>3 DEF Tick, cacheVars, layers
<1> QED
  BY <1>1, <1>2, <1>3 DEF Next, Step, GetStep

History == Typed /\ Roles /\ Uniform /\ WriterAhead /\ Newest /\ InSequence

LEMMA AlwaysHistory == ASSUME OneWriter PROVE Spec => []History
<1>1. Init => History
  BY InitTyped, InitHistory DEF History
<1>2. History /\ [Next]_cacheVars => History'
  BY StepTyped, StepRoles, StepUniform, StepAhead, StepNewest, StepSequence DEF History
<1> QED
  BY <1>1, <1>2, PTL DEF Spec

(***************************************************************************)
(* The freshness guard: with one writer, entries that do not expire and    *)
(* any number of caches over the store, no promotion puts an older entry   *)
(* over a newer one.                                                       *)
(***************************************************************************)
LEMMA StepFresh ==
    ASSUME OneWriter, TTLs \subseteq {0}, History, TombstoneGuardsL1, [Next]_cacheVars,
           NEW c \in Instances, NEW k \in Keys,
           l1[c][k] # NoEntry, l1'[c][k] # NoEntry
    PROVE  l1'[c][k].ver >= l1[c][k].ver
<1> USE CacheAssumption DEF History, Typed, TypeOK, Call, Here
<1> DEFINE cur == l1[c][k]
<1>1. /\ cur \in Entry /\ Holds(k, cur)
      /\ cur.ver \in Nat /\ cur.stored \in Nat /\ cur.expires = NoTime
      /\ ~Tombstoned(c, k, cur)
  <2>1. cur \in Entry /\ Holds(k, cur)
    BY DEF Holds
  <2>2. \E ttl \in TTLs : cur.expires = ExpiresAt(cur.stored, ttl)
    BY <2>1 DEF Uniform
  <2> QED
    BY <2>1, <2>2 DEF TombstoneGuardsL1, Entry, Time, ExpiresAt
<1>2. CASE l1'[c][k] = cur
  BY <1>1, <1>2
<1>3. ASSUME NEW g \in Goroutines, GetPromote(g) PROVE l1'[c][k].ver >= cur.ver
  <2>1. CASE c = InstanceOf[g] /\ k = op[g].key
    <3>1. op[g].ent \in Entry /\ Holds(k, op[g].ent) /\ l1'[c][k] = op[g].ent
      BY <1>3, <2>1 DEF GetPromote, HandlesEntry, Carrying, Holds
    <3>2. ServableL1(g)
      BY <1>1, <2>1 DEF ServableL1, validLocked, Expired
    <3>3. op[g].ent.stored > cur.stored
      BY <1>1, <1>3, <2>1, <3>1, <3>2 DEF GetPromote, KeepsL1, Entry, Time
    <3> QED
      BY <1>1, <3>1, <3>3 DEF InSequence
  <2>2. CASE ~(c = InstanceOf[g] /\ k = op[g].key)
    BY <1>2, <1>3, <2>2 DEF GetPromote
  <2> QED
    BY <2>1, <2>2
<1>4. ASSUME NEW g \in Goroutines, SetL1(g) PROVE l1'[c][k].ver >= cur.ver
  <2>1. CASE c = InstanceOf[g] /\ k = op[g].key
    <3>1. pc[g] = "setL1" /\ l1'[c][k] = op[g].ent /\ op[g].ent.ver = epoch[k] + 1
      BY <1>4, <2>1 DEF SetL1, WriterAhead
    <3>2. cur.ver <= epoch[k] \/ cur = op[g].ent
      BY <1>1, <3>1 DEF Newest, Roles, OneWriter
    <3> QED
      BY <1>1, <3>1, <3>2
  <2>2. CASE ~(c = InstanceOf[g] /\ k = op[g].key)
    BY <1>2, <1>4, <2>2 DEF SetL1
  <2> QED
    BY <2>1, <2>2
<1>5. ASSUME NEW g \in Goroutines, GetL1Miss(g) \/ InvalidateL1(g)
      PROVE  l1'[c][k] \in {cur, NoEntry}
  <2>1. CASE GetL1Miss(g)
    BY <2>1 DEF GetL1Miss
  <2>2. CASE InvalidateL1(g)
    BY <2>2 DEF InvalidateL1
  <2> QED
    BY <1>5, <2>1, <2>2
<1> QED
  BY <1>2, <1>3, <1>4, <1>5, ContentsChange

(* The freshness guard of Get never puts an older entry over a newer one.  *)
THEOREM NothingOlderResurrected ==
    ASSUME OneWriter, TTLs \subseteq {0}
    PROVE  Spec => NeverResurrectOlder
<1>1. ASSUME History, TombstoneGuardsL1, [Next]_cacheVars
      PROVE  [\A c \in Instances, k \in Keys :
                 l1[c][k] # NoEntry /\ l1'[c][k] # NoEntry
                     => l1'[c][k].ver >= l1[c][k].ver]_cacheVars
  BY <1>1, StepFresh
<1> QED
  BY <1>1, AlwaysHistory, NoTombstonedL1, PTL DEF Spec, NeverResurrectOlder

-----------------------------------------------------------------------------
(***************************************************************************)
(* With one writer, one cache over the store and one lifetime of entries,  *)
(* a superseded entry, wherever it still is, has expired, or its key has a *)
(* tombstone for it, or L1 holds the current entry, which was written no   *)
(* earlier.  Each of the three goes over into one of the others: a pruned  *)
(* tombstone into expiry, an L1 entry that an invalidation deletes into a  *)
(* tombstone, a tombstone that a Set clears into the entry of the Set.     *)
(***************************************************************************)
OneCache == \A c, d \in Instances : c = d

Outdone(c, k, e) ==
    \/ Expired(e, clock)
    \/ Tombstoned(c, k, e)
    \/ /\ l1[c][k] # NoEntry
       /\ l1[c][k].ver >= epoch[k]
       /\ e.stored <= l1[c][k].stored

SupersededAreOutdone ==
    \A c \in Instances, k \in Keys, e \in Entry :
        Holds(k, e) /\ e.ver < epoch[k] => Outdone(c, k, e)

LEMMA OlderGoesFirst ==
    ASSUME OneTTL, Typed, Uniform, NEW c \in Instances, NEW k \in Keys,
           NEW e \in Entry, NEW f \in Entry, Holds(k, e), Holds(k, f), e.stored <= f.stored
    PROVE  /\ \A t \in Nat : Expired(f, t) => Expired(e, t)
           /\ Tombstoned(c, k, f) => Tombstoned(c, k, e)
<1> USE CacheAssumption
<1>1. e.stored \in Nat /\ f.stored \in Nat
  BY DEF Entry, Time
<1>2. PICK a \in TTLs : e.expires = ExpiresAt(e.stored, a)
  BY DEF Uniform
<1>3. PICK b \in TTLs : f.expires = ExpiresAt(f.stored, b)
  BY DEF Uniform
<1>4. a = b /\ a \in Nat
  BY DEF OneTTL
<1>5. tombstones[c][k] \in Nat
  BY DEF Typed, TypeOK
<1> QED
  BY <1>1, <1>2, <1>3, <1>4, <1>5 DEF Expired, ExpiresAt, Tombstoned, NoTime, Entry, Time

(***************************************************************************)
(* What is no newer than an entry of L1 that a Get finds unservable is     *)
(* outdone for good.                                                       *)
(***************************************************************************)
LEMMA UnservableOutdoes ==
    ASSUME OneTTL, Typed, Uniform, NowInPast, NEW g \in Goroutines, ~ServableL1(g),
           NEW e \in Entry, Holds(op[g].key, e),
           l1[Here(g)][op[g].key] # NoEntry, e.stored <= l1[Here(g)][op[g].key].stored
    PROVE  \/ Expired(e, op[g].now) /\ Expired(e, clock)
           \/ Tombstoned(Here(g), op[g].key, e)
<1> DEFINE c == Here(g)
           k == op[g].key
           cur == l1[c][k]
<1> USE CacheAssumption
<1>1. c \in Instances /\ k \in Keys /\ op[g].now \in Nat /\ clock \in Nat /\ op[g].now <= clock
  BY DEF Typed, TypeOK, Call, NowInPast, Time, Here
<1>2. cur \in Entry /\ Holds(k, cur)
  BY <1>1 DEF Typed, TypeOK, Holds
<1>3. Expired(cur, op[g].now) \/ Tombstoned(c, k, cur)
  BY DEF ServableL1, validLocked
<1>4. Expired(e, op[g].now) => Expired(e, clock)
  BY <1>1 DEF Expired, Entry
<1> HIDE DEF c, k, cur
<1>5. /\ \A t \in Nat : Expired(cur, t) => Expired(e, t)
      /\ Tombstoned(c, k, cur) => Tombstoned(c, k, e)
  BY <1>1, <1>2, OlderGoesFirst DEF c, k, cur
<1> QED
  BY <1>1, <1>3, <1>4, <1>5 DEF c, k

LEMMA MissOutdone ==
    ASSUME OneTTL, History, NowInPast, SupersededAreOutdone, [Next]_cacheVars,
           NEW g \in Goroutines, GetL1Miss(g),
           NEW c \in Instances, NEW k \in Keys, NEW e \in Entry, Holds(k, e), e.ver < epoch[k]
    PROVE  Outdone(c, k, e)'
<1> USE CacheAssumption DEF History
<1>1. Outdone(c, k, e)
  BY DEF SupersededAreOutdone
<1>2. UNCHANGED <<clock, tombstones, epoch>>
  BY DEF GetL1Miss
<1>3. CASE c = Here(g) /\ k = op[g].key
  <2>1. ~ServableL1(g)
    BY DEF GetL1Miss
  <2>2. Expired(e, clock) \/ Tombstoned(c, k, e)
    BY <1>1, <1>3, <2>1, UnservableOutdoes DEF Outdone
  <2> QED
    BY <1>2, <2>2 DEF Outdone, Tombstoned
<1>4. CASE ~(c = Here(g) /\ k = op[g].key)
  <2>1. l1'[c][k] = l1[c][k]
    BY <1>4 DEF GetL1Miss, Typed, TypeOK, Here
  <2> QED
    BY <1>1, <1>2, <2>1 DEF Outdone, Tombstoned
<1> QED
  BY <1>3, <1>4

LEMMA PromotionOutdone ==
    ASSUME OneTTL, History, NowInPast, SupersededAreOutdone, [Next]_cacheVars,
           NEW g \in Goroutines, GetPromote(g),
           NEW c \in Instances, NEW k \in Keys, NEW e \in Entry, Holds(k, e), e.ver < epoch[k]
    PROVE  Outdone(c, k, e)'
<1> USE CacheAssumption DEF History
<1>1. Outdone(c, k, e)
  BY DEF SupersededAreOutdone
<1>2. UNCHANGED <<clock, tombstones, epoch>>
  BY DEF GetPromote
<1>3. CASE c = Here(g) /\ k = op[g].key
  <2> DEFINE cur == l1[c][k]
             new == op[g].ent
  <2>1. new \in Entry /\ Holds(k, new) /\ l1'[c][k] = new
    BY <1>3 DEF GetPromote, Typed, TypeOK, HandlesEntry, Carrying, Holds, Here
  <2>2. CASE Expired(e, clock) \/ Tombstoned(c, k, e)
    BY <1>2, <2>2 DEF Outdone, Tombstoned
  <2>3. CASE cur # NoEntry /\ cur.ver >= epoch[k] /\ e.stored <= cur.stored
    <3>1. CASE ~ServableL1(g)
      BY <1>3, <2>2, <2>3, <3>1, UnservableOutdoes
    <3>2. CASE new.stored > cur.stored
      <4>1. /\ cur \in Entry /\ e.stored \in Nat /\ cur.stored \in Nat /\ new.stored \in Nat
            /\ new.ver \in Nat /\ epoch[k] \in Nat /\ cur.ver \in Nat
        BY <2>1, <2>3 DEF Typed, TypeOK, Entry, Time
      <4>2. new.ver >= cur.ver
        BY <2>1, <3>2, <4>1 DEF InSequence, Holds
      <4>3. e.stored <= new.stored /\ new.ver >= epoch[k]
        BY <2>3, <3>2, <4>1, <4>2
      <4> QED
        BY <1>2, <2>1, <4>1, <4>3, CacheAssumption DEF Outdone
    <3>3. ~KeepsL1(g)
      BY DEF GetPromote
    <3>4. new.stored \in Nat /\ cur.stored \in Nat
      BY <2>1, <2>3 DEF Typed, TypeOK, Entry, Time
    <3> QED
      BY <1>3, <3>1, <3>2, <3>3, <3>4 DEF KeepsL1
  <2> QED
    BY <1>1, <2>2, <2>3 DEF Outdone
<1>4. CASE ~(c = Here(g) /\ k = op[g].key)
  <2>1. l1'[c][k] = l1[c][k]
    BY <1>4 DEF GetPromote, Typed, TypeOK, Here
  <2> QED
    BY <1>1, <1>2, <2>1 DEF Outdone, Tombstoned
<1> QED
  BY <1>3, <1>4

LEMMA SetOutdone ==
    ASSUME OneWriter, OneCache, History, SupersededAreOutdone, [Next]_cacheVars,
           NEW g \in Goroutines, SetL1(g),
           NEW c \in Instances, NEW k \in Keys, NEW e \in Entry, Holds(k, e), e.ver < epoch'[k]
    PROVE  Outdone(c, k, e)'
<1> USE CacheAssumption DEF History, Typed, TypeOK
<1>1. c = Here(g) /\ clock' = clock
  BY DEF SetL1, OneCache, Here
<1>2. CASE k = op[g].key
  <2>1. /\ l1'[c][k] = op[g].ent /\ op[g].ent \in Entry
        /\ op[g].ent.ver = epoch[k] + 1 /\ op[g].ent.stored = op[g].now
        /\ e.stored <= op[g].now
    BY <1>1, <1>2 DEF SetL1, WriterAhead, HandlesEntry, Carrying
  <2>2. epoch'[k] = op[g].ent.ver
    BY <1>2, <2>1 DEF SetL1, Later
  <2> QED
    BY <2>1, <2>2 DEF Outdone, Entry
<1>3. CASE k # op[g].key
  <2>1. l1'[c][k] = l1[c][k] /\ tombstones'[c][k] = tombstones[c][k] /\ epoch'[k] = epoch[k]
    BY <1>1, <1>3 DEF SetL1, Call, Here
  <2>2. Outdone(c, k, e)
    BY <2>1 DEF SupersededAreOutdone
  <2> QED
    BY <1>1, <2>1, <2>2 DEF Outdone, Tombstoned
<1> QED
  BY <1>2, <1>3

LEMMA InvalidationOutdone ==
    ASSUME OneCache, History, Lifetimes, PrunedLongAgo', SupersededAreOutdone,
           [Next]_cacheVars, NEW g \in Goroutines, InvalidateL1(g),
           NEW c \in Instances, NEW k \in Keys, NEW e \in Entry, Holds(k, e), e.ver < epoch'[k]
    PROVE  Outdone(c, k, e)'
<1> USE CacheAssumption DEF History, Typed, TypeOK
<1> DEFINE t == op[g].now
           marked == [tombstones[c] EXCEPT ![op[g].key] = t]
           drop == IF PruneDue(c, t) THEN {j \in Keys : Prunable(marked[j], t)} ELSE {}
<1>1. /\ c = Here(g) /\ clock' = clock
      /\ op[g].key \in Keys /\ t \in Time /\ TombstoneTTL \in Nat
      /\ e.stored \in Nat /\ tombstones[c][k] \in Nat /\ pruned[c][k] \in Nat
  BY DEF InvalidateL1, OneCache, Here, Call, WriterAhead, Entry, Time
<1>2. /\ tombstones'[c][k] = IF k \in drop THEN NoTime ELSE marked[k]
      /\ pruned'[c][k] = IF k \in drop THEN Later(pruned[c][k], marked[k]) ELSE pruned[c][k]
  BY <1>1 DEF InvalidateL1
<1>3. CASE k = op[g].key
  <2>1. marked[k] = t
    BY <1>1, <1>3
  <2>2. ~Prunable(t, t)
    BY <1>1 DEF Prunable, Time
  <2>3. tombstones'[c][k] = t
    BY <1>2, <2>1, <2>2
  <2>4. e.stored <= t
    BY <1>3 DEF WriterAhead, InvalidateL1
  <2> QED
    BY <1>1, <2>3, <2>4 DEF Outdone, Tombstoned, Time
<1>4. CASE k # op[g].key
  <2>1. /\ l1'[c][k] = l1[c][k] /\ epoch'[k] = epoch[k]
        /\ marked[k] = tombstones[c][k]
    BY <1>1, <1>4 DEF InvalidateL1
  <2>2. Outdone(c, k, e)
    BY <2>1 DEF SupersededAreOutdone
  <2>3. CASE k \in drop /\ Tombstoned(c, k, e)
    <3>1. /\ tombstones[c][k] # NoTime /\ e.stored <= tombstones[c][k]
          /\ pruned'[c][k] \in Nat /\ tombstones[c][k] <= pruned'[c][k]
      BY <1>1, <1>2, <2>1, <2>3, LaterType DEF Tombstoned
    <3>2. TombstoneTTL > 0 /\ pruned'[c][k] + TombstoneTTL < clock
      BY <1>1, <3>1 DEF PrunedLongAgo, NoTime
    <3>3. LivesAtMost(e) /\ e # NoEntry
      BY DEF Lifetimes, Holds
    <3>4. e.expires # NoTime /\ e.expires <= e.stored + TombstoneTTL /\ e.expires \in Nat
      BY <3>2, <3>3 DEF LivesAtMost, Entry
    <3>5. Expired(e, clock)
      BY <1>1, <3>1, <3>2, <3>4 DEF Expired, Time
    <3> QED
      BY <1>1, <3>5 DEF Outdone
  <2>4. CASE k \notin drop \/ ~Tombstoned(c, k, e)
    <3>1. CASE k \notin drop
      <4>1. tombstones'[c][k] = tombstones[c][k]
        BY <1>2, <2>1, <3>1
      <4> QED
        BY <1>1, <2>1, <2>2, <4>1 DEF Outdone, Tombstoned
    <3>2. CASE ~Tombstoned(c, k, e)
      BY <1>1, <2>1, <2>2, <3>2 DEF Outdone
    <3> QED
      BY <2>4, <3>1, <3>2
  <2> QED
    BY <2>3, <2>4
<1> QED
  BY <1>3, <1>4

LEMMA StepOutdone ==
    ASSUME OneWriter, OneCache, OneTTL, History, Retained, Retained', SupersededAreOutdone,
           [Next]_cacheVars
    PROVE  SupersededAreOutdone'
<1> SUFFICES ASSUME NEW c \in Instances, NEW k \in Keys, NEW e \in Entry,
                    Holds(k, e)', e.ver < epoch'[k]
             PROVE  Outdone(c, k, e)'
  BY DEF SupersededAreOutdone
<1> USE CacheAssumption DEF History, Retained
<1>1. Holds(k, e)
  <2>1. ASSUME NEW g \in Setters, Made(g, k, e) PROVE FALSE
    <3>1. e.ver = epoch[k] + 1 /\ epoch' = epoch
      BY <2>1, MadeIs
    <3> QED
      BY <3>1, EpochRises
  <2> QED
    BY <2>1, EntriesMove
<1>2. ASSUME NEW g \in Goroutines, GetL1Miss(g) PROVE Outdone(c, k, e)'
  BY <1>1, <1>2, MissOutdone DEF GetL1Miss
<1>3. ASSUME NEW g \in Goroutines, GetPromote(g) PROVE Outdone(c, k, e)'
  BY <1>1, <1>3, PromotionOutdone DEF GetPromote
<1>4. ASSUME NEW g \in Goroutines, SetL1(g) PROVE Outdone(c, k, e)'
  BY <1>1, <1>4, SetOutdone
<1>5. ASSUME NEW g \in Goroutines, InvalidateL1(g) PROVE Outdone(c, k, e)'
  BY <1>1, <1>5, InvalidationOutdone
<1>6. CASE UNCHANGED <<l1, epoch, tombstones>>
  <2>1. Outdone(c, k, e)
    BY <1>1, <1>6 DEF SupersededAreOutdone
  <2>2. clock \in Nat /\ clock' \in Nat /\ clock <= clock' /\ e.expires \in Nat
    BY ClockRises DEF Entry
  <2>3. Expired(e, clock) => Expired(e, clock')
    BY <2>2 DEF Expired
  <2> QED
    BY <1>6, <2>1, <2>3 DEF Outdone, Tombstoned
<1> QED
  BY <1>2, <1>3, <1>4, <1>5, <1>6, ContentsChange

SinceInPast == \A g \in Goroutines : op[g].since <= epoch[op[g].key]

LEMMA StepSince == Typed /\ SinceInPast /\ [Next]_cacheVars => SinceInPast'
<1> SUFFICES ASSUME Typed, SinceInPast, [Next]_cacheVars, NEW h \in Goroutines
             PROVE  op'[h].since <= epoch'[op'[h].key]
  BY DEF SinceInPast
<1> USE CacheAssumption
<1> DEFINE Kept == op'[h].key = op[h].key /\ op'[h].since = op[h].since
           Fresh == op'[h].since = 0 \/ op'[h].since = epoch[op'[h].key]
<1>0. /\ op[h].key \in Keys /\ op'[h].key \in Keys /\ op[h].since \in Nat
      /\ \A k \in Keys : epoch[k] \in Nat /\ epoch'[k] \in Nat /\ epoch[k] <= epoch'[k]
  BY StepTyped, EpochRises DEF Typed, TypeOK, Call
<1> SUFFICES Kept \/ Fresh
  BY <1>0 DEF SinceInPast
<1> USE DEF Typed, TypeOK
<1>1. ASSUME NEW g \in Goroutines,
             \/ \E k \in Keys : Get(g, k) \/ Invalidate(g, k)
             \/ \E k \in Keys, ttl \in TTLs : SetWithTTL(g, k, ttl)
      PROVE  Kept \/ Fresh
  <2>1. CASE g = h
    BY <1>1, <2>1 DEF Get, GetBegin, Invalidate, InvalidateBegin, SetWithTTL, SetBegin, Begin
  <2>2. CASE g # h
    BY <1>1, <2>2 DEF Get, GetBegin, Invalidate, InvalidateBegin, SetWithTTL, SetBegin, Begin
  <2> QED
    BY <2>1, <2>2
<1>2. ASSUME NEW g \in Goroutines, GetL1Hit(g) \/ GetKeep(g) \/ GetClock(g) PROVE Kept
  <2>1. CASE GetL1Hit(g)
    BY <2>1 DEF GetL1Hit
  <2>2. CASE GetKeep(g)
    BY <2>2 DEF GetKeep
  <2>3. CASE GetClock(g)
    BY <2>3 DEF GetClock
  <2> QED
    BY <1>2, <2>1, <2>2, <2>3
<1>3. ASSUME NEW g \in Goroutines, GetL2Found(g) PROVE Kept
  BY <1>3 DEF GetL2Found
<1>4. ASSUME NEW g \in Goroutines,
             \/ GetL1Miss(g) \/ GetL2Absent(g) \/ GetL2Error(g) \/ GetReject(g) \/ GetPromote(g)
             \/ SetL1(g) \/ SetL2(g) \/ InvalidateL1(g) \/ InvalidateL2(g)
      PROVE  Kept
  BY <1>4 DEF GetL1Miss, GetL2Absent, GetL2Error, GetReject, GetPromote,
     SetL1, SetL2, InvalidateL1, InvalidateL2
<1>5. ASSUME NEW g \in Goroutines, Return(g) PROVE Kept \/ Fresh
  BY <1>5 DEF Return, NoCall
<1>6. CASE Tick \/ UNCHANGED cacheVars
  BY <1>6 DEF Tick, cacheVars
<1> HIDE DEF Kept, Fresh
<1> QED
  BY <1>1, <1>2, <1>3, <1>4, <1>5, <1>6 DEF Next, Step, GetStep

(***************************************************************************)
(* How a call comes to be a hit, and with which entry: one that is         *)
(* servable, or one that it promotes over an L1 that is not.               *)
(***************************************************************************)
LEMMA HitComes ==
    ASSUME Typed, [Next]_cacheVars, NEW h \in Goroutines, Hit(h)'
    PROVE  \/ Hit(h) /\ op'[h] = op[h]
           \/ /\ op'[h].key = op[h].key /\ op'[h].since = op[h].since
              /\ \/ ServableL1(h) /\ op'[h].ent = l1[Here(h)][op[h].key]
                 \/ GetPromote(h) /\ op'[h].ent = op[h].ent
<1> DEFINE Goal == \/ Hit(h) /\ op'[h] = op[h]
                   \/ /\ op'[h].key = op[h].key /\ op'[h].since = op[h].since
                      /\ \/ ServableL1(h) /\ op'[h].ent = l1[Here(h)][op[h].key]
                         \/ GetPromote(h) /\ op'[h].ent = op[h].ent
<1> USE CacheAssumption DEF Typed, TypeOK, Hit
<1>1. ASSUME NEW g \in Goroutines,
             \/ \E k \in Keys : Get(g, k) \/ Invalidate(g, k)
             \/ \E k \in Keys, ttl \in TTLs : SetWithTTL(g, k, ttl)
      PROVE  Goal
  BY <1>1 DEF Get, GetBegin, Invalidate, InvalidateBegin, SetWithTTL, SetBegin, Begin
<1>2. ASSUME NEW g \in Goroutines, GetL1Hit(g) \/ GetKeep(g) PROVE Goal
  <2>1. CASE g = h
    <3>1. CASE GetL1Hit(h)
      BY <3>1 DEF GetL1Hit
    <3>2. CASE GetKeep(h)
      BY <3>2 DEF GetKeep, KeepsL1
    <3> QED
      BY <1>2, <2>1, <3>1, <3>2
  <2>2. CASE g # h
    BY <1>2, <2>2 DEF GetL1Hit, GetKeep, Finish
  <2> QED
    BY <2>1, <2>2
<1>3. ASSUME NEW g \in Goroutines, GetPromote(g) PROVE Goal
  BY <1>3 DEF GetPromote, Finish
<1>4. ASSUME NEW g \in Goroutines,
             \/ GetL1Miss(g) \/ GetL2Found(g) \/ GetL2Absent(g) \/ GetL2Error(g) \/ GetClock(g)
             \/ GetReject(g) \/ SetL1(g) \/ SetL2(g) \/ InvalidateL1(g) \/ InvalidateL2(g)
             \/ Return(g)
      PROVE  Goal
  <2>1. CASE g = h
    BY <1>4, <2>1 DEF GetL1Miss, GetL2Found, GetL2Absent, GetL2Error, GetClock, GetReject,
       SetL1, SetL2, InvalidateL1, InvalidateL2, Return, Finish
  <2>2. CASE g # h
    BY <1>4, <2>2 DEF GetL1Miss, GetL2Found, GetL2Absent, GetL2Error, GetClock, GetReject,
       SetL1, SetL2, InvalidateL1, InvalidateL2, Return, Finish
  <2> QED
    BY <2>1, <2>2
<1>5. CASE Tick \/ UNCHANGED cacheVars
  BY <1>5 DEF Tick, cacheVars
<1> HIDE DEF Goal
<1> QED
  BY <1>1, <1>2, <1>3, <1>4, <1>5 DEF Next, Step, GetStep, Goal

LEMMA StepStale ==
    ASSUME OneTTL, History, Retained, SinceInPast, SupersededAreOutdone, StaleServeHasExpired,
           [Next]_cacheVars
    PROVE  StaleServeHasExpired'
<1> SUFFICES ASSUME NEW h \in Goroutines, Hit(h)', op'[h].ent.ver < op'[h].since
             PROVE  Expired(op'[h].ent, clock')
  <2>1. Typed'
    BY StepTyped DEF History
  <2>2. ASSUME NEW h \in Goroutines, Hit(h)', ~(op'[h].ent.ver >= op'[h].since)
        PROVE  op'[h].ent.ver < op'[h].since
    BY <2>1, <2>2 DEF Typed, TypeOK, HandlesEntry, Carrying, Hit, Call, Entry
  <2> QED
    BY <2>2 DEF StaleServeHasExpired
<1> USE CacheAssumption DEF History
<1> DEFINE c == Here(h)
           k == op[h].key
           e == op'[h].ent
<1>1. e \in Entry
  BY StepTyped DEF Typed, TypeOK, HandlesEntry, Carrying, Hit
<1>2. /\ clock \in Nat /\ clock' \in Nat /\ clock <= clock'
      /\ c \in Instances /\ k \in Keys /\ op[h].now \in Nat /\ op[h].now <= clock
      /\ op[h].since \in Nat /\ epoch[k] \in Nat /\ op[h].since <= epoch[k]
  BY ClockRises DEF Typed, TypeOK, Call, Retained, NowInPast, SinceInPast, Here
<1>3. CASE Expired(e, clock)
  BY <1>1, <1>2, <1>3 DEF Expired, Entry
<1>4. CASE Hit(h) /\ op'[h] = op[h]
  <2>1. ~(op[h].ent.ver >= op[h].since)
    BY <1>1, <1>2, <1>4 DEF Entry
  <2> QED
    BY <1>3, <1>4, <2>1 DEF StaleServeHasExpired
<1>5. CASE op'[h].since = op[h].since /\ ServableL1(h) /\ e = l1[c][k]
  <2>1. Holds(k, e) /\ e.ver < epoch[k] /\ ~(e.ver >= epoch[k])
    BY <1>1, <1>2, <1>5 DEF Holds, Entry
  <2>2. Outdone(c, k, e)
    BY <1>1, <1>2, <2>1 DEF SupersededAreOutdone
  <2>3. ~Tombstoned(c, k, e)
    BY <1>5 DEF ServableL1, validLocked
  <2> QED
    BY <1>3, <1>5, <2>1, <2>2, <2>3 DEF Outdone
<1>6. CASE op'[h].since = op[h].since /\ GetPromote(h) /\ e = op[h].ent
  <2>1. Holds(k, e) /\ e.ver < epoch[k]
    BY <1>1, <1>2, <1>6 DEF Holds, Entry
  <2>2. Outdone(c, k, e)
    BY <1>1, <1>2, <2>1 DEF SupersededAreOutdone
  <2>3. ~Tombstoned(c, k, e) /\ ~KeepsL1(h)
    BY <1>6 DEF GetPromote, validLocked
  <2>4. ASSUME l1[c][k] # NoEntry, e.stored <= l1[c][k].stored
        PROVE  Expired(e, clock)
    <3>1. ~ServableL1(h)
      BY <1>6, <2>3, <2>4 DEF KeepsL1
    <3> QED
      BY <1>1, <2>1, <2>3, <2>4, <3>1, UnservableOutdoes DEF Retained
  <2> QED
    BY <1>3, <2>2, <2>3, <2>4 DEF Outdone
<1> QED
  BY <1>4, <1>5, <1>6, HitComes

(***************************************************************************)
(* Whatever the store does wrong and however Gets, Sets and Invalidates    *)
(* interleave: a value that was superseded before a Get began is returned  *)
(* by it only if it has expired while the call was under way.              *)
(***************************************************************************)
THEOREM StaleOnlyIfExpired ==
    ASSUME OneWriter, OneCache, OneTTL
    PROVE  Spec => []StaleServeHasExpired
<1>1. Init => SinceInPast /\ SupersededAreOutdone /\ StaleServeHasExpired
  <2> SUFFICES ASSUME Init PROVE SinceInPast /\ SupersededAreOutdone /\ StaleServeHasExpired
    OBVIOUS
  <2>1. SinceInPast /\ StaleServeHasExpired
    BY CacheAssumption DEF Init, SinceInPast, StaleServeHasExpired, Hit, NoCall
  <2>2. SupersededAreOutdone
    BY DEF Init, SupersededAreOutdone, Entry
  <2> QED
    BY <2>1, <2>2
<1>2. /\ History /\ Retained /\ Retained'
      /\ SinceInPast /\ SupersededAreOutdone /\ StaleServeHasExpired
      /\ [Next]_cacheVars
      => (SinceInPast /\ SupersededAreOutdone /\ StaleServeHasExpired)'
  BY StepSince, StepOutdone, StepStale DEF History
<1> QED
  BY <1>1, <1>2, AlwaysHistory, AlwaysRetained, PTL DEF Spec

(***************************************************************************)
(* If values do not expire, no Get ever returns a value that was           *)
(* superseded before it began.                                             *)
(***************************************************************************)
THEOREM NothingStaleServed ==
    ASSUME OneWriter, OneCache, TTLs \subseteq {0}
    PROVE  Spec => []NoStaleServe
<1>1. OneTTL
  BY DEF OneTTL
<1>2. ASSUME Typed, Uniform, StaleServeHasExpired PROVE NoStaleServe
  <2> SUFFICES ASSUME NEW g \in Goroutines, Hit(g) PROVE op[g].ent.ver >= op[g].since
    BY DEF NoStaleServe
  <2>1. op[g].ent \in Entry /\ op[g].key \in Keys
    BY <1>2 DEF Typed, TypeOK, HandlesEntry, Carrying, Hit, Call
  <2>2. PICK ttl \in TTLs : op[g].ent.expires = ExpiresAt(op[g].ent.stored, ttl)
    BY <1>2, <2>1 DEF Uniform, Holds
  <2>3. ttl = 0
    OBVIOUS
  <2>4. \A t : ExpiresAt(t, 0) = NoTime
    BY DEF ExpiresAt
  <2>5. op[g].ent.expires = NoTime
    BY <2>2, <2>3, <2>4
  <2> QED
    BY <1>2, <2>5 DEF StaleServeHasExpired, Expired
<1>3. History => Typed /\ Uniform
  BY DEF History
<1> QED
  BY <1>1, <1>2, <1>3, AlwaysHistory, StaleOnlyIfExpired, PTL

-----------------------------------------------------------------------------
(***************************************************************************)
(* How long tombstones stay.  An Invalidate reads its clock before it      *)
(* takes the lock: one that is overtaken by another would leave an older   *)
(* tombstone than the sweep of the other looked for, so each cache has one *)
(* goroutine that invalidates.                                             *)
(***************************************************************************)
OneInvalidator == \A i \in Invalidators, j \in Invalidators : Here(i) = Here(j) => i = j

SweptLately ==
    /\ \A c \in Instances : lastPrune[c] <= clock
    /\ \A c \in Instances, k \in Keys :
          tombstones[c][k] # NoTime => lastPrune[c] <= tombstones[c][k] + TombstoneTTL
    /\ \A g \in Goroutines : pc[g] = "invL1" => lastPrune[Here(g)] <= op[g].now

(***************************************************************************)
(* What one sweep, or the lack of it, leaves behind.                       *)
(***************************************************************************)
LEMMA Sweeps ==
    ASSUME TombstoneTTL > 0, Typed, SweptLately, NowInPast,
           NEW g \in Goroutines, InvalidateL1(g), NEW k \in Keys
    PROVE  LET c == Here(g)
           IN  /\ c \in Instances /\ lastPrune'[c] \in Nat /\ tombstones'[c][k] \in Nat
               /\ op[g].now \in Nat /\ lastPrune'[c] <= op[g].now
               /\ tombstones'[c][k] # NoTime =>
                     /\ lastPrune'[c] <= tombstones'[c][k] + TombstoneTTL
                     /\ op[g].now < tombstones'[c][k] + 2 * TombstoneTTL
               /\ clock' = clock /\ op' = op
               /\ \A d \in Instances \ {c} :
                     lastPrune'[d] = lastPrune[d] /\ tombstones'[d] = tombstones[d]
<1> DEFINE c == Here(g)
           t == op[g].now
           marked == [tombstones[c] EXCEPT ![op[g].key] = t]
           drop == IF PruneDue(c, t) THEN {j \in Keys : Prunable(marked[j], t)} ELSE {}
<1> USE CacheAssumption DEF Typed, TypeOK
<1>1. /\ c \in Instances /\ t \in Nat /\ op[g].key \in Keys
      /\ marked \in [Keys -> Nat] /\ lastPrune[c] \in Nat /\ TombstoneTTL \in Nat
  BY DEF Here, Call
<1>2. /\ lastPrune[c] <= t /\ pc[g] = "invL1"
      /\ lastPrune' = [lastPrune EXCEPT ![c] = IF PruneDue(c, t) THEN t ELSE @]
      /\ tombstones' = [tombstones EXCEPT
              ![c] = [j \in Keys |-> IF j \in drop THEN NoTime ELSE marked[j]]]
      /\ clock' = clock /\ op' = op
  BY DEF InvalidateL1, SweptLately
<1>3. tombstones'[c][k] = IF k \in drop THEN NoTime ELSE marked[k]
  BY <1>1, <1>2
<1>4. marked[k] # NoTime => lastPrune[c] <= marked[k] + TombstoneTTL
  <2>1. CASE k = op[g].key
    BY <1>1, <1>2, <2>1
  <2>2. CASE k # op[g].key
    BY <1>1, <2>2 DEF SweptLately
  <2> QED
    BY <2>1, <2>2
<1>5. lastPrune'[c] = (IF PruneDue(c, t) THEN t ELSE lastPrune[c])
      /\ \A d \in Instances \ {c} :
            lastPrune'[d] = lastPrune[d] /\ tombstones'[d] = tombstones[d]
  BY <1>1, <1>2
<1> HIDE DEF marked, c, t
<1>6. CASE PruneDue(c, t)
  <2>1. tombstones'[c][k] # NoTime => tombstones'[c][k] = marked[k] /\ ~Prunable(marked[k], t)
    BY <1>3, <1>6
  <2>2. tombstones'[c][k] # NoTime => t <= tombstones'[c][k] + TombstoneTTL
    BY <1>1, <2>1 DEF Prunable
  <2>3. tombstones'[c][k] \in Nat
    BY <1>1, <1>3 DEF NoTime
  <2> QED
    BY <1>1, <1>2, <1>5, <1>6, <2>2, <2>3 DEF c, t
<1>7. CASE ~PruneDue(c, t)
  <2>1. tombstones'[c][k] = marked[k] /\ tombstones'[c][k] \in Nat
    BY <1>1, <1>3, <1>7
  <2>2. t < lastPrune[c] + TombstoneTTL
    BY <1>1, <1>7 DEF PruneDue
  <2> QED
    BY <1>1, <1>2, <1>4, <1>5, <1>7, <2>1, <2>2 DEF c, t
<1> QED
  BY <1>6, <1>7

LEMMA StepSwept ==
    TombstoneTTL > 0 /\ OneInvalidator /\ Typed /\ Roles /\ NowInPast /\ SweptLately
        /\ [Next]_cacheVars => SweptLately'
<1> SUFFICES ASSUME TombstoneTTL > 0, OneInvalidator, Typed, Roles, NowInPast, SweptLately,
                    [Next]_cacheVars
             PROVE  SweptLately'
  OBVIOUS
<1> USE CacheAssumption DEF Typed, TypeOK
<1>0. /\ clock \in Nat /\ clock' \in Nat /\ clock <= clock'
      /\ \A c \in Instances : lastPrune[c] \in Nat
      /\ \A c \in Instances, k \in Keys : tombstones[c][k] \in Nat
      /\ \A g \in Goroutines : Here(g) \in Instances /\ op[g].now \in Nat /\ op[g].now <= clock
  BY ClockRises DEF Here, Call, NowInPast
<1>1. CASE /\ lastPrune' = lastPrune
           /\ \A c \in Instances, k \in Keys :
                 tombstones'[c][k] \in {tombstones[c][k], NoTime}
           /\ \A g \in Goroutines : ~InvalidateL1(g)
  <2>1. /\ \A c \in Instances : lastPrune'[c] <= clock'
        /\ \A c \in Instances, k \in Keys :
              tombstones'[c][k] # NoTime => lastPrune'[c] <= tombstones'[c][k] + TombstoneTTL
    BY <1>0, <1>1 DEF SweptLately
  <2>2. ASSUME NEW g \in Goroutines, pc'[g] = "invL1"
        PROVE  lastPrune'[Here(g)] <= op'[g].now
    <3>1. CASE pc[g] = "invL1"
      <4>1. ~SetL1(g) /\ ~InvalidateL1(g)
        BY <1>1, <3>1 DEF SetL1
      <4>2. op'[g] = op[g]
        BY <3>1, <4>1, WriterGoesOn
      <4> QED
        BY <1>1, <3>1, <4>2 DEF SweptLately
    <3>2. CASE pc[g] = "setL1"
      <4>1. CASE SetL1(g)
        BY <2>2, <4>1 DEF SetL1, Finish
      <4>2. CASE ~SetL1(g)
        BY <1>1, <2>2, <3>2, <4>2, WriterGoesOn
      <4> QED
        BY <4>1, <4>2
    <3>3. CASE pc[g] \notin {"setL1", "invL1"}
      <4>1. op'[g].now = clock
        BY <2>2, <3>3, WriterBegins
      <4> QED
        BY <1>0, <1>1, <4>1 DEF SweptLately
    <3> QED
      BY <3>1, <3>2, <3>3
  <2> QED
    BY <2>1, <2>2 DEF SweptLately, Here
<1>2. ASSUME NEW g \in Goroutines, InvalidateL1(g) PROVE SweptLately'
  <2> DEFINE c == Here(g)
  <2>1. /\ c \in Instances /\ lastPrune'[c] \in Nat
        /\ op[g].now \in Nat /\ lastPrune'[c] <= op[g].now
        /\ clock' = clock /\ op' = op
        /\ \A d \in Instances \ {c} :
              lastPrune'[d] = lastPrune[d] /\ tombstones'[d] = tombstones[d]
        /\ \A k \in Keys : tombstones'[c][k] # NoTime =>
              lastPrune'[c] <= tombstones'[c][k] + TombstoneTTL
    <3>1. \A k \in Keys : LET c0 == Here(g)
           IN  /\ c0 \in Instances /\ lastPrune'[c0] \in Nat /\ tombstones'[c0][k] \in Nat
               /\ op[g].now \in Nat /\ lastPrune'[c0] <= op[g].now
               /\ tombstones'[c0][k] # NoTime =>
                     /\ lastPrune'[c0] <= tombstones'[c0][k] + TombstoneTTL
                     /\ op[g].now < tombstones'[c0][k] + 2 * TombstoneTTL
               /\ clock' = clock /\ op' = op
               /\ \A d \in Instances \ {c0} :
                     lastPrune'[d] = lastPrune[d] /\ tombstones'[d] = tombstones[d]
      BY <1>2, Sweeps
    <3>2. op[g].key \in Keys
      BY DEF Call
    <3> HIDE DEF c
    <3> QED
      BY <3>1, <3>2 DEF c
  <2>2. ASSUME NEW h \in Goroutines, pc'[h] = "invL1"
        PROVE  pc[h] = "invL1" /\ Here(h) # c
    <3>1. h # g /\ pc'[h] = pc[h]
      BY <1>2, <2>2 DEF InvalidateL1, Finish
    <3>2. h \in Invalidators /\ g \in Invalidators
      BY <1>2, <2>2, <3>1 DEF Roles, InvalidateL1
    <3> QED
      BY <2>2, <3>1, <3>2 DEF OneInvalidator
  <2>3. \A h \in Goroutines : pc'[h] = "invL1" => lastPrune'[Here(h)] <= op'[h].now
    BY <1>0, <2>1, <2>2 DEF SweptLately
  <2>4. \A d \in Instances : lastPrune'[d] <= clock'
    <3>1. op[g].now <= clock
      BY <1>0
    <3>2. lastPrune'[c] <= clock'
      BY <1>0, <2>1, <3>1
    <3> QED
      BY <2>1, <3>2 DEF SweptLately
  <2>5. \A d \in Instances, k \in Keys :
            tombstones'[d][k] # NoTime => lastPrune'[d] <= tombstones'[d][k] + TombstoneTTL
    BY <2>1 DEF SweptLately
  <2> QED
    BY <2>3, <2>4, <2>5 DEF SweptLately, Here
<1>3. ASSUME NEW g \in Goroutines, SetL1(g) PROVE SweptLately'
  <2>1. /\ lastPrune' = lastPrune
        /\ \A c \in Instances, k \in Keys : tombstones'[c][k] \in {tombstones[c][k], NoTime}
    BY <1>3 DEF SetL1, Call, Here
  <2>2. \A h \in Goroutines : ~InvalidateL1(h)
    BY <1>3 DEF SetL1, InvalidateL1, Finish
  <2> QED
    BY <1>1, <2>1, <2>2
<1>4. CASE UNCHANGED <<tombstones, lastPrune>> /\ \A g \in Goroutines : ~InvalidateL1(g)
  BY <1>1, <1>4
<1> QED
  BY <1>2, <1>3, <1>4, LayersChange

(***************************************************************************)
(* The tombstones of a cache that prunes are bounded in age: an Invalidate *)
(* leaves none behind that is two retention windows older than itself,     *)
(* although the sweep runs at most once in a window.                       *)
(***************************************************************************)
THEOREM TombstonesAreBounded ==
    ASSUME TombstoneTTL > 0, OneInvalidator
    PROVE  Spec => RetentionBounded
<1>1. Init => Roles /\ SweptLately
  BY CacheAssumption, InitHistory DEF Init, SweptLately, NoTime, Here
<1>2. Roles /\ SweptLately /\ Typed /\ Retained /\ [Next]_cacheVars => (Roles /\ SweptLately)'
  BY StepRoles, StepSwept DEF Retained
<1>3. ASSUME Roles, SweptLately, Typed, Retained, [Next]_cacheVars
      PROVE  [\A g \in Goroutines : InvalidateL1(g) =>
                 \A j \in Keys : LET tomb == tombstones'[Here(g)][j]
                                 IN  tomb # NoTime => tomb > op[g].now - 2 * TombstoneTTL]_cacheVars
  <2> SUFFICES ASSUME NEW g \in Goroutines, InvalidateL1(g), NEW j \in Keys,
                      tombstones'[Here(g)][j] # NoTime
               PROVE  tombstones'[Here(g)][j] > op[g].now - 2 * TombstoneTTL
    OBVIOUS
  <2>1. /\ tombstones'[Here(g)][j] \in Nat /\ op[g].now \in Nat
        /\ op[g].now < tombstones'[Here(g)][j] + 2 * TombstoneTTL
    BY <1>3, Sweeps DEF Retained
  <2>2. TombstoneTTL \in Nat
    BY CacheAssumption
  <2> QED
    BY <2>1, <2>2
<1> QED
  BY <1>1, <1>2, <1>3, AlwaysTyped, AlwaysRetained, PTL DEF Spec, RetentionBounded

=============================================================================
