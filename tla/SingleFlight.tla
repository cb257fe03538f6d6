---------------------------- MODULE SingleFlight ----------------------------
(***************************************************************************)
(* GetOrCompute (singleflight.go) on top of Cache, with the optional       *)
(* cross-process lock (crossprocess.go, filelock_unix.go): the registry of *)
(* computations in flight, the double check, the tombstone snapshot around *)
(* compute, the write-back, and the wait for another process's result.     *)
(*                                                                         *)
(* The calls GetOrCompute makes to Get and SetWithTTL run as the steps of  *)
(* Cache; flight says where the surrounding GetOrCompute is.               *)
(***************************************************************************)
EXTENDS Cache

CONSTANTS
    Computers,      \* the goroutines that call GetOrCompute
    HasLock,        \* whether WithCrossProcessLock installed a lock
    CallFaults,     \* what may go wrong around compute, see below
    Nobody,         \* the absence of a goroutine
    Failed,         \* the answer of a call that returned an error
    MaxCrashes      \* bound: process crashes

(***************************************************************************)
(* "compute": compute returns an error.  "panic": compute panics and its   *)
(* caller recovers.  "trylock": the lock backend fails.  "timeout": the    *)
(* wait for another process runs out of its budget.                        *)
(***************************************************************************)
ASSUME SingleFlightAssumption ==
    /\ Computers \subseteq Goroutines
    /\ HasLock \in BOOLEAN
    /\ CallFaults \subseteq {"compute", "panic", "trylock", "timeout"}
    /\ Nobody \notin Goroutines
    /\ Failed \notin Nat
    /\ MaxCrashes \in Nat

VARIABLES
    flight,         \* where each goroutine is in GetOrCompute
    job,            \* its locals
    sf,             \* Cache.sf: the goroutine computing each key, per instance
    sfMu,           \* the holder of Cache.sfMu, per instance
    xlock,          \* the holder of each key's cross-process lock
    crashes,        \* how many processes have crashed
    computes        \* history: values computed per key in this life of a process

sfVars == <<flight, job, sf, sfMu, xlock, crashes, computes>>

vars == <<cacheVars, sfVars>>

(***************************************************************************)
(* The winner of a key is in one of Leading until it frees its slot.       *)
(***************************************************************************)
Leading == {"guard", "sleep", "poll", "snap", "compute", "check", "write",
            "unlock", "publish", "release"}

Flights == {"out", "fast", "lock", "recheck", "join", "answer"} \cup Leading

(***************************************************************************)
(* genBefore is the tombstone snapshot, answer the version of the value    *)
(* (or Failed), ttl its time to live.  History: overtaken says that an     *)
(* Invalidate of the key landed between the snapshot and the check.        *)
(***************************************************************************)
Job == [genBefore : Nat, answer : Nat \cup {Failed}, ttl : Nat, overtaken : BOOLEAN]

NoJob == [genBefore |-> NoTime, answer |-> Failed, ttl |-> 0, overtaken |-> FALSE]

SFTypeOK ==
    /\ TypeOK
    /\ flight \in [Goroutines -> Flights]
    /\ job \in [Goroutines -> Job]
    /\ sf \in [Instances -> [Keys -> Goroutines \cup {Nobody}]]
    /\ sfMu \in [Instances -> Goroutines \cup {Nobody}]
    /\ xlock \in [Keys -> Goroutines \cup {Nobody}]
    /\ crashes \in 0 .. MaxCrashes
    /\ computes \in [Instances -> [Keys -> Nat]]

SFInit ==
    /\ Init
    /\ flight = [g \in Goroutines |-> "out"]
    /\ job = [g \in Goroutines |-> NoJob]
    /\ sf = [c \in Instances |-> [k \in Keys |-> Nobody]]
    /\ sfMu = [c \in Instances |-> Nobody]
    /\ xlock = [k \in Keys |-> Nobody]
    /\ crashes = 0
    /\ computes = [c \in Instances |-> [k \in Keys |-> 0]]

-----------------------------------------------------------------------------
(* Helpers.                                                                *)

Key(g) == op[g].key

Goto(g, at) == flight' = [flight EXCEPT ![g] = at]

(* What the inner Get returned is consumed: no inner call is under way.    *)
InnerDone(g) ==
    /\ pc' = [pc EXCEPT ![g] = "idle"]
    /\ UNCHANGED <<clock, store, layers, op>>

Answer(g, v) == job' = [job EXCEPT ![g].answer = v]

NoStore == UNCHANGED <<clock, store, layers>>

-----------------------------------------------------------------------------
(* The fast path.                                                          *)

GetOrCompute(g, k) ==
    /\ g \in Computers
    /\ flight[g] = "out"
    /\ pc[g] = "idle"
    /\ GetBegin(g, k)
    /\ Goto(g, "fast")
    /\ NoStore
    /\ UNCHANGED <<job, sf, sfMu, xlock, crashes, computes>>

FastHit(g) ==
    /\ flight[g] = "fast"
    /\ pc[g] = "hit"
    /\ Answer(g, op[g].ent.ver)
    /\ Goto(g, "answer")
    /\ InnerDone(g)
    /\ UNCHANGED <<sf, sfMu, xlock, crashes, computes>>

(* An error of the store is returned, not computed over.                   *)
FastError(g) ==
    /\ flight[g] = "fast"
    /\ pc[g] = "error"
    /\ Answer(g, Failed)
    /\ Goto(g, "answer")
    /\ InnerDone(g)
    /\ UNCHANGED <<sf, sfMu, xlock, crashes, computes>>

FastMiss(g) ==
    /\ flight[g] = "fast"
    /\ pc[g] = "miss"
    /\ Goto(g, "lock")
    /\ InnerDone(g)
    /\ UNCHANGED <<job, sf, sfMu, xlock, crashes, computes>>

-----------------------------------------------------------------------------
(* The registry, under sfMu.                                               *)

(* A computation is in flight: wait for it, or take its published answer.  *)
Join(g) ==
    LET w == sf[Here(g)][Key(g)]
    IN  /\ flight[g] = "lock"
        /\ sfMu[Here(g)] = Nobody
        /\ w # Nobody
        /\ IF flight[w] = "release"
           THEN Goto(g, "answer") /\ Answer(g, job[w].answer)
           ELSE Goto(g, "join") /\ job' = job
        /\ UNCHANGED <<cacheVars, sf, sfMu, xlock, crashes, computes>>

(* Mutants: the double check is left out, or made after sfMu is released.  *)
RegisterUnchecked(g) ==
    /\ flight[g] = "lock"
    /\ sfMu[Here(g)] = Nobody
    /\ sf[Here(g)][Key(g)] = Nobody
    /\ sf' = [sf EXCEPT ![Here(g)][Key(g)] = g]
    /\ Goto(g, IF HasLock THEN "guard" ELSE "snap")
    /\ UNCHANGED <<cacheVars, job, sfMu, xlock, crashes, computes>>

RecheckUnlocked(g) ==
    /\ flight[g] = "lock"
    /\ sfMu[Here(g)] = Nobody
    /\ sf[Here(g)][Key(g)] = Nobody
    /\ GetBegin(g, Key(g))
    /\ Goto(g, "recheck")
    /\ NoStore
    /\ UNCHANGED <<job, sf, sfMu, xlock, crashes, computes>>

(* No computation in flight: look once more, still holding sfMu.           *)
Recheck(g) ==
    /\ flight[g] = "lock"
    /\ sfMu[Here(g)] = Nobody
    /\ sf[Here(g)][Key(g)] = Nobody
    /\ sfMu' = [sfMu EXCEPT ![Here(g)] = g]
    /\ GetBegin(g, Key(g))
    /\ Goto(g, "recheck")
    /\ NoStore
    /\ UNCHANGED <<job, sf, xlock, crashes, computes>>

RecheckHit(g) ==
    /\ flight[g] = "recheck"
    /\ pc[g] = "hit"
    /\ sfMu' = [sfMu EXCEPT ![Here(g)] = Nobody]
    /\ Answer(g, op[g].ent.ver)
    /\ Goto(g, "answer")
    /\ InnerDone(g)
    /\ UNCHANGED <<sf, xlock, crashes, computes>>

(* A miss, or an error of the store, makes this goroutine the winner.      *)
Register(g) ==
    /\ flight[g] = "recheck"
    /\ pc[g] \in {"miss", "error"}
    /\ sf' = [sf EXCEPT ![Here(g)][Key(g)] = g]
    /\ sfMu' = [sfMu EXCEPT ![Here(g)] = Nobody]
    /\ Goto(g, IF HasLock THEN "guard" ELSE "snap")
    /\ InnerDone(g)
    /\ UNCHANGED <<job, xlock, crashes, computes>>

-----------------------------------------------------------------------------
(* computeGuarded: the cross-process lock and the wait of its losers.      *)

TryLockOk(g) ==
    /\ flight[g] = "guard"
    /\ xlock[Key(g)] = Nobody
    /\ xlock' = [xlock EXCEPT ![Key(g)] = g]
    /\ Goto(g, "snap")
    /\ UNCHANGED <<cacheVars, job, sf, sfMu, crashes, computes>>

(* Another process holds it, or the lock backend failed.                   *)
TryLockBusy(g) ==
    /\ flight[g] = "guard"
    /\ xlock[Key(g)] # Nobody \/ "trylock" \in CallFaults
    /\ Goto(g, "sleep")
    /\ UNCHANGED <<cacheVars, job, sf, sfMu, xlock, crashes, computes>>

Poll(g) ==
    /\ flight[g] = "sleep"
    /\ GetBegin(g, Key(g))
    /\ Goto(g, "poll")
    /\ NoStore
    /\ UNCHANGED <<job, sf, sfMu, xlock, crashes, computes>>

PollFound(g) ==
    /\ flight[g] = "poll"
    /\ pc[g] = "hit"
    /\ Answer(g, op[g].ent.ver)
    /\ Goto(g, "publish")
    /\ InnerDone(g)
    /\ UNCHANGED <<sf, sfMu, xlock, crashes, computes>>

PollAgain(g) ==
    /\ flight[g] = "poll"
    /\ pc[g] \in {"miss", "error"}
    /\ Goto(g, "sleep")
    /\ InnerDone(g)
    /\ UNCHANGED <<job, sf, sfMu, xlock, crashes, computes>>

(* The wait budget is spent: compute after all.                            *)
PollTimeout(g) ==
    /\ "timeout" \in CallFaults
    /\ flight[g] = "poll"
    /\ pc[g] \in {"miss", "error"}
    /\ Goto(g, "snap")
    /\ InnerDone(g)
    /\ UNCHANGED <<job, sf, sfMu, xlock, crashes, computes>>

-----------------------------------------------------------------------------
(* runComputeAndWriteBack.                                                 *)

Snapshot(g) ==
    /\ flight[g] = "snap"
    /\ job' = [job EXCEPT ![g].genBefore = tombstones[Here(g)][Key(g)]]
    /\ Goto(g, "compute")
    /\ UNCHANGED <<cacheVars, sf, sfMu, xlock, crashes, computes>>

(* The deferred unlock runs before the answer is published.                *)
Leave(g) == Goto(g, IF xlock[Key(g)] = g THEN "unlock" ELSE "publish")

(* compute reads its data here; it may take long to return the value.      *)
ComputeOk(g) ==
    /\ flight[g] = "compute"
    /\ \E ttl \in TTLs :
          job' = [job EXCEPT ![g].answer = epoch[Key(g)] + 1, ![g].ttl = ttl]
    /\ computes' = [computes EXCEPT ![Here(g)][Key(g)] = @ + 1]
    /\ Goto(g, "check")
    /\ UNCHANGED <<cacheVars, sf, sfMu, xlock, crashes>>

(* Mutants: an early return that publishes nothing, one that keeps xlock.  *)
ComputeErrorReturns(g) ==
    /\ "compute" \in CallFaults
    /\ flight[g] = "compute"
    /\ Answer(g, Failed)
    /\ Goto(g, "answer")
    /\ UNCHANGED <<cacheVars, sf, sfMu, xlock, crashes, computes>>

ComputeErrorKeepsLock(g) ==
    /\ "compute" \in CallFaults
    /\ flight[g] = "compute"
    /\ Answer(g, Failed)
    /\ Goto(g, "publish")
    /\ UNCHANGED <<cacheVars, sf, sfMu, xlock, crashes, computes>>

ComputeError(g) ==
    /\ "compute" \in CallFaults
    /\ flight[g] = "compute"
    /\ Answer(g, Failed)
    /\ Leave(g)
    /\ UNCHANGED <<cacheVars, sf, sfMu, xlock, crashes, computes>>

(* Only the deferred unlock runs: the slot stays, its channel never closes.*)
ComputePanic(g) ==
    /\ "panic" \in CallFaults
    /\ flight[g] = "compute"
    /\ xlock' = [xlock EXCEPT ![Key(g)] = IF @ = g THEN Nobody ELSE @]
    /\ Goto(g, "out")
    /\ job' = [job EXCEPT ![g] = NoJob]
    /\ op' = [op EXCEPT ![g] = NoCall]
    /\ UNCHANGED <<clock, store, layers, pc, sf, sfMu, crashes, computes>>

(* Mutant: only the first invalidation of a key is noticed.                *)
SupersededByFirst(g) ==
    tombstones[Here(g)][Key(g)] # NoTime /\ job[g].genBefore = NoTime

SupersededByInvalidate(g) ==
    LET genNow == tombstones[Here(g)][Key(g)]
    IN  genNow # NoTime /\ (job[g].genBefore = NoTime \/ genNow > job[g].genBefore)

Discard(g) ==
    /\ flight[g] = "check"
    /\ SupersededByInvalidate(g)
    /\ Leave(g)
    /\ UNCHANGED <<cacheVars, job, sf, sfMu, xlock, crashes, computes>>

Keep(g) ==
    /\ flight[g] = "check"
    /\ ~SupersededByInvalidate(g)
    /\ Goto(g, "write")
    /\ UNCHANGED <<cacheVars, job, sf, sfMu, xlock, crashes, computes>>

WriteBack(g) ==
    /\ flight[g] = "write"
    /\ pc[g] = "idle"
    /\ SetBegin(g, Key(g), job[g].answer, job[g].ttl)
    /\ NoStore
    /\ UNCHANGED sfVars

(* Whether the write-back succeeded is ignored.                            *)
WriteBackDone(g) ==
    /\ flight[g] = "write"
    /\ pc[g] \in {"done", "error"}
    /\ Leave(g)
    /\ InnerDone(g)
    /\ UNCHANGED <<job, sf, sfMu, xlock, crashes, computes>>

Unlock(g) ==
    /\ flight[g] = "unlock"
    /\ xlock' = [xlock EXCEPT ![Key(g)] = Nobody]
    /\ Goto(g, "publish")
    /\ UNCHANGED <<cacheVars, job, sf, sfMu, crashes, computes>>

-----------------------------------------------------------------------------
(* The answer: close(done) wakes every loser, then the slot is freed.      *)

Waiting(g) ==
    {h \in Goroutines : flight[h] = "join" /\ Here(h) = Here(g) /\ Key(h) = Key(g)}

Publish(g) ==
    /\ flight[g] = "publish"
    /\ flight' = [h \in Goroutines |->
          IF h = g THEN "release" ELSE IF h \in Waiting(g) THEN "answer" ELSE flight[h]]
    /\ job' = [h \in Goroutines |->
          IF h \in Waiting(g) THEN [job[h] EXCEPT !.answer = job[g].answer] ELSE job[h]]
    /\ UNCHANGED <<cacheVars, sf, sfMu, xlock, crashes, computes>>

Release(g) ==
    /\ flight[g] = "release"
    /\ sfMu[Here(g)] = Nobody
    /\ sf' = [sf EXCEPT ![Here(g)][Key(g)] = Nobody]
    /\ Goto(g, "answer")
    /\ UNCHANGED <<cacheVars, job, sfMu, xlock, crashes, computes>>

ReturnAnswer(g) ==
    /\ flight[g] = "answer"
    /\ Goto(g, "out")
    /\ job' = [job EXCEPT ![g] = NoJob]
    /\ op' = [op EXCEPT ![g] = NoCall]
    /\ UNCHANGED <<clock, store, layers, pc, sf, sfMu, xlock, crashes, computes>>

-----------------------------------------------------------------------------
(***************************************************************************)
(* The process of instance c dies and is started again: its memory is      *)
(* gone, its file locks are released by the kernel, the store remains.     *)
(***************************************************************************)
Crash(c) ==
    LET dead == {g \in Goroutines : InstanceOf[g] = c}
        Reset(f, v) == [g \in Goroutines |-> IF g \in dead THEN v ELSE f[g]]
    IN  /\ crashes < MaxCrashes
        /\ crashes' = crashes + 1
        /\ l1' = [l1 EXCEPT ![c] = [k \in Keys |-> NoEntry]]
        /\ tombstones' = [tombstones EXCEPT ![c] = [k \in Keys |-> NoTime]]
        /\ lastPrune' = [lastPrune EXCEPT ![c] = NoTime]
        /\ sf' = [sf EXCEPT ![c] = [k \in Keys |-> Nobody]]
        /\ sfMu' = [sfMu EXCEPT ![c] = Nobody]
        /\ computes' = [computes EXCEPT ![c] = [k \in Keys |-> 0]]
        /\ xlock' = [k \in Keys |-> IF xlock[k] \in dead THEN Nobody ELSE xlock[k]]
        /\ pc' = Reset(pc, "idle")
        /\ op' = Reset(op, NoCall)
        /\ flight' = Reset(flight, "out")
        /\ job' = Reset(job, NoJob)
        /\ UNCHANGED <<clock, store, epoch, pruned>>

(* The other callers of the cache.                                         *)
PlainCall(g) ==
    /\ flight[g] = "out"
    /\ \/ \E k \in Keys : Invalidate(g, k)
       \/ \E k \in Keys, ttl \in TTLs : SetWithTTL(g, k, ttl)
       \/ Return(g)
    /\ UNCHANGED sfVars

(* What a goroutine inside GetOrCompute does next, outside of compute.      *)
GuardStep(g) ==
    \/ FastHit(g) \/ FastError(g) \/ FastMiss(g)
    \/ Join(g) \/ Recheck(g) \/ RecheckHit(g) \/ Register(g)
    \/ TryLockOk(g) \/ TryLockBusy(g)
    \/ Poll(g) \/ PollFound(g) \/ PollAgain(g) \/ PollTimeout(g)
    \/ Snapshot(g)
    \/ Discard(g) \/ Keep(g) \/ WriteBack(g) \/ WriteBackDone(g)
    \/ Unlock(g) \/ Publish(g) \/ Release(g)

FlightStep(g) == GuardStep(g) \/ ComputeOk(g) \/ ComputeError(g) \/ ReturnAnswer(g)

(* The computations whose value an Invalidate by g supersedes as it lands. *)
Overtakes(g) ==
    {h \in Goroutines : /\ pc[g] = "invL1"
                        /\ flight[h] \in {"compute", "check"}
                        /\ Here(h) = Here(g) /\ Key(h) = Key(g)}

CacheStep(g) ==
    /\ Step(g)
    /\ job' = [h \in Goroutines |->
          IF h \in Overtakes(g) THEN [job[h] EXCEPT !.overtaken = TRUE] ELSE job[h]]
    /\ UNCHANGED <<flight, sf, sfMu, xlock, crashes, computes>>

SFNext ==
    \/ \E g \in Goroutines :
          \/ \E k \in Keys : GetOrCompute(g, k)
          \/ FlightStep(g)
          \/ ComputePanic(g)
          \/ CacheStep(g)
          \/ PlainCall(g)
    \/ \E c \in Instances : Crash(c)
    \/ Tick /\ UNCHANGED sfVars

SFSpec == SFInit /\ [][SFNext]_vars

-----------------------------------------------------------------------------
(***************************************************************************)
(* Fairness.  A goroutine that can run is scheduled and compute returns;   *)
(* sync.Mutex starves nobody; the deadline of the wait for another process *)
(* is real time and passes.  Nobody has to call, crash or panic.           *)
(***************************************************************************)
LockStep(g) == Join(g) \/ Recheck(g) \/ Release(g)

Fairness ==
    \A g \in Goroutines :
        /\ WF_vars(FlightStep(g) \/ CacheStep(g))
        /\ SF_vars(LockStep(g))
        /\ SF_vars(PollTimeout(g))

FairSFSpec == SFSpec /\ Fairness

-----------------------------------------------------------------------------
(* Properties.                                                             *)

(***************************************************************************)
(* The registry of a process names exactly its goroutines that are under   *)
(* way as winners, one per key: a loser never waits for a goroutine that   *)
(* will not publish, and no second computation runs beside a registered    *)
(* one (singleflight.go 80-107, 121-137).                                  *)
(***************************************************************************)
RegistryIsExact ==
    \A c \in Instances, k \in Keys, g \in Goroutines :
        sf[c][k] = g <=> flight[g] \in Leading /\ Here(g) = c /\ Key(g) = k

(***************************************************************************)
(* The stampede guard implements OneFlight: a computation starts only when *)
(* none is in flight and nothing is cached, and the slot is freed only     *)
(* after the value is cached (singleflight.go 86-98, 128-134).             *)
(***************************************************************************)
Flight == INSTANCE OneFlight
    WITH Slots <- Instances \X Keys,
         inflight <- {s \in Instances \X Keys : sf[s[1]][s[2]] # Nobody},
         cached <- {s \in Instances \X Keys : l1[s[1]][s[2]] # NoEntry}

GuardsStampede == Flight!Spec

(***************************************************************************)
(* As long as nothing is invalidated and values do not expire, a process   *)
(* computes a key at most once, with or without the other processes'       *)
(* results, timeouts and faults ("the guard can only ever reduce redundant *)
(* computation", singleflight.go 160-163).                                 *)
(***************************************************************************)
ComputedOncePerProcess ==
    \A c \in Instances, k \in Keys : computes[c][k] <= 1

(***************************************************************************)
(* A cross-process lock is held only by a goroutine between its TryLock    *)
(* and the return of computeGuarded, whatever compute did and whichever    *)
(* process died (singleflight.go 168-172, crossprocess.go 47-50).          *)
(***************************************************************************)
LockNotLeaked ==
    \A k \in Keys : xlock[k] # Nobody =>
        /\ Key(xlock[k]) = k
        /\ flight[xlock[k]] \in {"snap", "compute", "check", "write", "unlock"}

(***************************************************************************)
(* Every GetOrCompute returns: no loser waits for ever, for its own        *)
(* process or another ("it never risks a hang", singleflight.go 163).      *)
(***************************************************************************)
GetOrComputeReturns ==
    \A g \in Computers : flight[g] # "out" ~> flight[g] = "out"

(***************************************************************************)
(* A value is not written into the cache when an invalidation landed while *)
(* it was being computed (singleflight.go 44-52), the second of two        *)
(* included, unless the clock has not moved between them.  The comparison  *)
(* of tombstones sees no more: a Set of the key, or the sweep, removes the *)
(* tombstone, so this speaks of keys that nobody sets while they are       *)
(* computed, and of tombstones that are kept.                              *)
(***************************************************************************)
SupersededIsNoticed ==
    [][\A g \in Computers :
          flight[g] = "check" /\ flight'[g] = "write" /\ job[g].overtaken =>
              tombstones[Here(g)][Key(g)] = job[g].genBefore]_vars

-----------------------------------------------------------------------------
(* What the comments and tests say that the code does not do.              *)

(***************************************************************************)
(* The winner always closes done and frees its slot ("closed exactly once, *)
(* by the winner", singleflight.go 23-25).                                 *)
(***************************************************************************)
SlotReleased ==
    \A c \in Instances, k \in Keys : sf[c][k] # Nobody ~> sf[c][k] = Nobody

=============================================================================
