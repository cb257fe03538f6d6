------------------------- MODULE SingleFlight_proofs -------------------------
(***************************************************************************)
(* Theorems about SingleFlight for every set of processes, goroutines and  *)
(* keys, every fault of the store, of the lock and of compute, and any     *)
(* number of panics and crashes.                                           *)
(***************************************************************************)
EXTENDS SingleFlight, Cache_proofs

(***************************************************************************)
(* The strengthening of SFTypeOK: where a goroutine is in GetOrCompute     *)
(* says which call of the cache it can be in, and one that is about to     *)
(* write back has a value.                                                 *)
(***************************************************************************)
InGet == {"getL1", "getL2", "getClock", "getPromote", "hit", "miss", "error"}

InSet == {"idle", "setL1", "setL2", "done", "error"}

Plain == {"idle", "setL1", "setL2", "invL1", "invL2", "done", "error"}

Coupled ==
    \A g \in Goroutines :
       /\ flight[g] = "out" => pc[g] \in Plain
       /\ flight[g] \in {"fast", "recheck", "poll"} => pc[g] \in InGet
       /\ flight[g] = "write" => pc[g] \in InSet
       /\ flight[g] \notin {"out", "fast", "recheck", "poll", "write"} => pc[g] = "idle"
       /\ flight[g] # "out" => g \in Computers

HasValue == \A g \in Goroutines : flight[g] \in {"check", "write"} => job[g].answer \in Nat

SFTyped == SFTypeOK /\ HandlesEntry /\ Coupled /\ HasValue

LEMMA InitSFTyped == SFInit => SFTyped
<1> SUFFICES ASSUME SFInit PROVE SFTyped
  OBVIOUS
<1> USE CacheAssumption, SingleFlightAssumption
<1>1. Typed
  BY InitTyped DEF SFInit
<1>2. NoJob \in Job
  BY DEF NoJob, Job, NoTime
<1>3. SFTypeOK
  BY <1>1, <1>2 DEF SFInit, SFTypeOK, Typed, Flights
<1>4. Coupled /\ HasValue
  BY DEF SFInit, Init, Coupled, HasValue, Plain
<1> QED
  BY <1>1, <1>3, <1>4 DEF SFTyped, Typed

(***************************************************************************)
(* The cache under GetOrCompute: its calls are those of Cache, but for the *)
(* write-back, whose value comes from compute, and for a crash.            *)
(***************************************************************************)
LEMMA InnerStepTyped ==
    ASSUME SFTyped, NEW g \in Goroutines, Step(g)
    PROVE  Typed'
  BY StepTyped DEF SFTyped, SFTypeOK, Typed, Next

LEMMA GetBeginTyped ==
    ASSUME SFTyped, NEW g \in Goroutines, NEW k \in Keys,
           pc[g] = "idle", GetBegin(g, k), NoStore
    PROVE  Typed'
  BY StepTyped DEF SFTyped, SFTypeOK, Typed, Next, Get, NoStore

LEMMA InnerDoneTyped ==
    ASSUME SFTyped, NEW g \in Goroutines, InnerDone(g)
    PROVE  Typed'
  BY DEF SFTyped, SFTypeOK, Typed, TypeOK, HandlesEntry, InnerDone, layers, Carrying, PCs

LEMMA SameCacheTyped ==
    ASSUME SFTyped, UNCHANGED cacheVars
    PROVE  Typed'
  BY StepTyped DEF SFTyped, SFTypeOK, Typed

LEMMA WriteBackTyped ==
    ASSUME SFTyped, NEW g \in Goroutines, WriteBack(g)
    PROVE  Typed'
<1>1. job[g].answer \in Nat /\ job[g].ttl \in Nat /\ clock \in Time /\ Key(g) \in Keys
  BY DEF SFTyped, SFTypeOK, TypeOK, Job, Call, HasValue, WriteBack, Key
<1>2. NewEntry(job[g].answer, clock, job[g].ttl) \in Entry
  BY <1>1, NewEntryType
<1>3. epoch[Key(g)] \in Nat /\ clock \in Nat
  BY <1>1 DEF SFTyped, SFTypeOK, TypeOK, Time
<1>4. op' \in [Goroutines -> Call] /\ pc' \in [Goroutines -> PCs]
  BY <1>1, <1>2, <1>3
  DEF SFTyped, SFTypeOK, TypeOK, WriteBack, SetBegin, Begin, Call, PCs
<1>5. HandlesEntry'
  BY <1>1, <1>2 DEF SFTyped, SFTypeOK, TypeOK, WriteBack, SetBegin, Begin, HandlesEntry
<1> QED
  BY <1>4, <1>5 DEF SFTyped, SFTypeOK, TypeOK, Typed, WriteBack, NoStore, layers

LEMMA ForgetCallTyped ==
    ASSUME SFTyped, NEW S \in SUBSET Goroutines,
           op' = [g \in Goroutines |-> IF g \in S THEN NoCall ELSE op[g]],
           pc' \in [Goroutines -> PCs],
           \A g \in Goroutines : IF g \in S THEN pc'[g] = "idle" ELSE pc'[g] = pc[g]
    PROVE  op' \in [Goroutines -> Call] /\ HandlesEntry'
<1>1. NoCall \in Call
  BY CacheAssumption DEF NoCall, Call, NoTime
<1> QED
  BY <1>1 DEF SFTyped, SFTypeOK, TypeOK, HandlesEntry, Carrying

(***************************************************************************)
(* A step of one goroutine changes where that goroutine is, and its job.   *)
(***************************************************************************)
RegistriesTyped ==
    /\ sf \in [Instances -> [Keys -> Goroutines \cup {Nobody}]]
    /\ sfMu \in [Instances -> Goroutines \cup {Nobody}]
    /\ xlock \in [Keys -> Goroutines \cup {Nobody}]
    /\ crashes \in 0 .. MaxCrashes
    /\ computes \in [Instances -> [Keys -> Nat]]

Moves(g, at) == flight' = [flight EXCEPT ![g] = at]

Employs(g, j) == job' = [job EXCEPT ![g] = j]

LEMMA LocalTyped ==
    ASSUME SFTyped, NEW g \in Computers, Typed', RegistriesTyped',
           NEW at \in Flights, Moves(g, at), NEW j \in Job, Employs(g, j),
           \A h \in Goroutines \ {g} : pc'[h] = pc[h],
           at = "out" => pc'[g] \in Plain,
           at \in {"fast", "recheck", "poll"} => pc'[g] \in InGet,
           at = "write" => pc'[g] \in InSet,
           at \notin {"out", "fast", "recheck", "poll", "write"} => pc'[g] = "idle",
           at \in {"check", "write"} => j.answer \in Nat
    PROVE  SFTyped'
<1>1. g \in Goroutines
  BY SingleFlightAssumption
<1>2. flight' \in [Goroutines -> Flights] /\ job' \in [Goroutines -> Job]
  BY DEF SFTyped, SFTypeOK, Moves, Employs
<1>3. /\ flight'[g] = at /\ job'[g] = j
      /\ \A h \in Goroutines \ {g} : flight'[h] = flight[h] /\ job'[h] = job[h]
  BY <1>1 DEF SFTyped, SFTypeOK, Moves, Employs
<1>4. Coupled'
  BY <1>1, <1>3 DEF SFTyped, Coupled
<1>5. HasValue'
  BY <1>1, <1>3 DEF SFTyped, HasValue
<1> QED
  BY <1>2, <1>4, <1>5 DEF SFTyped, SFTypeOK, Typed, RegistriesTyped

(* Between two calls of the cache.                                         *)
AtRest == {"lock", "join", "answer", "guard", "sleep", "snap", "compute", "unlock", "publish",
           "release"}

LEMMA RestTyped ==
    ASSUME SFTyped, NEW g \in Computers, Typed', RegistriesTyped',
           NEW at \in AtRest, Moves(g, at), NEW j \in Job, Employs(g, j),
           pc' = [pc EXCEPT ![g] = "idle"]
    PROVE  SFTyped'
<1>1. /\ at \in Flights
      /\ at \notin {"out", "fast", "recheck", "poll", "write", "check"}
  BY DEF AtRest, Flights, Leading
<1>2. pc'[g] = "idle" /\ \A h \in Goroutines \ {g} : pc'[h] = pc[h]
  BY SingleFlightAssumption DEF SFTyped, SFTypeOK, TypeOK
<1> QED
  BY <1>1, <1>2, LocalTyped

LEMMA JobTyped ==
    ASSUME SFTyped, NEW g \in Goroutines
    PROVE  /\ job[g] \in Job
           /\ Employs(g, job[g]) <=> job' = job
           /\ Key(g) \in Keys /\ Here(g) \in Instances
           /\ NoJob \in Job
           /\ pc[g] = "hit" => op[g].ent.ver \in Nat
           /\ job[g].answer \in Nat \cup {Failed}
<1>1. job[g] \in Job /\ op[g] \in Call /\ (Employs(g, job[g]) <=> job' = job)
  BY DEF SFTyped, SFTypeOK, TypeOK, Employs
<1>2. NoJob \in Job /\ Here(g) \in Instances
  BY CacheAssumption DEF NoJob, Job, NoTime, Here
<1>3. pc[g] = "hit" => op[g].ent \in Entry
  BY DEF SFTyped, HandlesEntry, Carrying
<1> QED
  BY <1>1, <1>2, <1>3 DEF Job, Call, Key, Entry

LEMMA JobUpdate ==
    ASSUME NEW r \in Job, NEW v \in Nat \cup {Failed}
    PROVE  \E j \in Job : j = [r EXCEPT !.answer = v] /\ j.answer = v
<1>1. [r EXCEPT !.answer = v] \in Job /\ [r EXCEPT !.answer = v].answer = v
  BY DEF Job
<1> QED
  BY <1>1, Zenon

LEMMA AnswerTyped ==
    ASSUME SFTyped, NEW g \in Goroutines, NEW v \in Nat \cup {Failed}, Answer(g, v)
    PROVE  \E j \in Job : Employs(g, j) /\ j.answer = v
<1>1. job[g] \in Job
  BY JobTyped
<1>2. PICK j \in Job : j = [job[g] EXCEPT !.answer = v] /\ j.answer = v
  BY <1>1, JobUpdate, Zenon
<1>3. Employs(g, j)
  BY <1>2, Zenon DEF Answer, Employs
<1> QED
  BY <1>2, <1>3

LEMMA InnerDoneIdle ==
    ASSUME SFTyped, NEW g \in Goroutines, InnerDone(g)
    PROVE  Typed' /\ pc' = [pc EXCEPT ![g] = "idle"]
  BY InnerDoneTyped DEF InnerDone

LEMMA CacheIdle ==
    ASSUME SFTyped, NEW g \in Goroutines, UNCHANGED cacheVars, pc[g] = "idle"
    PROVE  Typed' /\ pc' = [pc EXCEPT ![g] = "idle"]
  BY SameCacheTyped DEF cacheVars, SFTyped, SFTypeOK, TypeOK

(* The fast path and the registry.                                         *)
LEMMA LookTyped ==
    ASSUME SFTyped, NEW g \in Goroutines,
           \/ FastHit(g) \/ FastError(g) \/ FastMiss(g) \/ Join(g) \/ RecheckHit(g)
           \/ Register(g)
    PROVE  SFTyped'
<1>0. g \in Computers
  BY DEF SFTyped, Coupled, FastHit, FastError, FastMiss, Join, RecheckHit, Register
<1> Here(g) \in Instances /\ Key(g) \in Keys
  BY JobTyped
<1>1. RegistriesTyped'
  <2>1. CASE Register(g)
    BY <2>1 DEF Register, SFTyped, SFTypeOK, RegistriesTyped
  <2>2. CASE RecheckHit(g)
    BY <2>2 DEF RecheckHit, SFTyped, SFTypeOK, RegistriesTyped
  <2>3. CASE FastHit(g) \/ FastError(g) \/ FastMiss(g) \/ Join(g)
    BY <2>3 DEF FastHit, FastError, FastMiss, Join, SFTyped, SFTypeOK, RegistriesTyped
  <2> QED
    BY <2>1, <2>2, <2>3
<1>2. CASE FastHit(g) \/ FastError(g) \/ RecheckHit(g)
  <2>1. PICK v \in Nat \cup {Failed} : Answer(g, v)
    BY <1>2, JobTyped DEF FastHit, FastError, RecheckHit
  <2>2. PICK j \in Job : Employs(g, j)
    BY <2>1, AnswerTyped
  <2>3. Moves(g, "answer") /\ InnerDone(g)
    BY <1>2 DEF FastHit, FastError, RecheckHit, Goto, Moves
  <2> QED
    BY <1>0, <1>1, <2>2, <2>3, InnerDoneIdle, RestTyped DEF AtRest
<1>3. CASE FastMiss(g) \/ Register(g)
  <2>1. PICK at \in AtRest : Moves(g, at)
    BY <1>3 DEF FastMiss, Register, Goto, Moves, AtRest
  <2>2. InnerDone(g)
    BY <1>3 DEF FastMiss, Register
  <2>3. Employs(g, job[g]) /\ job[g] \in Job
    BY <1>3, JobTyped DEF FastMiss, Register
  <2>4. Typed' /\ pc' = [pc EXCEPT ![g] = "idle"]
    BY <2>2, InnerDoneIdle
  <2> QED
    BY <1>0, <1>1, <2>1, <2>3, <2>4, RestTyped
<1>4. CASE Join(g)
  <2>1. sf[Here(g)][Key(g)] \in Goroutines
    BY <1>4, JobTyped DEF Join, SFTyped, SFTypeOK
  <2>2. UNCHANGED cacheVars /\ pc[g] = "idle"
    BY <1>4 DEF Join, SFTyped, Coupled
  <2>3. CASE flight[sf[Here(g)][Key(g)]] = "release"
    <3>1. Moves(g, "answer") /\ Answer(g, job[sf[Here(g)][Key(g)]].answer)
      BY <1>4, <2>3 DEF Join, Goto, Moves
    <3>2. PICK j \in Job : Employs(g, j)
      BY <2>1, <3>1, JobTyped, AnswerTyped
    <3> QED
      BY <1>0, <1>1, <2>2, <3>1, <3>2, CacheIdle, RestTyped DEF AtRest
  <2>4. CASE flight[sf[Here(g)][Key(g)]] # "release"
    <3>1. Moves(g, "join") /\ job' = job
      BY <1>4, <2>4 DEF Join, Goto, Moves
    <3> QED
      BY <1>0, <1>1, <2>2, <3>1, JobTyped, CacheIdle, RestTyped DEF AtRest
  <2> QED
    BY <2>3, <2>4
<1> QED
  BY <1>2, <1>3, <1>4

(* The cross-process lock, the wait of its losers, and the release.        *)
LEMMA GuardTyped ==
    ASSUME SFTyped, NEW g \in Goroutines,
           \/ TryLockOk(g) \/ TryLockBusy(g) \/ Unlock(g) \/ Release(g)
           \/ Discard(g) \/ ComputeError(g) \/ Snapshot(g)
    PROVE  SFTyped'
<1> Here(g) \in Instances /\ Key(g) \in Keys
  BY JobTyped
<1>1. g \in Computers /\ pc[g] = "idle"
  BY DEF SFTyped, Coupled, TryLockOk, TryLockBusy, Unlock, Release, Discard, ComputeError,
         Snapshot
<1>2. UNCHANGED cacheVars
  BY DEF TryLockOk, TryLockBusy, Unlock, Release, Discard, ComputeError, Snapshot
<1>3. Typed' /\ pc' = [pc EXCEPT ![g] = "idle"]
  BY <1>1, <1>2, CacheIdle
<1>4. PICK at \in AtRest : Moves(g, at)
  BY DEF TryLockOk, TryLockBusy, Unlock, Release, Discard, ComputeError, Snapshot, Goto,
         Leave, Moves, AtRest
<1>5. RegistriesTyped'
  <2>1. CASE TryLockOk(g)
    BY <2>1 DEF TryLockOk, SFTyped, SFTypeOK, RegistriesTyped
  <2>2. CASE Unlock(g)
    BY <2>2 DEF Unlock, SFTyped, SFTypeOK, RegistriesTyped
  <2>3. CASE Release(g)
    BY <2>3 DEF Release, SFTyped, SFTypeOK, RegistriesTyped
  <2>4. CASE TryLockBusy(g) \/ Discard(g) \/ ComputeError(g) \/ Snapshot(g)
    BY <2>4 DEF TryLockBusy, Discard, ComputeError, Snapshot, SFTyped, SFTypeOK,
                RegistriesTyped
  <2> QED
    BY <2>1, <2>2, <2>3, <2>4
<1>6. \E j \in Job : Employs(g, j)
  <2>1. CASE ComputeError(g)
    BY <2>1, AnswerTyped DEF ComputeError
  <2>2. CASE Snapshot(g)
    <3>1. tombstones[Here(g)][Key(g)] \in Nat
      BY DEF SFTyped, SFTypeOK, TypeOK
    <3>2. [job[g] EXCEPT !.genBefore = tombstones[Here(g)][Key(g)]] \in Job
      BY <3>1, JobTyped DEF Job
    <3>3. Employs(g, [job[g] EXCEPT !.genBefore = tombstones[Here(g)][Key(g)]])
      BY <2>2, Zenon DEF Snapshot, Employs
    <3> QED
      BY <3>2, <3>3
  <2>3. CASE ~ComputeError(g) /\ ~Snapshot(g)
    BY <2>3, JobTyped DEF TryLockOk, TryLockBusy, Unlock, Release, Discard
  <2> QED
    BY <2>1, <2>2, <2>3
<1> QED
  BY <1>1, <1>3, <1>4, <1>5, <1>6, RestTyped

(* The end of an inner call of the winner.                                 *)
LEMMA InnerEndTyped ==
    ASSUME SFTyped, NEW g \in Goroutines,
           PollFound(g) \/ PollAgain(g) \/ PollTimeout(g) \/ WriteBackDone(g)
    PROVE  SFTyped'
<1>1. g \in Computers /\ InnerDone(g)
  BY DEF SFTyped, Coupled, PollFound, PollAgain, PollTimeout, WriteBackDone
<1>2. Typed' /\ pc' = [pc EXCEPT ![g] = "idle"]
  BY <1>1, InnerDoneIdle
<1>3. PICK at \in AtRest : Moves(g, at)
  BY DEF PollFound, PollAgain, PollTimeout, WriteBackDone, Goto, Leave, Moves, AtRest
<1>4. RegistriesTyped'
  BY DEF PollFound, PollAgain, PollTimeout, WriteBackDone, SFTyped, SFTypeOK, RegistriesTyped
<1>5. \E j \in Job : Employs(g, j)
  <2>1. CASE PollFound(g)
    BY <2>1, JobTyped, AnswerTyped DEF PollFound
  <2>2. CASE ~PollFound(g)
    BY <2>2, JobTyped DEF PollAgain, PollTimeout, WriteBackDone
  <2> QED
    BY <2>1, <2>2
<1> QED
  BY <1>1, <1>2, <1>3, <1>4, <1>5, RestTyped

(* The start of an inner Get.                                              *)
LEMMA InnerGetTyped ==
    ASSUME SFTyped, NEW g \in Goroutines, NEW k \in Keys,
           \/ GetOrCompute(g, k)
           \/ Recheck(g) /\ k = Key(g)
           \/ Poll(g) /\ k = Key(g)
    PROVE  SFTyped'
<1> Here(g) \in Instances
  BY JobTyped
<1>1. g \in Computers /\ pc[g] = "idle"
  BY DEF SFTyped, Coupled, GetOrCompute, Recheck, Poll
<1>2. GetBegin(g, k) /\ NoStore /\ job' = job
  BY DEF GetOrCompute, Recheck, Poll
<1>3. Typed'
  BY <1>1, <1>2, GetBeginTyped
<1>4. pc'[g] = "getL1" /\ \A h \in Goroutines \ {g} : pc'[h] = pc[h]
  BY <1>2 DEF GetBegin, Begin, SFTyped, SFTypeOK, TypeOK
<1>5. PICK at \in {"fast", "recheck", "poll"} : Moves(g, at)
  BY DEF GetOrCompute, Recheck, Poll, Goto, Moves
<1>6. RegistriesTyped'
  BY DEF GetOrCompute, Recheck, Poll, SFTyped, SFTypeOK, RegistriesTyped
<1>7. job[g] \in Job /\ Employs(g, job[g])
  BY <1>2, JobTyped
<1>8. pc'[g] \in InGet
  BY <1>4 DEF InGet
<1>9. at \in Flights /\ at \notin {"out", "check", "write"}
  BY <1>5 DEF Flights, Leading
<1> QED
  BY <1>1, <1>3, <1>4, <1>5, <1>6, <1>7, <1>8, <1>9, LocalTyped

(* compute returns a value, and the value is kept.                         *)
LEMMA ComputeOkTyped ==
    ASSUME SFTyped, NEW g \in Goroutines, ComputeOk(g)
    PROVE  SFTyped'
<1> Here(g) \in Instances /\ Key(g) \in Keys
  BY JobTyped
<1>1. g \in Computers /\ pc[g] = "idle" /\ UNCHANGED cacheVars
  BY DEF SFTyped, Coupled, ComputeOk
<1>2. Typed' /\ pc' = [pc EXCEPT ![g] = "idle"]
  BY <1>1, CacheIdle
<1>3. RegistriesTyped'
  BY DEF ComputeOk, SFTyped, SFTypeOK, RegistriesTyped
<1>4. PICK ttl \in TTLs :
          job' = [job EXCEPT ![g].answer = epoch[Key(g)] + 1, ![g].ttl = ttl]
  BY DEF ComputeOk
<1>5. epoch[Key(g)] + 1 \in Nat /\ ttl \in Nat
  BY CacheAssumption DEF SFTyped, SFTypeOK, TypeOK
<1> DEFINE j == [job[g] EXCEPT !.answer = epoch[Key(g)] + 1, !.ttl = ttl]
<1>6. j \in Job /\ j.answer \in Nat
  BY <1>5, JobTyped DEF Job
<1>7. Employs(g, j)
  <2>1. job'[g] = j /\ \A h \in Goroutines \ {g} : job'[h] = job[h]
    BY <1>4, <1>6 DEF SFTyped, SFTypeOK
  <2> QED
    BY <1>4, <2>1 DEF SFTyped, SFTypeOK, Employs
<1>8. pc'[g] = "idle" /\ \A h \in Goroutines \ {g} : pc'[h] = pc[h]
  BY <1>1 DEF cacheVars
<1>9. Moves(g, "check") /\ "check" \in Flights
  BY DEF ComputeOk, Goto, Moves, Flights, Leading
<1> HIDE DEF j
<1> QED
  BY <1>1, <1>2, <1>3, <1>6, <1>7, <1>8, <1>9, LocalTyped

LEMMA KeepTyped ==
    ASSUME SFTyped, NEW g \in Goroutines, Keep(g)
    PROVE  SFTyped'
<1>1. g \in Computers /\ pc[g] = "idle" /\ UNCHANGED cacheVars /\ job' = job
  BY DEF SFTyped, Coupled, Keep
<1>2. Typed' /\ pc'[g] = "idle" /\ \A h \in Goroutines : pc'[h] = pc[h]
  BY <1>1, SameCacheTyped DEF cacheVars
<1>3. RegistriesTyped'
  BY DEF Keep, SFTyped, SFTypeOK, RegistriesTyped
<1>4. Employs(g, job[g]) /\ job[g] \in Job /\ job[g].answer \in Nat
  BY <1>1, JobTyped DEF Keep, SFTyped, HasValue
<1>5. Moves(g, "write") /\ "write" \in Flights /\ pc'[g] \in InSet
  BY <1>2 DEF Keep, Goto, Moves, Flights, Leading, InSet
<1> QED
  BY <1>1, <1>2, <1>3, <1>4, <1>5, LocalTyped

(* The write-back, and the steps of the cache itself.                      *)
LEMMA WriteBackKeepsTyped ==
    ASSUME SFTyped, NEW g \in Goroutines, WriteBack(g)
    PROVE  SFTyped'
<1>1. Typed' /\ UNCHANGED sfVars
  BY WriteBackTyped DEF WriteBack
<1>2. pc'[g] = "setL1" /\ \A h \in Goroutines \ {g} : pc'[h] = pc[h]
  BY DEF WriteBack, SetBegin, Begin, SFTyped, SFTypeOK, TypeOK
<1>3. Coupled'
  BY <1>1, <1>2 DEF SFTyped, Coupled, WriteBack, sfVars, InSet
<1>4. HasValue'
  BY <1>1 DEF SFTyped, HasValue, sfVars
<1> QED
  BY <1>1, <1>3, <1>4 DEF SFTyped, SFTypeOK, Typed, sfVars

LEMMA StepStays ==
    ASSUME SFTyped, NEW g \in Goroutines, Step(g)
    PROVE  /\ \A h \in Goroutines \ {g} : pc'[h] = pc[h]
           /\ pc[g] \notin {"idle", "hit", "miss", "done", "error"}
           /\ \A S \in {InGet, InSet, Plain} : pc[g] \in S => pc'[g] \in S
<1> USE DEF SFTyped, SFTypeOK, TypeOK, Finish
<1>1. CASE GetStep(g)
  <2>1. CASE GetL1Hit(g) \/ GetL1Miss(g)
    BY <2>1 DEF GetL1Hit, GetL1Miss, InGet, InSet, Plain
  <2>2. CASE GetL2Found(g) \/ GetL2Absent(g) \/ GetL2Error(g) \/ GetClock(g)
    BY <2>2 DEF GetL2Found, GetL2Absent, GetL2Error, GetClock, InGet, InSet, Plain
  <2>3. CASE GetKeep(g) \/ GetReject(g) \/ GetPromote(g)
    BY <2>3 DEF GetKeep, GetReject, GetPromote, InGet, InSet, Plain
  <2> QED
    BY <1>1, <2>1, <2>2, <2>3 DEF GetStep
<1>2. CASE SetL1(g) \/ SetL2(g)
  BY <1>2 DEF SetL1, SetL2, InGet, InSet, Plain
<1>3. CASE InvalidateL1(g) \/ InvalidateL2(g)
  BY <1>3 DEF InvalidateL1, InvalidateL2, InGet, InSet, Plain
<1> QED
  BY <1>1, <1>2, <1>3 DEF Step

LEMMA CacheStepTyped ==
    ASSUME SFTyped, NEW g \in Goroutines, CacheStep(g)
    PROVE  SFTyped'
<1>1. Typed' /\ UNCHANGED <<flight, sf, sfMu, xlock, crashes, computes>>
  BY InnerStepTyped DEF CacheStep
<1>2. \A h \in Goroutines : job'[h] \in Job /\ job'[h].answer = job[h].answer
  <2> TAKE h \in Goroutines
  <2>1. job[h] \in Job
    BY DEF SFTyped, SFTypeOK
  <2>2. \A r \in Job : [r EXCEPT !.overtaken = TRUE] \in Job
                      /\ [r EXCEPT !.overtaken = TRUE].answer = r.answer
    BY DEF Job
  <2>3. job'[h] = IF h \in Overtakes(g) THEN [job[h] EXCEPT !.overtaken = TRUE] ELSE job[h]
    BY DEF CacheStep
  <2> QED
    BY <2>1, <2>2, <2>3, Zenon
<1>3. job' \in [Goroutines -> Job]
  <2>1. job' = [h \in Goroutines |-> job'[h]]
    BY DEF CacheStep
  <2> QED
    BY <1>2, <2>1
<1>4. HasValue'
  BY <1>1, <1>2 DEF SFTyped, HasValue
<1>5. Coupled'
  BY <1>1, StepStays DEF CacheStep, SFTyped, Coupled
<1> QED
  BY <1>1, <1>3, <1>4, <1>5 DEF SFTyped, SFTypeOK, Typed

LEMMA PublishTyped ==
    ASSUME SFTyped, NEW g \in Goroutines, Publish(g)
    PROVE  SFTyped'
<1>1. Typed' /\ UNCHANGED <<cacheVars, sf, sfMu, xlock, crashes, computes>>
  BY SameCacheTyped DEF Publish
<1>2. /\ flight[g] = "publish" /\ flight'[g] = "release"
      /\ \A h \in Goroutines \ {g} :
             flight'[h] = IF h \in Waiting(g) THEN "answer" ELSE flight[h]
      /\ \A h \in Waiting(g) : flight[h] = "join"
  BY DEF Publish, Waiting
<1>3. flight' \in [Goroutines -> Flights]
  <2>1. \A h \in Goroutines : flight'[h] \in Flights
    BY <1>2 DEF Flights, Leading, SFTyped, SFTypeOK
  <2>2. flight' = [h \in Goroutines |-> flight'[h]]
    BY DEF Publish
  <2> QED
    BY <2>1, <2>2
<1>4. job' \in [Goroutines -> Job]
  <2>1. \A r \in Job : [r EXCEPT !.answer = job[g].answer] \in Job
    BY JobTyped DEF Job
  <2>2. \A h \in Goroutines : job'[h] \in Job
    BY <2>1, JobTyped DEF Publish
  <2>3. job' = [h \in Goroutines |-> job'[h]]
    BY DEF Publish
  <2> QED
    BY <2>2, <2>3
<1>5. \A h \in Goroutines : flight'[h] \in {"check", "write"} =>
          flight'[h] = flight[h] /\ job'[h] = job[h]
  BY <1>2 DEF Publish
<1>6. HasValue'
  BY <1>5 DEF SFTyped, HasValue
<1>7. Coupled'
  BY <1>1, <1>2 DEF SFTyped, Coupled, cacheVars
<1> QED
  BY <1>1, <1>3, <1>4, <1>6, <1>7 DEF SFTyped, SFTypeOK, Typed

LEMMA LeaveCallTyped ==
    ASSUME SFTyped, NEW g \in Goroutines, ReturnAnswer(g) \/ ComputePanic(g)
    PROVE  SFTyped'
<1> Key(g) \in Keys
  BY JobTyped
<1>1. /\ g \in Computers /\ pc[g] = "idle"
      /\ UNCHANGED <<clock, store, layers, pc, sf, sfMu, crashes, computes>>
      /\ op' = [op EXCEPT ![g] = NoCall]
  BY DEF SFTyped, Coupled, ReturnAnswer, ComputePanic
<1>2. op' \in [Goroutines -> Call] /\ HandlesEntry'
  <2>1. op' = [h \in Goroutines |-> IF h \in {g} THEN NoCall ELSE op[h]]
    BY <1>1 DEF SFTyped, SFTypeOK, TypeOK
  <2>2. pc' \in [Goroutines -> PCs]
    BY <1>1 DEF SFTyped, SFTypeOK, TypeOK
  <2> QED
    BY <1>1, <2>1, <2>2, ForgetCallTyped
<1>3. Typed'
  BY <1>1, <1>2 DEF SFTyped, SFTypeOK, TypeOK, Typed, layers
<1>4. RegistriesTyped'
  BY <1>1 DEF ReturnAnswer, ComputePanic, SFTyped, SFTypeOK, RegistriesTyped
<1>5. Moves(g, "out") /\ Employs(g, NoJob) /\ NoJob \in Job
  BY JobTyped DEF ReturnAnswer, ComputePanic, Goto, Moves, Employs
<1>6. "out" \in Flights /\ pc'[g] \in Plain /\ \A h \in Goroutines \ {g} : pc'[h] = pc[h]
  BY <1>1 DEF Flights, Plain
<1> QED
  BY <1>1, <1>3, <1>4, <1>5, <1>6, LocalTyped

LEMMA PlainCallTyped ==
    ASSUME SFTyped, NEW g \in Goroutines, PlainCall(g)
    PROVE  SFTyped'
<1>1. UNCHANGED sfVars /\ flight[g] = "out"
  BY DEF PlainCall
<1>2. Typed'
  BY StepTyped DEF PlainCall, Next, SFTyped, SFTypeOK, Typed
<1>3. pc'[g] \in Plain /\ \A h \in Goroutines \ {g} : pc'[h] = pc[h]
  BY DEF PlainCall, Invalidate, InvalidateBegin, SetWithTTL, SetBegin, Begin, Return, Plain,
         SFTyped, SFTypeOK, TypeOK
<1>4. Coupled'
  BY <1>1, <1>3 DEF SFTyped, Coupled, sfVars
<1>5. HasValue'
  BY <1>1 DEF SFTyped, HasValue, sfVars
<1> QED
  BY <1>1, <1>2, <1>4, <1>5 DEF SFTyped, SFTypeOK, Typed, sfVars

LEMMA CrashTyped ==
    ASSUME SFTyped, NEW c \in Instances, Crash(c)
    PROVE  SFTyped'
<1> DEFINE dead == {g \in Goroutines : InstanceOf[g] = c}
<1>1. /\ op' = [g \in Goroutines |-> IF g \in dead THEN NoCall ELSE op[g]]
      /\ pc' = [g \in Goroutines |-> IF g \in dead THEN "idle" ELSE pc[g]]
      /\ flight' = [g \in Goroutines |-> IF g \in dead THEN "out" ELSE flight[g]]
      /\ job' = [g \in Goroutines |-> IF g \in dead THEN NoJob ELSE job[g]]
  BY DEF Crash
<1>2. pc' \in [Goroutines -> PCs]
  BY <1>1 DEF SFTyped, SFTypeOK, TypeOK, PCs
<1>3. op' \in [Goroutines -> Call] /\ HandlesEntry'
  BY <1>1, <1>2, ForgetCallTyped
<1>4. /\ l1' \in [Instances -> [Keys -> Entry \cup {NoEntry}]]
      /\ tombstones' \in [Instances -> [Keys -> Nat]]
      /\ lastPrune' \in [Instances -> Nat]
  BY DEF Crash, SFTyped, SFTypeOK, TypeOK, NoTime
<1>5. UNCHANGED <<clock, store, epoch, pruned>>
  BY DEF Crash
<1>6. Typed'
  BY <1>2, <1>3, <1>4, <1>5 DEF SFTyped, SFTypeOK, TypeOK, Typed
<1>7. flight' \in [Goroutines -> Flights]
  BY <1>1 DEF SFTyped, SFTypeOK, Flights
<1>8. job' \in [Goroutines -> Job]
  <2>1. NoJob \in Job
    BY DEF NoJob, Job, NoTime
  <2> QED
    BY <1>1, <2>1 DEF SFTyped, SFTypeOK
<1>9. RegistriesTyped'
  <2>1. crashes' \in 0 .. MaxCrashes
    BY SingleFlightAssumption DEF Crash, SFTyped, SFTypeOK
  <2>2. xlock' \in [Keys -> Goroutines \cup {Nobody}]
    BY DEF Crash, SFTyped, SFTypeOK
  <2> QED
    BY <2>1, <2>2 DEF Crash, SFTyped, SFTypeOK, RegistriesTyped
<1>10. Coupled' /\ HasValue'
  BY <1>1 DEF SFTyped, Coupled, HasValue, Plain
<1> QED
  BY <1>6, <1>7, <1>8, <1>9, <1>10 DEF SFTyped, SFTypeOK, Typed, RegistriesTyped

LEMMA RestOfWorldTyped ==
    ASSUME SFTyped, (Tick \/ UNCHANGED cacheVars) /\ UNCHANGED sfVars
    PROVE  SFTyped'
<1>1. Typed'
  BY StepTyped DEF Next, SFTyped, SFTypeOK, Typed
<1>2. UNCHANGED pc
  BY DEF Tick, cacheVars
<1>3. Coupled' /\ HasValue'
  BY <1>2 DEF SFTyped, Coupled, HasValue, sfVars
<1> QED
  BY <1>1, <1>3 DEF SFTyped, SFTypeOK, Typed, sfVars

LEMMA SFStepTyped == SFTyped /\ [SFNext]_vars => SFTyped'
<1> SUFFICES ASSUME SFTyped, [SFNext]_vars PROVE SFTyped'
  OBVIOUS
<1>1. ASSUME NEW g \in Goroutines, NEW k \in Keys, GetOrCompute(g, k) PROVE SFTyped'
  BY <1>1, InnerGetTyped
<1>2. ASSUME NEW g \in Goroutines, GuardStep(g) PROVE SFTyped'
  <2>1. CASE Recheck(g) \/ Poll(g)
    BY <2>1, InnerGetTyped, JobTyped
  <2> QED
    BY <1>2, <2>1, LookTyped, GuardTyped, InnerEndTyped, KeepTyped, WriteBackKeepsTyped,
       PublishTyped DEF GuardStep
<1>3. ASSUME NEW g \in Goroutines, FlightStep(g) PROVE SFTyped'
  BY <1>2, <1>3, GuardTyped, ComputeOkTyped, LeaveCallTyped DEF FlightStep
<1>4. ASSUME NEW g \in Goroutines, ComputePanic(g) \/ CacheStep(g) \/ PlainCall(g)
      PROVE  SFTyped'
  BY <1>4, LeaveCallTyped, CacheStepTyped, PlainCallTyped
<1>5. ASSUME NEW c \in Instances, Crash(c) PROVE SFTyped'
  BY <1>5, CrashTyped
<1>6. CASE (Tick \/ UNCHANGED cacheVars) /\ UNCHANGED sfVars
  BY <1>6, RestOfWorldTyped
<1> QED
  BY <1>1, <1>3, <1>4, <1>5, <1>6 DEF SFNext, vars

LEMMA AlwaysSFTyped == SFSpec => []SFTyped
<1> QED
  BY InitSFTyped, SFStepTyped, PTL DEF SFSpec

(***************************************************************************)
(* The registry, the locks and the locals of every call stay well formed   *)
(* whatever the calls, the faults, the panics and the crashes do           *)
(* (singleflight.go 15-190).                                               *)
(***************************************************************************)
THEOREM SFTypeSafe == SFSpec => []SFTypeOK
<1>1. SFTyped => SFTypeOK
  BY DEF SFTyped
<1> QED
  BY <1>1, AlwaysSFTyped, PTL

-----------------------------------------------------------------------------
(* The cross-process lock and the registry.                                *)

(***************************************************************************)
(* A goroutine keeps its key from its first Get to its answer, though each *)
(* of its inner calls writes its locals anew.                              *)
(***************************************************************************)
LEMMA SameKey ==
    ASSUME SFTyped, NEW g \in Goroutines, NEW r, r.key = op[g].key, op' = [op EXCEPT ![g] = r]
    PROVE  \A h \in Goroutines : Key(h)' = Key(h)
<1>1. op \in [Goroutines -> Call]
  BY DEF SFTyped, SFTypeOK, TypeOK
<1> QED
  BY <1>1 DEF Key

LEMMA StepKeepsKey ==
    ASSUME SFTyped, NEW g \in Goroutines, Step(g)
    PROVE  \A h \in Goroutines : Key(h)' = Key(h)
<1>1. op \in [Goroutines -> Call]
  BY DEF SFTyped, SFTypeOK, TypeOK
<1>3. op' = op \/ \E e, t : \/ op' = [op EXCEPT ![g] = [op[g] EXCEPT !.ent = e]]
                          \/ op' = [op EXCEPT ![g] = [op[g] EXCEPT !.now = t]]
                          \/ op' = [op EXCEPT ![g] = [op[g] EXCEPT !.ent = e, !.fetched = t]]
  <2>1. CASE GetL1Hit(g) \/ GetKeep(g)
    BY <2>1, Zenon DEF GetL1Hit, GetKeep
  <2>2. CASE GetL2Found(g)
    <3>1. op' = [op EXCEPT ![g].ent = store[op[g].key], ![g].fetched = clock]
      BY <2>2 DEF GetL2Found
    <3> QED
      BY <1>1, <3>1
  <2>3. CASE GetClock(g)
    BY <2>3, Zenon DEF GetClock
  <2>4. CASE ~(GetL1Hit(g) \/ GetKeep(g) \/ GetL2Found(g) \/ GetClock(g))
    BY <2>4 DEF Step, GetStep, GetL1Miss, GetL2Absent, GetL2Error, GetReject, GetPromote,
                SetL1, SetL2, InvalidateL1, InvalidateL2
  <2> QED
    BY <2>1, <2>2, <2>3, <2>4
<1>4. CASE op' = op
  BY <1>4 DEF Key
<1>5. CASE op' # op
  <2>1. PICK e, t : \/ op' = [op EXCEPT ![g] = [op[g] EXCEPT !.ent = e]]
                    \/ op' = [op EXCEPT ![g] = [op[g] EXCEPT !.now = t]]
                    \/ op' = [op EXCEPT ![g] = [op[g] EXCEPT !.ent = e, !.fetched = t]]
    BY <1>3, <1>5, Zenon
  <2>2. op[g] \in Call
    BY <1>1
  <2>3. /\ [op[g] EXCEPT !.ent = e].key = op[g].key
        /\ [op[g] EXCEPT !.now = t].key = op[g].key
        /\ [op[g] EXCEPT !.ent = e, !.fetched = t].key = op[g].key
    BY <2>2 DEF Call
  <2> QED
    BY <2>1, <2>3, SameKey, Zenon
<1> QED
  BY <1>4, <1>5

LEMMA KeysStay ==
    ASSUME SFTyped, [SFNext]_vars, NEW h \in Goroutines,
           flight[h] # "out", flight'[h] # "out"
    PROVE  Key(h)' = Key(h)
<1> USE DEF Key
<1>1. ASSUME NEW g \in Goroutines, NEW k \in Keys, GetOrCompute(g, k) PROVE Key(h)' = Key(h)
  BY <1>1 DEF GetOrCompute, GetBegin, Begin, SFTyped, SFTypeOK, TypeOK
<1>2. ASSUME NEW g \in Goroutines, GuardStep(g) PROVE Key(h)' = Key(h)
  <2>1. CASE Recheck(g) \/ Poll(g) \/ WriteBack(g)
    <3>1. \E at, e : Begin(g, Key(g), at, e)
      BY <2>1 DEF Recheck, Poll, WriteBack, GetBegin, SetBegin
    <3> QED
      BY <3>1, SameKey DEF Begin
  <2>2. CASE ~(Recheck(g) \/ Poll(g) \/ WriteBack(g))
    BY <1>2, <2>2 DEF GuardStep, FastHit, FastError, FastMiss, Join, RecheckHit, Register,
                 TryLockOk, TryLockBusy, PollFound, PollAgain, PollTimeout, Snapshot, Discard,
                 Keep, WriteBackDone, Unlock, Publish, Release, InnerDone, cacheVars
  <2> QED
    BY <2>1, <2>2
<1>3. ASSUME NEW g \in Goroutines, ComputeOk(g) \/ ComputeError(g) PROVE Key(h)' = Key(h)
  BY <1>3 DEF ComputeOk, ComputeError, cacheVars
<1>4. ASSUME NEW g \in Goroutines, ReturnAnswer(g) \/ ComputePanic(g) PROVE Key(h)' = Key(h)
  <2>1. flight' = [flight EXCEPT ![g] = "out"] /\ op' = [op EXCEPT ![g] = NoCall]
    BY <1>4 DEF ReturnAnswer, ComputePanic, Goto
  <2> QED
    BY <2>1 DEF SFTyped, SFTypeOK, TypeOK
<1>5. ASSUME NEW g \in Goroutines, CacheStep(g) PROVE Key(h)' = Key(h)
  BY <1>5, StepKeepsKey DEF CacheStep
<1>6. ASSUME NEW g \in Goroutines, PlainCall(g) PROVE Key(h)' = Key(h)
  <2>1. flight[g] = "out" /\ \E e \in Call : op' = [op EXCEPT ![g] = e]
    <3>1. Typed'
      BY <1>6, PlainCallTyped DEF SFTyped, SFTypeOK, Typed
    <3>2. \E e : op' = [op EXCEPT ![g] = e]
      BY <1>6 DEF PlainCall, Invalidate, InvalidateBegin, SetWithTTL, SetBegin, Begin, Return
    <3> QED
      BY <1>6, <3>1, <3>2 DEF PlainCall, SFTyped, SFTypeOK, TypeOK, Typed
  <2> QED
    BY <2>1 DEF SFTyped, SFTypeOK, TypeOK
<1>7. ASSUME NEW c \in Instances, Crash(c) PROVE Key(h)' = Key(h)
  BY <1>7 DEF Crash
<1>8. CASE Tick \/ UNCHANGED vars
  BY <1>8 DEF Tick, vars, cacheVars
<1> QED
  BY <1>1, <1>2, <1>3, <1>4, <1>5, <1>6, <1>7, <1>8 DEF SFNext, FlightStep

Locked == {"snap", "compute", "check", "write", "unlock"}

Holders ==
    \A k \in Keys, h \in Goroutines : xlock[k] = h => Key(h) = k /\ flight[h] \in Locked

LEMMA LockNotLeakedIsHolders == SFTyped => (LockNotLeaked <=> Holders)
  BY SingleFlightAssumption DEF SFTyped, SFTypeOK, LockNotLeaked, Holders, Locked

LEMMA StepHolders == SFTyped /\ Holders /\ [SFNext]_vars => Holders'
<1> SUFFICES ASSUME SFTyped, Holders, [SFNext]_vars PROVE Holders'
  OBVIOUS
<1>1. \A h \in Goroutines : flight[h] \in Locked /\ flight'[h] \in Locked => Key(h)' = Key(h)
  BY KeysStay DEF Locked
<1>2. ASSUME UNCHANGED xlock,
             \A h \in Goroutines : xlock[Key(h)] = h /\ flight[h] \in Locked =>
                 flight'[h] \in Locked
      PROVE  Holders'
  BY <1>1, <1>2 DEF Holders
<1>3. ASSUME UNCHANGED <<flight, xlock>> PROVE Holders'
  BY <1>2, <1>3
<1>4. ASSUME NEW g \in Goroutines, NEW at, UNCHANGED xlock, Moves(g, at),
             xlock[Key(g)] = g /\ flight[g] \in Locked => at \in Locked
      PROVE  Holders'
  <2>1. \A h \in Goroutines : flight'[h] = IF h = g THEN at ELSE flight[h]
    BY <1>4 DEF Moves, SFTyped, SFTypeOK
  <2> QED
    BY <1>2, <1>4, <2>1
<1>5. ASSUME NEW g \in Goroutines, NEW k \in Keys, GetOrCompute(g, k) PROVE Holders'
  BY <1>4, <1>5 DEF GetOrCompute, Goto, Moves, Locked
<1>6. ASSUME NEW g \in Goroutines, GuardStep(g) \/ ComputeOk(g) \/ ComputeError(g)
      PROVE  Holders'
  <2>1. CASE FastHit(g) \/ FastError(g) \/ FastMiss(g) \/ Recheck(g) \/ RecheckHit(g)
    BY <1>4, <2>1 DEF FastHit, FastError, FastMiss, Recheck, RecheckHit, Goto, Moves, Locked
  <2>2. CASE Register(g) \/ TryLockBusy(g) \/ Poll(g) \/ PollFound(g) \/ PollAgain(g)
             \/ PollTimeout(g) \/ Release(g)
    BY <1>4, <2>2 DEF Register, TryLockBusy, Poll, PollFound, PollAgain, PollTimeout, Release,
                      Goto, Moves, Locked
  <2>3. CASE Snapshot(g) \/ Keep(g) \/ ComputeOk(g)
    BY <1>4, <2>3 DEF Snapshot, Keep, ComputeOk, Goto, Moves, Locked
  <2>4. CASE Discard(g) \/ ComputeError(g) \/ WriteBackDone(g)
    BY <1>4, <2>4 DEF Discard, ComputeError, WriteBackDone, Leave, Goto, Moves, Locked
  <2>5. CASE Join(g)
    BY <1>4, <2>5 DEF Join, Goto, Moves, Locked
  <2>6. CASE WriteBack(g)
    BY <1>3, <2>6 DEF WriteBack, sfVars
  <2>7. CASE Publish(g)
    <3>1. \A h \in Goroutines : flight[h] \in Locked => flight'[h] = flight[h]
      BY <2>7 DEF Publish, Waiting, Locked
    <3> QED
      BY <1>2, <2>7, <3>1 DEF Publish
  <2>8. CASE TryLockOk(g)
    <3> SUFFICES ASSUME NEW k \in Keys, NEW h \in Goroutines, xlock'[k] = h
                 PROVE  Key(h)' = k /\ flight'[h] \in Locked
      BY DEF Holders
    <3>1. /\ flight[g] = "guard" /\ flight' = [flight EXCEPT ![g] = "snap"]
          /\ xlock' = [xlock EXCEPT ![Key(g)] = g]
      BY <2>8 DEF TryLockOk, Goto
    <3>2. Key(g) \in Keys /\ flight'[g] = "snap" /\ Key(g)' = Key(g)
      BY <3>1, JobTyped, KeysStay DEF SFTyped, SFTypeOK
    <3>3. CASE k = Key(g)
      BY <3>1, <3>2, <3>3 DEF SFTyped, SFTypeOK, Locked
    <3>4. CASE k # Key(g)
      <4>1. xlock[k] = h
        BY <3>1, <3>4 DEF SFTyped, SFTypeOK
      <4>2. Key(h) = k /\ flight[h] \in Locked
        BY <4>1 DEF Holders
      <4>3. flight'[h] = flight[h]
        BY <3>1, <4>1, <4>2 DEF SFTyped, SFTypeOK, Locked
      <4> QED
        BY <1>1, <4>1, <4>2, <4>3
    <3> QED
      BY <3>3, <3>4
  <2>9. CASE Unlock(g)
    <3> SUFFICES ASSUME NEW k \in Keys, NEW h \in Goroutines, xlock'[k] = h
                 PROVE  Key(h)' = k /\ flight'[h] \in Locked
      BY DEF Holders
    <3>1. flight' = [flight EXCEPT ![g] = "publish"] /\ xlock' = [xlock EXCEPT ![Key(g)] = Nobody]
      BY <2>9 DEF Unlock, Goto
    <3>2. k # Key(g) /\ xlock[k] = h
      BY <3>1, SingleFlightAssumption DEF SFTyped, SFTypeOK
    <3>3. Key(h) = k /\ flight[h] \in Locked
      BY <3>2 DEF Holders
    <3>4. flight'[h] = flight[h]
      BY <3>1, <3>2, <3>3 DEF SFTyped, SFTypeOK
    <3> QED
      BY <1>1, <3>2, <3>3, <3>4
  <2> QED
    BY <1>6, <2>1, <2>2, <2>3, <2>4, <2>5, <2>6, <2>7, <2>8, <2>9 DEF GuardStep
<1>7. ASSUME NEW g \in Goroutines, ReturnAnswer(g) PROVE Holders'
  BY <1>4, <1>7 DEF ReturnAnswer, Goto, Moves, Locked
<1>8. ASSUME NEW g \in Goroutines, ComputePanic(g) PROVE Holders'
  <2> SUFFICES ASSUME NEW k \in Keys, NEW h \in Goroutines, xlock'[k] = h
               PROVE  Key(h)' = k /\ flight'[h] \in Locked
    BY DEF Holders
  <2>1. /\ flight' = [flight EXCEPT ![g] = "out"]
        /\ xlock' = [xlock EXCEPT ![Key(g)] = IF @ = g THEN Nobody ELSE @]
    BY <1>8 DEF ComputePanic, Goto
  <2>2. xlock[k] = h /\ (k = Key(g) => h # g)
    BY <2>1, JobTyped, SingleFlightAssumption DEF SFTyped, SFTypeOK
  <2>3. Key(h) = k /\ flight[h] \in Locked
    BY <2>2 DEF Holders
  <2>4. flight'[h] = flight[h]
    BY <2>1, <2>2, <2>3 DEF SFTyped, SFTypeOK
  <2> QED
    BY <1>1, <2>2, <2>3, <2>4
<1>9. ASSUME NEW c \in Instances, Crash(c) PROVE Holders'
  <2> SUFFICES ASSUME NEW k \in Keys, NEW h \in Goroutines, xlock'[k] = h
               PROVE  Key(h)' = k /\ flight'[h] \in Locked
    BY DEF Holders
  <2>1. xlock[k] = h /\ InstanceOf[h] # c
    BY <1>9, SingleFlightAssumption DEF Crash, SFTyped, SFTypeOK
  <2>2. Key(h) = k /\ flight[h] \in Locked
    BY <2>1 DEF Holders
  <2>3. flight'[h] = flight[h]
    BY <1>9, <2>1 DEF Crash
  <2> QED
    BY <1>1, <2>1, <2>2, <2>3
<1>10. ASSUME NEW g \in Goroutines, CacheStep(g) \/ PlainCall(g) PROVE Holders'
  BY <1>3, <1>10 DEF sfVars, CacheStep, PlainCall
<1>11. CASE UNCHANGED sfVars
  BY <1>3, <1>11 DEF sfVars
<1> QED
  BY <1>5, <1>6, <1>7, <1>8, <1>9, <1>10, <1>11 DEF SFNext, FlightStep, vars

(***************************************************************************)
(* A cross-process lock never outlives the computation it was taken for:   *)
(* every return of computeGuarded, a panic of compute and the death of the *)
(* process free it (singleflight.go 168-172, crossprocess.go 47-50).       *)
(***************************************************************************)
THEOREM LocksAreReturned == SFSpec => []LockNotLeaked
<1>1. SFInit => Holders
  BY SingleFlightAssumption DEF SFInit, Holders
<1> QED
  BY <1>1, AlwaysSFTyped, StepHolders, LockNotLeakedIsHolders, PTL DEF SFSpec

(***************************************************************************)
(* The registry.  Whatever compute does, every winner under way is the one *)
(* its slot names, and a goroutine looks a second time only while it holds *)
(* sfMu over an empty slot.  That a slot names only winners under way      *)
(* needs a compute that does not panic: the slot of a panic is never freed.*)
(***************************************************************************)
Registered == \A g \in Goroutines : flight[g] \in Leading => sf[Here(g)][Key(g)] = g

Rechecking ==
    \A g \in Goroutines :
        flight[g] = "recheck" => sfMu[Here(g)] = g /\ sf[Here(g)][Key(g)] = Nobody

NamesLeaders ==
    \A c \in Instances, k \in Keys, g \in Goroutines :
        sf[c][k] = g => flight[g] \in Leading /\ Here(g) = c /\ Key(g) = k

Quiet ==
    /\ UNCHANGED <<sf, sfMu>>
    /\ \A h \in Goroutines : /\ flight'[h] \in Leading <=> flight[h] \in Leading
                             /\ flight'[h] = "recheck" <=> flight[h] = "recheck"

LEMMA QuietMove ==
    ASSUME SFTyped, NEW g \in Goroutines, NEW at, Moves(g, at), UNCHANGED <<sf, sfMu>>,
           at \in Leading <=> flight[g] \in Leading,
           at # "recheck" /\ flight[g] # "recheck"
    PROVE  Quiet
<1>1. \A h \in Goroutines : flight'[h] = IF h = g THEN at ELSE flight[h]
  BY DEF Moves, SFTyped, SFTypeOK
<1> QED
  BY <1>1 DEF Quiet

Registering(g) == Recheck(g) \/ RecheckHit(g) \/ Register(g) \/ Release(g)

LEMMA QuietSteps ==
    ASSUME SFTyped, NEW g \in Goroutines,
           \/ \E k \in Keys : GetOrCompute(g, k)
           \/ FlightStep(g) /\ ~Registering(g)
           \/ CacheStep(g)
           \/ PlainCall(g)
    PROVE  Quiet
<1>1. ASSUME NEW k \in Keys, GetOrCompute(g, k) PROVE Quiet
  BY <1>1, QuietMove DEF GetOrCompute, Goto, Moves, Leading
<1>2. CASE FastHit(g) \/ FastError(g) \/ FastMiss(g) \/ TryLockOk(g) \/ TryLockBusy(g)
  BY <1>2, QuietMove DEF FastHit, FastError, FastMiss, TryLockOk, TryLockBusy, Goto, Moves,
                         Leading
<1>3. CASE Poll(g) \/ PollFound(g) \/ PollAgain(g) \/ PollTimeout(g) \/ Unlock(g)
  BY <1>3, QuietMove DEF Poll, PollFound, PollAgain, PollTimeout, Unlock, Goto, Moves, Leading
<1>4. CASE Snapshot(g) \/ Keep(g) \/ ComputeOk(g) \/ ReturnAnswer(g)
  BY <1>4, QuietMove DEF Snapshot, Keep, ComputeOk, ReturnAnswer, Goto, Moves, Leading
<1>5. CASE Discard(g) \/ ComputeError(g) \/ WriteBackDone(g)
  BY <1>5, QuietMove DEF Discard, ComputeError, WriteBackDone, Leave, Goto, Moves, Leading
<1>6. CASE Join(g)
  BY <1>6, QuietMove DEF Join, Goto, Moves, Leading
<1>7. CASE WriteBack(g) \/ CacheStep(g) \/ PlainCall(g)
  BY <1>7 DEF WriteBack, CacheStep, PlainCall, sfVars, Quiet
<1>8. CASE Publish(g)
  BY <1>8 DEF Publish, Waiting, Quiet, Leading
<1> QED
  BY <1>1, <1>2, <1>3, <1>4, <1>5, <1>6, <1>7, <1>8 DEF FlightStep, GuardStep, Registering

LEMMA QuietRegistry ==
    ASSUME SFTyped, [SFNext]_vars, Registered, Rechecking, Quiet
    PROVE  Registered' /\ Rechecking' /\ (NamesLeaders => NamesLeaders')
<1>1. \A h \in Goroutines : flight[h] \in Leading \cup {"recheck"} => Key(h)' = Key(h)
  <2> TAKE h \in Goroutines
  <2>1. flight[h] \in Leading \cup {"recheck"} => flight[h] # "out" /\ flight'[h] # "out"
    BY DEF Quiet, Leading
  <2> QED
    BY <2>1, KeysStay
<1>2. Registered' /\ Rechecking'
  BY <1>1 DEF Quiet, Registered, Rechecking, Here
<1>3. NamesLeaders => NamesLeaders'
  BY <1>1 DEF Quiet, NamesLeaders, Here
<1> QED
  BY <1>2, <1>3

LEMMA RegistryStep ==
    ASSUME SFTyped, [SFNext]_vars, Registered, Rechecking, NEW g \in Goroutines, Registering(g)
    PROVE  Registered' /\ Rechecking' /\ (NamesLeaders => NamesLeaders')
<1> DEFINE c == Here(g)
           k == Key(g)
<1>1. c \in Instances /\ k \in Keys
  BY JobTyped
<1>2. \A h \in Goroutines \ {g} : flight'[h] = flight[h]
  BY DEF Registering, Recheck, RecheckHit, Register, Release, Goto, SFTyped, SFTypeOK
<1>3. flight[g] \in {"lock", "recheck", "release"}
      /\ flight'[g] \in {"recheck", "answer", "guard", "snap"}
  BY DEF Registering, Recheck, RecheckHit, Register, Release, Goto, SFTyped, SFTypeOK
<1>4. \A h \in Goroutines :
         flight[h] \in Leading \cup {"recheck"} => Key(h)' = Key(h) /\ Here(h) \in Instances
  <2> TAKE h \in Goroutines
  <2>1. flight[h] \in Leading \cup {"recheck"} => flight[h] # "out" /\ flight'[h] # "out"
    BY <1>2, <1>3 DEF Leading
  <2> QED
    BY <2>1, KeysStay, JobTyped
<1>5. k = Key(g)'
  BY <1>3, KeysStay
<1>6. CASE Recheck(g)
  <2>1. /\ sfMu[c] = Nobody /\ sf[c][k] = Nobody /\ sf' = sf
        /\ sfMu' = [sfMu EXCEPT ![c] = g] /\ flight'[g] = "recheck" /\ flight[g] = "lock"
    BY <1>6 DEF Recheck, Goto, SFTyped, SFTypeOK
  <2>2. \A h \in Goroutines : flight[h] = "recheck" => Here(h) # c
    BY <2>1, SingleFlightAssumption DEF Rechecking
  <2>3. Registered'
    BY <1>2, <1>4, <2>1 DEF Registered, Here, Leading
  <2>4. Rechecking'
    BY <1>1, <1>2, <1>4, <1>5, <2>1, <2>2 DEF Rechecking, Here, SFTyped, SFTypeOK
  <2>5. NamesLeaders => NamesLeaders'
    BY <1>2, <1>4, <2>1 DEF NamesLeaders, Here, Leading
  <2> QED
    BY <2>3, <2>4, <2>5
<1>7. CASE RecheckHit(g)
  <2>1. /\ sf' = sf /\ sfMu' = [sfMu EXCEPT ![c] = Nobody]
        /\ flight[g] = "recheck" /\ flight'[g] = "answer"
    BY <1>7 DEF RecheckHit, Goto, SFTyped, SFTypeOK
  <2>2. \A h \in Goroutines : flight[h] = "recheck" /\ h # g => Here(h) # c
    BY <2>1 DEF Rechecking
  <2>3. Registered'
    BY <1>2, <1>4, <2>1 DEF Registered, Here, Leading
  <2>4. Rechecking'
    BY <1>1, <1>2, <1>4, <2>1, <2>2 DEF Rechecking, Here, SFTyped, SFTypeOK
  <2>5. NamesLeaders => NamesLeaders'
    BY <1>2, <1>4, <2>1 DEF NamesLeaders, Here, Leading
  <2> QED
    BY <2>3, <2>4, <2>5
<1>8. CASE Register(g)
  <2>1. /\ sf' = [sf EXCEPT ![c][k] = g] /\ sfMu' = [sfMu EXCEPT ![c] = Nobody]
        /\ flight[g] = "recheck" /\ flight'[g] \in Leading /\ flight'[g] # "recheck"
    BY <1>8 DEF Register, Goto, SFTyped, SFTypeOK, Leading
  <2>2. \A h \in Goroutines : flight[h] = "recheck" /\ h # g => Here(h) # c
    BY <2>1 DEF Rechecking
  <2>3. sf[c][k] = Nobody /\ g # Nobody
    BY <2>1, SingleFlightAssumption DEF Rechecking
  <2>4. \A d \in Instances, j \in Keys : sf'[d][j] = IF d = c /\ j = k THEN g ELSE sf[d][j]
    BY <1>1, <2>1 DEF SFTyped, SFTypeOK
  <2>5. \A h \in Goroutines : Key(h) \in Keys /\ Here(h) \in Instances
    BY JobTyped
  <2>6. Registered'
    <3> SUFFICES ASSUME NEW h \in Goroutines, flight'[h] \in Leading
                 PROVE  sf'[Here(h)][Key(h)'] = h
      BY DEF Registered, Here
    <3>1. CASE h = g
      BY <1>1, <1>5, <2>4, <3>1
    <3>2. CASE h # g
      <4>1. flight[h] \in Leading /\ Key(h)' = Key(h) /\ sf[Here(h)][Key(h)] = h
        BY <1>2, <1>4, <3>2 DEF Registered
      <4>2. h # Nobody
        BY SingleFlightAssumption
      <4>3. ~(Here(h) = c /\ Key(h) = k)
        BY <2>3, <4>1, <4>2
      <4> QED
        BY <2>4, <2>5, <4>1, <4>3
    <3> QED
      BY <3>1, <3>2
  <2>7. Rechecking'
    <3> SUFFICES ASSUME NEW h \in Goroutines, flight'[h] = "recheck"
                 PROVE  sfMu'[Here(h)] = h /\ sf'[Here(h)][Key(h)'] = Nobody
      BY DEF Rechecking, Here
    <3>1. h # g /\ flight[h] = "recheck" /\ Here(h) # c
      BY <1>2, <2>1, <2>2
    <3>2. sfMu[Here(h)] = h /\ sf[Here(h)][Key(h)] = Nobody /\ Key(h)' = Key(h)
      BY <1>4, <3>1 DEF Rechecking
    <3> QED
      BY <1>1, <2>1, <2>4, <2>5, <3>1, <3>2 DEF SFTyped, SFTypeOK
  <2>8. NamesLeaders => NamesLeaders'
    BY <1>2, <1>4, <1>5, <2>1, <2>4 DEF NamesLeaders, Here
  <2> QED
    BY <2>6, <2>7, <2>8
<1>9. CASE Release(g)
  <2>1. /\ sf' = [sf EXCEPT ![c][k] = Nobody] /\ sfMu' = sfMu /\ sfMu[c] = Nobody
        /\ flight[g] = "release" /\ flight'[g] = "answer"
    BY <1>9 DEF Release, Goto, SFTyped, SFTypeOK
  <2>2. \A d \in Instances, j \in Keys :
            sf'[d][j] = IF d = c /\ j = k THEN Nobody ELSE sf[d][j]
    BY <1>1, <2>1 DEF SFTyped, SFTypeOK
  <2>3. \A h \in Goroutines : Key(h) \in Keys /\ Here(h) \in Instances
    BY JobTyped
  <2>4. sf[c][k] = g
    BY <2>1 DEF Registered, Leading
  <2>5. Registered'
    <3> SUFFICES ASSUME NEW h \in Goroutines, flight'[h] \in Leading
                 PROVE  sf'[Here(h)][Key(h)'] = h
      BY DEF Registered, Here
    <3>1. h # g /\ flight[h] \in Leading
      BY <1>2, <2>1 DEF Leading
    <3>2. Key(h)' = Key(h) /\ sf[Here(h)][Key(h)] = h
      BY <1>4, <3>1 DEF Registered
    <3> QED
      BY <2>2, <2>3, <2>4, <3>1, <3>2
  <2>6. Rechecking'
    <3> SUFFICES ASSUME NEW h \in Goroutines, flight'[h] = "recheck"
                 PROVE  sfMu'[Here(h)] = h /\ sf'[Here(h)][Key(h)'] = Nobody
      BY DEF Rechecking, Here
    <3>1. flight[h] = "recheck"
      BY <1>2, <2>1
    <3>2. sfMu[Here(h)] = h /\ sf[Here(h)][Key(h)] = Nobody /\ Key(h)' = Key(h)
      BY <1>4, <3>1 DEF Rechecking
    <3> QED
      BY <2>1, <2>2, <2>3, <3>2
  <2>7. NamesLeaders => NamesLeaders'
    <3> SUFFICES ASSUME NamesLeaders, NEW d \in Instances, NEW j \in Keys,
                        NEW h \in Goroutines, sf'[d][j] = h
                 PROVE  flight'[h] \in Leading /\ Here(h) = d /\ Key(h)' = j
      BY DEF NamesLeaders, Here
    <3>1. ~(d = c /\ j = k) /\ sf[d][j] = h
      BY <2>2, SingleFlightAssumption
    <3>2. flight[h] \in Leading /\ Here(h) = d /\ Key(h) = j
      BY <3>1 DEF NamesLeaders
    <3>3. h # g
      BY <3>1, <3>2
    <3> QED
      BY <1>2, <1>4, <3>2, <3>3
  <2> QED
    BY <2>5, <2>6, <2>7
<1> QED
  BY <1>6, <1>7, <1>8, <1>9 DEF Registering

LEMMA PanicRegistry ==
    ASSUME SFTyped, [SFNext]_vars, Registered, Rechecking,
           NEW g \in Goroutines, ComputePanic(g)
    PROVE  Registered' /\ Rechecking'
<1>1. /\ UNCHANGED <<sf, sfMu>>
      /\ \A h \in Goroutines : flight'[h] = IF h = g THEN "out" ELSE flight[h]
  BY DEF ComputePanic, Goto, SFTyped, SFTypeOK
<1>2. \A h \in Goroutines : flight'[h] \in Leading \cup {"recheck"} =>
          flight'[h] = flight[h] /\ Key(h)' = Key(h)
  <2> TAKE h \in Goroutines
  <2>1. flight'[h] \in Leading \cup {"recheck"} => flight'[h] # "out" /\ flight[h] = flight'[h]
    BY <1>1 DEF Leading
  <2> QED
    BY <2>1, KeysStay
<1> QED
  BY <1>1, <1>2 DEF Registered, Rechecking, Here

LEMMA CrashRegistry ==
    ASSUME SFTyped, [SFNext]_vars, Registered, Rechecking,
           NEW c \in Instances, Crash(c)
    PROVE  Registered' /\ Rechecking' /\ (NamesLeaders => NamesLeaders')
<1>1. /\ sf' = [sf EXCEPT ![c] = [k \in Keys |-> Nobody]]
      /\ sfMu' = [sfMu EXCEPT ![c] = Nobody]
      /\ \A h \in Goroutines : flight'[h] = IF Here(h) = c THEN "out" ELSE flight[h]
  BY DEF Crash, Here
<1>2. \A h \in Goroutines : flight[h] \in Leading \cup {"recheck"} /\ Here(h) # c =>
          flight'[h] = flight[h] /\ Key(h)' = Key(h)
  <2> TAKE h \in Goroutines
  <2>1. flight[h] \in Leading \cup {"recheck"} /\ Here(h) # c =>
            flight[h] # "out" /\ flight'[h] = flight[h]
    BY <1>1 DEF Leading
  <2> QED
    BY <2>1, KeysStay
<1>3. \A h \in Goroutines : flight'[h] \in Leading \cup {"recheck"} =>
          flight[h] = flight'[h] /\ Here(h) # c
  BY <1>1 DEF Leading
<1>4. \A h \in Goroutines : Key(h) \in Keys /\ Here(h) \in Instances
  BY JobTyped
<1>5. /\ \A d \in Instances \ {c} : sf'[d] = sf[d] /\ sfMu'[d] = sfMu[d]
      /\ \A k \in Keys : sf'[c][k] = Nobody
  BY <1>1 DEF SFTyped, SFTypeOK
<1>6. Registered' /\ Rechecking'
  BY <1>2, <1>3, <1>4, <1>5 DEF Registered, Rechecking, Here
<1>7. NamesLeaders => NamesLeaders'
  <2> SUFFICES ASSUME NamesLeaders, NEW d \in Instances, NEW j \in Keys,
                      NEW h \in Goroutines, sf'[d][j] = h
               PROVE  flight'[h] \in Leading /\ Here(h) = d /\ Key(h)' = j
    BY DEF NamesLeaders, Here
  <2>1. d # c /\ sf[d][j] = h
    BY <1>5, SingleFlightAssumption
  <2>2. flight[h] \in Leading /\ Here(h) = d /\ Key(h) = j
    BY <2>1 DEF NamesLeaders
  <2> QED
    BY <1>2, <2>1, <2>2
<1> QED
  BY <1>6, <1>7

LEMMA RestRegistry ==
    ASSUME Registered, Rechecking, UNCHANGED <<op, sfVars>>
    PROVE  Registered' /\ Rechecking' /\ (NamesLeaders => NamesLeaders')
  BY DEF Registered, Rechecking, NamesLeaders, sfVars, Here, Key

(***************************************************************************)
(* Every step but a panic of compute.                                      *)
(***************************************************************************)
Acts(g) ==
    \/ \E k \in Keys : GetOrCompute(g, k)
    \/ FlightStep(g)
    \/ CacheStep(g)
    \/ PlainCall(g)

Orderly ==
    \/ \E g \in Goroutines : Acts(g)
    \/ \E c \in Instances : Crash(c)
    \/ Tick /\ UNCHANGED sfVars

LEMMA OrderlyRegistry ==
    ASSUME SFTyped, [Orderly]_vars, Registered, Rechecking
    PROVE  Registered' /\ Rechecking' /\ (NamesLeaders => NamesLeaders')
<1>1. [SFNext]_vars
  BY DEF Orderly, Acts, SFNext
<1>2. ASSUME NEW g \in Goroutines, Acts(g)
      PROVE  Registered' /\ Rechecking' /\ (NamesLeaders => NamesLeaders')
  <2>1. CASE Registering(g)
    BY <1>1, <2>1, RegistryStep
  <2>2. CASE ~Registering(g)
    BY <1>1, <1>2, <2>2, QuietSteps, QuietRegistry DEF Acts
  <2> QED
    BY <2>1, <2>2
<1>3. ASSUME NEW c \in Instances, Crash(c)
      PROVE  Registered' /\ Rechecking' /\ (NamesLeaders => NamesLeaders')
  BY <1>1, <1>3, CrashRegistry
<1>4. CASE Tick /\ UNCHANGED sfVars
  BY <1>4, RestRegistry DEF Tick
<1>5. CASE UNCHANGED vars
  BY <1>5, RestRegistry DEF vars, cacheVars
<1> QED
  BY <1>2, <1>3, <1>4, <1>5 DEF Orderly

LEMMA RegistryInit == SFInit => Registered /\ Rechecking /\ NamesLeaders
  BY SingleFlightAssumption DEF SFInit, Registered, Rechecking, NamesLeaders, Leading

LEMMA SFStepRegistry ==
    SFTyped /\ Registered /\ Rechecking /\ [SFNext]_vars => Registered' /\ Rechecking'
<1> SUFFICES ASSUME SFTyped, Registered, Rechecking, [SFNext]_vars
             PROVE  Registered' /\ Rechecking'
  OBVIOUS
<1>1. [Orderly]_vars \/ \E g \in Goroutines : ComputePanic(g)
  BY DEF SFNext, Orderly, Acts
<1> QED
  BY <1>1, OrderlyRegistry, PanicRegistry

LEMMA ExactIsBoth == SFTyped /\ Registered /\ NamesLeaders => RegistryIsExact
  BY DEF Registered, NamesLeaders, RegistryIsExact

(***************************************************************************)
(* As long as compute does not panic, the registry of every process names  *)
(* exactly its winners under way, through every error, every timeout and   *)
(* every crash: no loser waits for a goroutine that will not publish and   *)
(* no key is computed twice at a time (singleflight.go 80-107, 121-137).   *)
(***************************************************************************)
THEOREM RegistryExact ==
    ASSUME "panic" \notin CallFaults
    PROVE  SFSpec => []RegistryIsExact
<1>1. [SFNext]_vars => [Orderly]_vars
  BY DEF SFNext, Orderly, Acts, ComputePanic
<1>2. SFTyped /\ Registered /\ Rechecking /\ NamesLeaders /\ [SFNext]_vars =>
          Registered' /\ Rechecking' /\ NamesLeaders'
  BY <1>1, OrderlyRegistry
<1> QED
  BY <1>2, RegistryInit, AlwaysSFTyped, ExactIsBoth, PTL DEF SFSpec

-----------------------------------------------------------------------------
(* What the steps outside of the cache leave alone.                        *)

Begun == {"idle", "getL1", "setL1", "invL1"}

Outer ==
    /\ UNCHANGED <<clock, store, layers>>
    /\ \A h \in Goroutines :
          \/ pc'[h] = pc[h] /\ (flight'[h] = flight[h] \/ pc[h] = "idle")
          \/ /\ pc'[h] \in Begun
             /\ pc'[h] = "setL1" => flight'[h] = "write" \/ h \in Setters
             /\ pc'[h] = "invL1" => h \in Invalidators

LEMMA OuterMove ==
    ASSUME SFTyped, NEW g \in Goroutines, UNCHANGED <<clock, store, layers>>,
           \A h \in Goroutines \ {g} : flight'[h] = flight[h] /\ pc'[h] = pc[h],
           \/ pc'[g] = "idle"
           \/ pc'[g] = "getL1"
           \/ pc'[g] = "setL1" /\ flight'[g] = "write"
    PROVE  Outer
  BY DEF Outer, Begun

LEMMA OuterSteps ==
    ASSUME SFTyped, NEW g \in Goroutines,
           \/ \E k \in Keys : GetOrCompute(g, k)
           \/ FlightStep(g) \/ ComputePanic(g) \/ PlainCall(g)
    PROVE  Outer
<1> USE DEF Goto
<1>0. /\ pc \in [Goroutines -> PCs] /\ flight \in [Goroutines -> Flights]
      /\ \A h \in Goroutines : flight[h] \notin {"out", "fast", "recheck", "poll", "write"} =>
             pc[h] = "idle"
  BY DEF SFTyped, SFTypeOK, TypeOK, Coupled
<1>1. ASSUME NEW k \in Keys, GetOrCompute(g, k) PROVE Outer
  BY <1>0, <1>1, OuterMove DEF GetOrCompute, GetBegin, Begin, NoStore
<1>2. CASE FastHit(g) \/ FastError(g) \/ FastMiss(g) \/ RecheckHit(g) \/ Register(g)
  BY <1>0, <1>2, OuterMove DEF FastHit, FastError, FastMiss, RecheckHit, Register, InnerDone
<1>3. CASE PollFound(g) \/ PollAgain(g) \/ PollTimeout(g) \/ WriteBackDone(g)
  BY <1>0, <1>3, OuterMove DEF PollFound, PollAgain, PollTimeout, WriteBackDone, Leave,
                               InnerDone
<1>4. CASE Recheck(g) \/ Poll(g)
  BY <1>0, <1>4, OuterMove DEF Recheck, Poll, GetBegin, Begin, NoStore
<1>5. CASE TryLockOk(g) \/ TryLockBusy(g) \/ Snapshot(g) \/ Discard(g) \/ Keep(g)
  <2>1. UNCHANGED cacheVars /\ \A h \in Goroutines \ {g} : flight'[h] = flight[h]
    BY <1>0, <1>5 DEF TryLockOk, TryLockBusy, Snapshot, Discard, Keep, Leave
  <2>2. pc[g] = "idle"
    BY <1>0, <1>5 DEF TryLockOk, TryLockBusy, Snapshot, Discard, Keep
  <2> QED
    BY <2>1, <2>2, OuterMove DEF cacheVars, layers
<1>6. CASE ComputeOk(g) \/ ComputeError(g) \/ Unlock(g) \/ Release(g) \/ Join(g)
  <2>1. UNCHANGED cacheVars /\ \A h \in Goroutines \ {g} : flight'[h] = flight[h]
    BY <1>0, <1>6 DEF ComputeOk, ComputeError, Unlock, Release, Join, Leave
  <2>2. pc[g] = "idle"
    BY <1>0, <1>6 DEF ComputeOk, ComputeError, Unlock, Release, Join
  <2> QED
    BY <2>1, <2>2, OuterMove DEF cacheVars, layers
<1>7. CASE ReturnAnswer(g) \/ ComputePanic(g)
  BY <1>0, <1>7, OuterMove DEF ReturnAnswer, ComputePanic
<1>8. CASE WriteBack(g)
  BY <1>0, <1>8, OuterMove DEF WriteBack, SetBegin, Begin, NoStore, sfVars
<1>9. CASE Publish(g)
  <2>1. UNCHANGED cacheVars
    BY <1>9 DEF Publish
  <2>2. \A h \in Goroutines : flight'[h] = flight[h] \/ pc[h] = "idle"
    BY <1>0, <1>9 DEF Publish, Waiting
  <2> QED
    BY <2>1, <2>2 DEF Outer, cacheVars, layers
<1>10. CASE PlainCall(g)
  <2>1. UNCHANGED <<clock, store, layers, sfVars>>
    BY <1>10 DEF PlainCall, Invalidate, SetWithTTL, Return
  <2>2. /\ \A h \in Goroutines \ {g} : pc'[h] = pc[h]
        /\ \/ pc'[g] = "invL1" /\ g \in Invalidators
           \/ pc'[g] = "setL1" /\ g \in Setters
           \/ pc'[g] = "idle"
    BY <1>0, <1>10 DEF PlainCall, Invalidate, InvalidateBegin, SetWithTTL, SetBegin, Begin,
                       Return
  <2> QED
    BY <2>1, <2>2 DEF Outer, Begun, sfVars
<1> QED
  BY <1>1, <1>2, <1>3, <1>4, <1>5, <1>6, <1>7, <1>8, <1>9, <1>10 DEF FlightStep, GuardStep

-----------------------------------------------------------------------------
(***************************************************************************)
(* The stampede guard, for a cache without a store, whose only writers are *)
(* the write-backs of GetOrCompute, and as long as no process dies.        *)
(***************************************************************************)
Storeless ==
    \A g \in Goroutines :
       /\ pc[g] \in {"idle", "getL1", "hit", "miss", "setL1", "invL1", "done"}
       /\ pc[g] = "setL1" => flight[g] = "write"

MissIsTrue ==
    \A g \in Goroutines :
        flight[g] = "recheck" /\ pc[g] = "miss" => l1[Here(g)][Key(g)] = NoEntry

Guarded == SFTyped /\ Registered /\ Rechecking /\ Storeless /\ MissIsTrue

Uncrashed ==
    \/ \E g \in Goroutines : Acts(g) \/ ComputePanic(g)
    \/ Tick /\ UNCHANGED sfVars

L1Steps(g) == GetL1Hit(g) \/ GetL1Miss(g) \/ SetL1(g) \/ InvalidateL1(g)

LEMMA StorelessCache ==
    ASSUME ~HasStore, SFTyped, Storeless, NEW g \in Goroutines, Step(g)
    PROVE  /\ L1Steps(g)
           /\ \A h \in Goroutines \ {g} : pc'[h] = pc[h]
           /\ pc'[g] \in {"hit", "miss", "done"}
<1>1. L1Steps(g)
  BY DEF Step, GetStep, L1Steps, GetL2Found, GetL2Absent, GetL2Error, GetClock, GetKeep,
         GetReject, GetPromote, SetL2, InvalidateL2, Storeless
<1>2. pc \in [Goroutines -> PCs]
  BY DEF SFTyped, SFTypeOK, TypeOK
<1> QED
  BY <1>1, <1>2 DEF L1Steps, GetL1Hit, GetL1Miss, SetL1, InvalidateL1, Finish

(* The place of a goroutine in L1 is touched by its own kind of step only. *)
LEMMA L1Effect ==
    ASSUME SFTyped, NEW g \in Goroutines, L1Steps(g)
    PROVE  /\ \/ l1' = l1
              \/ l1' = [l1 EXCEPT ![Here(g)][Key(g)] = NoEntry]
              \/ pc[g] = "setL1" /\ l1' = [l1 EXCEPT ![Here(g)][Key(g)] = op[g].ent]
           /\ pc'[g] = "miss" => l1' = [l1 EXCEPT ![Here(g)][Key(g)] = NoEntry]
<1>1. pc \in [Goroutines -> PCs]
  BY DEF SFTyped, SFTypeOK, TypeOK
<1>2. CASE GetL1Hit(g)
  BY <1>1, <1>2 DEF GetL1Hit, Finish, layers
<1>3. CASE GetL1Miss(g)
  BY <1>1, <1>3 DEF GetL1Miss, Key
<1>4. CASE SetL1(g)
  BY <1>1, <1>4 DEF SetL1, Finish, Key
<1>5. CASE InvalidateL1(g)
  BY <1>1, <1>5 DEF InvalidateL1, Finish, Key
<1> QED
  BY <1>2, <1>3, <1>4, <1>5 DEF L1Steps

LEMMA L1Elsewhere ==
    ASSUME SFTyped, NEW c \in Instances, NEW k \in Keys, NEW e,
           l1' = [l1 EXCEPT ![c][k] = e]
    PROVE  \A d \in Instances, j \in Keys :
               l1'[d][j] = IF d = c /\ j = k THEN e ELSE l1[d][j]
  BY DEF SFTyped, SFTypeOK, TypeOK

LEMMA L1Slot ==
    ASSUME SFTyped, NEW g \in Goroutines, L1Steps(g), NEW d \in Instances, NEW j \in Keys
    PROVE  /\ l1[d][j] = NoEntry /\ (pc[g] # "setL1" \/ d # Here(g) \/ j # Key(g)) =>
                  l1'[d][j] = NoEntry
           /\ d = Here(g) /\ j = Key(g) /\ pc'[g] = "miss" => l1'[d][j] = NoEntry
<1>1. PICK c \in Instances, k \in Keys : c = Here(g) /\ k = Key(g)
  BY JobTyped
<1>2. /\ \/ l1' = l1
         \/ l1' = [l1 EXCEPT ![c][k] = NoEntry]
         \/ pc[g] = "setL1" /\ l1' = [l1 EXCEPT ![c][k] = op[g].ent]
      /\ pc'[g] = "miss" => l1' = [l1 EXCEPT ![c][k] = NoEntry]
  BY <1>1, L1Effect
<1>3. CASE l1' = [l1 EXCEPT ![c][k] = NoEntry]
  <2>1. l1'[d][j] = IF d = c /\ j = k THEN NoEntry ELSE l1[d][j]
    BY <1>3 DEF SFTyped, SFTypeOK, TypeOK
  <2> QED
    BY <1>1, <2>1
<1>4. CASE l1' = l1 /\ pc'[g] # "miss"
  BY <1>1, <1>4
<1>5. CASE pc[g] = "setL1" /\ l1' = [l1 EXCEPT ![c][k] = op[g].ent] /\ pc'[g] # "miss"
  <2>1. ~(d = c /\ j = k) => l1'[d][j] = l1[d][j]
    BY <1>5, L1Elsewhere
  <2> QED
    BY <1>1, <1>5, <2>1
<1> QED
  BY <1>2, <1>3, <1>4, <1>5

LEMMA CacheGuarded ==
    ASSUME ~HasStore, Guarded, [SFNext]_vars, NEW g \in Goroutines, CacheStep(g)
    PROVE  Storeless' /\ MissIsTrue'
<1> USE DEF Guarded
<1>1. /\ Step(g) /\ UNCHANGED <<flight, sf, sfMu>>
      /\ L1Steps(g) /\ pc'[g] \in {"hit", "miss", "done"}
      /\ \A h \in Goroutines \ {g} : pc'[h] = pc[h]
  BY StorelessCache DEF CacheStep
<1>2. Storeless'
  BY <1>1 DEF Storeless
<1>3. \A h \in Goroutines : Key(h)' = Key(h) /\ Key(h) \in Keys /\ Here(h) \in Instances
  BY <1>1, StepKeepsKey, JobTyped
<1>4. ASSUME NEW h \in Goroutines, flight[h] = "recheck", pc'[h] = "miss"
      PROVE  l1'[Here(h)][Key(h)] = NoEntry
  <2> DEFINE d == Here(h)
             j == Key(h)
  <2>1. PICK c \in Instances, k \in Keys : c = d /\ k = j
    BY <1>3
  <2>2. CASE h = g
    BY <1>1, <1>4, <2>1, <2>2, L1Slot
  <2>3. CASE h # g
    <3>1. l1[c][k] = NoEntry
      BY <1>1, <1>4, <2>1, <2>3 DEF MissIsTrue
    <3>2. pc[g] # "setL1" \/ c # Here(g) \/ k # Key(g)
      <4>1. sf[c][k] = Nobody
        BY <1>4, <2>1 DEF Rechecking
      <4>2. pc[g] = "setL1" => sf[Here(g)][Key(g)] = g
        BY DEF Storeless, Registered, Leading
      <4> QED
        BY <4>1, <4>2, SingleFlightAssumption
    <3> QED
      BY <1>1, <2>1, <3>1, <3>2, L1Slot
  <2> QED
    BY <2>2, <2>3
<1>5. MissIsTrue'
  BY <1>1, <1>3, <1>4 DEF MissIsTrue, Here
<1> QED
  BY <1>2, <1>5

LEMMA OuterGuarded ==
    ASSUME Setters = {}, Guarded, [SFNext]_vars, Outer
    PROVE  Storeless' /\ MissIsTrue'
<1> USE DEF Guarded
<1>1. Storeless'
  BY DEF Outer, Storeless, Begun
<1>2. ASSUME NEW h \in Goroutines, flight'[h] = "recheck", pc'[h] = "miss"
      PROVE  l1'[Here(h)][Key(h)'] = NoEntry
  <2>1. pc[h] = "miss" /\ flight[h] = "recheck"
    BY <1>2 DEF Outer, Begun
  <2>2. Key(h)' = Key(h)
    BY <1>2, <2>1, KeysStay
  <2> QED
    BY <2>1, <2>2 DEF Outer, MissIsTrue, layers
<1>3. MissIsTrue'
  BY <1>2 DEF MissIsTrue, Here
<1> QED
  BY <1>1, <1>3

LEMMA GuardedStep ==
    ASSUME ~HasStore, Setters = {}, Guarded, [Uncrashed]_vars
    PROVE  Guarded'
<1>1. [SFNext]_vars
  BY DEF Uncrashed, Acts, SFNext
<1>2. SFTyped' /\ Registered' /\ Rechecking'
  BY <1>1, SFStepTyped, SFStepRegistry DEF Guarded
<1>3. ASSUME NEW g \in Goroutines, Acts(g) \/ ComputePanic(g)
      PROVE  Storeless' /\ MissIsTrue'
  <2>1. CASE CacheStep(g)
    BY <1>1, <2>1, CacheGuarded
  <2>2. CASE ~CacheStep(g)
    <3>1. Outer
      BY <1>3, <2>2, OuterSteps DEF Acts, Guarded
    <3> QED
      BY <1>1, <3>1, OuterGuarded
  <2> QED
    BY <2>1, <2>2
<1>4. UNCHANGED <<pc, op, l1, flight>> => Storeless' /\ MissIsTrue'
  BY DEF Guarded, Storeless, MissIsTrue, Here, Key
<1>5. (Tick /\ UNCHANGED sfVars) \/ UNCHANGED vars => UNCHANGED <<pc, op, l1, flight>>
  BY DEF Tick, layers, vars, cacheVars, sfVars
<1>6. Storeless' /\ MissIsTrue'
  BY <1>3, <1>4, <1>5 DEF Uncrashed
<1> QED
  BY <1>2, <1>6 DEF Guarded

(***************************************************************************)
(* The steps of OneFlight.                                                 *)
(***************************************************************************)
Slots == Instances \X Keys

InFlight == {s \in Slots : sf[s[1]][s[2]] # Nobody}

Cached == {s \in Slots : l1[s[1]][s[2]] # NoEntry}

LEMMA SameSlots ==
    ASSUME UNCHANGED <<sf, l1>>
    PROVE  UNCHANGED Flight!flightVars
  BY DEF Flight!flightVars

LEMMA FlightDrops ==
    ASSUME SFTyped, sf' = sf, NEW c \in Instances, NEW k \in Keys,
           l1' = [l1 EXCEPT ![c][k] = NoEntry]
    PROVE  Flight!Drop(<<c, k>>) \/ UNCHANGED Flight!flightVars
<1>1. \A d \in Instances, j \in Keys :
          l1'[d][j] = IF d = c /\ j = k THEN NoEntry ELSE l1[d][j]
  BY DEF SFTyped, SFTypeOK, TypeOK
<1>2. <<c, k>> \in Slots /\ (<<c, k>> \in Cached <=> l1[c][k] # NoEntry)
  BY DEF Slots, Cached
<1>3. Cached' = Cached \ {<<c, k>>}
  BY <1>1 DEF Cached, Slots
<1>4. InFlight' = InFlight
  BY DEF InFlight
<1>5. CASE <<c, k>> \in Cached
  BY <1>3, <1>4, <1>5 DEF Flight!Drop, Cached, InFlight, Slots
<1>6. CASE <<c, k>> \notin Cached
  <2>1. Cached' = Cached
    BY <1>3, <1>6
  <2> QED
    BY <1>4, <2>1 DEF Flight!flightVars, Cached, InFlight, Slots
<1> QED
  BY <1>5, <1>6

LEMMA FlightFills ==
    ASSUME SFTyped, sf' = sf, NEW c \in Instances, NEW k \in Keys, NEW e,
           e # NoEntry, sf[c][k] # Nobody, l1' = [l1 EXCEPT ![c][k] = e]
    PROVE  Flight!Fill(<<c, k>>)
<1>1. \A d \in Instances, j \in Keys :
          l1'[d][j] = IF d = c /\ j = k THEN e ELSE l1[d][j]
  BY DEF SFTyped, SFTypeOK, TypeOK
<1>2. <<c, k>> \in InFlight
  BY DEF Slots, InFlight
<1>3. Cached' = Cached \cup {<<c, k>>}
  BY <1>1 DEF Cached, Slots
<1>4. InFlight' = InFlight
  BY DEF InFlight
<1> QED
  BY <1>2, <1>3, <1>4 DEF Flight!Fill, Cached, InFlight, Slots

LEMMA FlightStarts ==
    ASSUME SFTyped, l1' = l1, NEW g \in Goroutines, NEW c \in Instances, NEW k \in Keys,
           l1[c][k] = NoEntry, sf[c][k] = Nobody, sf' = [sf EXCEPT ![c][k] = g]
    PROVE  Flight!Start(<<c, k>>)
<1>1. \A d \in Instances, j \in Keys : sf'[d][j] = IF d = c /\ j = k THEN g ELSE sf[d][j]
  BY DEF SFTyped, SFTypeOK
<1>2. <<c, k>> \in Slots /\ <<c, k>> \notin InFlight \cup Cached
  BY DEF Slots, InFlight, Cached
<1>3. InFlight' = InFlight \cup {<<c, k>>}
  BY <1>1, SingleFlightAssumption DEF InFlight, Slots
<1>4. Cached' = Cached
  BY DEF Cached
<1> QED
  BY <1>2, <1>3, <1>4 DEF Flight!Start, Cached, InFlight, Slots

LEMMA FlightEnds ==
    ASSUME SFTyped, l1' = l1, NEW c \in Instances, NEW k \in Keys,
           sf[c][k] # Nobody, sf' = [sf EXCEPT ![c][k] = Nobody]
    PROVE  Flight!End(<<c, k>>)
<1>1. \A d \in Instances, j \in Keys :
          sf'[d][j] = IF d = c /\ j = k THEN Nobody ELSE sf[d][j]
  BY DEF SFTyped, SFTypeOK
<1>2. <<c, k>> \in InFlight
  BY DEF Slots, InFlight
<1>3. InFlight' = InFlight \ {<<c, k>>}
  BY <1>1 DEF InFlight, Slots
<1>4. Cached' = Cached
  BY DEF Cached
<1> QED
  BY <1>2, <1>3, <1>4 DEF Flight!End, Cached, InFlight, Slots

LEMMA GuardedRefines ==
    ASSUME ~HasStore, Setters = {}, Guarded, [Uncrashed]_vars
    PROVE  [Flight!Next]_(Flight!flightVars)
<1> USE DEF Guarded
<1> SUFFICES (\E s \in Slots : \/ Flight!Start(s) \/ Flight!Fill(s)
                               \/ Flight!End(s) \/ Flight!Drop(s))
             \/ UNCHANGED Flight!flightVars
  BY DEF Flight!Next, Slots
<1>1. ASSUME NEW g \in Goroutines, Acts(g) \/ ComputePanic(g),
             NEW c \in Instances, c = Here(g), NEW k \in Keys, k = Key(g)
      PROVE  \/ Flight!Start(<<c, k>>) \/ Flight!Fill(<<c, k>>)
             \/ Flight!End(<<c, k>>) \/ Flight!Drop(<<c, k>>)
             \/ UNCHANGED Flight!flightVars
  <2>1. CASE CacheStep(g)
    <3>1. sf' = sf /\ L1Steps(g)
      BY <2>1, StorelessCache DEF CacheStep
    <3>2. CASE l1' = l1
      BY <3>1, <3>2, SameSlots
    <3>3. CASE l1' = [l1 EXCEPT ![c][k] = NoEntry]
      BY <1>1, <3>1, <3>3, FlightDrops
    <3>4. CASE pc[g] = "setL1" /\ l1' = [l1 EXCEPT ![c][k] = op[g].ent]
      <4>1. sf[c][k] # Nobody
        BY <1>1, <3>4, SingleFlightAssumption DEF Storeless, Registered, Leading
      <4>2. op[g].ent # NoEntry
        BY <3>4, CacheAssumption DEF SFTyped, HandlesEntry, Carrying
      <4> QED
        BY <1>1, <3>1, <3>4, <4>1, <4>2, FlightFills
    <3> QED
      BY <1>1, <3>1, <3>2, <3>3, <3>4, L1Effect
  <2>2. CASE ~CacheStep(g)
    <3>1. l1' = l1
      BY <1>1, <2>2, OuterSteps DEF Acts, Outer, layers
    <3>2. CASE Register(g)
      <4>1. pc[g] = "miss" /\ flight[g] = "recheck"
        BY <3>2 DEF Register, Storeless
      <4>2. l1[c][k] = NoEntry /\ sf[c][k] = Nobody
        BY <1>1, <4>1 DEF MissIsTrue, Rechecking
      <4>3. sf' = [sf EXCEPT ![c][k] = g]
        BY <1>1, <3>2 DEF Register
      <4> QED
        BY <1>1, <3>1, <4>2, <4>3, FlightStarts
    <3>3. CASE Release(g)
      <4>1. sf[c][k] # Nobody
        BY <1>1, <3>3, SingleFlightAssumption DEF Release, Registered, Leading
      <4>2. sf' = [sf EXCEPT ![c][k] = Nobody]
        BY <1>1, <3>3 DEF Release
      <4> QED
        BY <1>1, <3>1, <4>1, <4>2, FlightEnds
    <3>4. CASE ~Register(g) /\ ~Release(g)
      <4>1. CASE Recheck(g) \/ RecheckHit(g) \/ ComputePanic(g)
        BY <4>1, <3>1, SameSlots DEF Recheck, RecheckHit, ComputePanic
      <4>2. CASE ~(Recheck(g) \/ RecheckHit(g) \/ ComputePanic(g))
        BY <1>1, <3>1, <3>4, <4>2, QuietSteps, SameSlots DEF Acts, Registering, Quiet
      <4> QED
        BY <4>1, <4>2
    <3> QED
      BY <3>2, <3>3, <3>4
  <2> QED
    BY <2>1, <2>2
<1>2. ASSUME NEW g \in Goroutines, Acts(g) \/ ComputePanic(g)
      PROVE  (\E s \in Slots : \/ Flight!Start(s) \/ Flight!Fill(s)
                               \/ Flight!End(s) \/ Flight!Drop(s))
             \/ UNCHANGED Flight!flightVars
  <2>1. PICK c \in Instances, k \in Keys : c = Here(g) /\ k = Key(g)
    BY JobTyped
  <2>2. <<c, k>> \in Slots
    BY DEF Slots
  <2>3. \/ Flight!Start(<<c, k>>) \/ Flight!Fill(<<c, k>>)
        \/ Flight!End(<<c, k>>) \/ Flight!Drop(<<c, k>>)
        \/ UNCHANGED Flight!flightVars
    BY <1>1, <1>2, <2>1
  <2> QED
    BY <2>2, <2>3
<1>3. CASE Tick /\ UNCHANGED sfVars
  BY <1>3, SameSlots DEF Tick, layers, sfVars
<1>4. CASE UNCHANGED vars
  BY <1>4, SameSlots DEF vars, cacheVars, sfVars
<1> QED
  BY <1>2, <1>3, <1>4 DEF Uncrashed

LEMMA GuardedInit ==
    ASSUME ~HasStore
    PROVE  SFInit => Guarded /\ Flight!Init
<1> SUFFICES ASSUME SFInit PROVE Guarded /\ Flight!Init
  OBVIOUS
<1>1. Storeless /\ MissIsTrue
  BY DEF SFInit, Init, Storeless, MissIsTrue
<1>2. Flight!Init
  BY DEF SFInit, Init, Flight!Init
<1> QED
  BY <1>1, <1>2, InitSFTyped, RegistryInit DEF Guarded

(***************************************************************************)
(* GetOrCompute over an in-memory cache implements OneFlight: a key is     *)
(* computed only when none of the goroutines of the process computes it    *)
(* and nothing is cached, and its slot is freed only by the goroutine that *)
(* holds it, whatever is invalidated meanwhile and whether compute returns *)
(* a value, an error or panics (singleflight.go 86-98, 128-134).  A store  *)
(* would fill the cache, and a death of the process empty it, outside of   *)
(* any flight.                                                             *)
(***************************************************************************)
THEOREM StampedeGuarded ==
    ASSUME ~HasStore, Setters = {}, MaxCrashes = 0
    PROVE  SFSpec => GuardsStampede
<1>1. SFTyped /\ [SFNext]_vars => [Uncrashed]_vars
  BY DEF SFTyped, SFTypeOK, SFNext, Crash, Uncrashed, Acts
<1>2. Guarded /\ [SFNext]_vars => Guarded' /\ [Flight!Next]_(Flight!flightVars)
  <2> SUFFICES ASSUME Guarded, [SFNext]_vars
               PROVE  Guarded' /\ [Flight!Next]_(Flight!flightVars)
    OBVIOUS
  <2>1. [Uncrashed]_vars
    BY <1>1 DEF Guarded
  <2> QED
    BY <2>1, GuardedStep, GuardedRefines
<1> QED
  BY <1>2, GuardedInit, PTL DEF SFSpec, GuardsStampede, Flight!Spec

-----------------------------------------------------------------------------
(***************************************************************************)
(* A process computes a key once, if nothing is invalidated, nobody else   *)
(* writes and values do not expire: then what the cache holds it serves    *)
(* for good, the goroutine that computed a value is bringing it there, and *)
(* a goroutine that missed under sfMu knows that nothing was computed yet. *)
(***************************************************************************)
Eternal(e) == e # NoEntry => e.expires = NoTime

Everlasting ==
    /\ \A c \in Instances, k \in Keys : tombstones[c][k] = NoTime /\ Eternal(l1[c][k])
    /\ \A k \in Keys : Eternal(store[k])
    /\ \A g \in Goroutines :
          /\ Eternal(op[g].ent)
          /\ job[g].ttl = 0
          /\ pc[g] \notin {"invL1", "invL2"}
          /\ pc[g] \in {"setL1", "setL2"} => flight[g] = "write"

Ahead == {"guard", "sleep", "poll", "snap", "compute"}

NotYet ==
    \A g \in Goroutines :
        flight[g] \in Ahead \/ (flight[g] = "recheck" /\ pc[g] \notin {"getL1", "hit"}) =>
            computes[Here(g)][Key(g)] = 0

Bringing(g) == flight[g] = "check" \/ (flight[g] = "write" /\ pc[g] \in {"idle", "setL1"})

Landed ==
    \A c \in Instances, k \in Keys :
        \/ computes[c][k] = 0
        \/ /\ computes[c][k] = 1
           /\ \/ l1[c][k] # NoEntry
              \/ \E g \in Goroutines : Here(g) = c /\ Key(g) = k /\ Bringing(g)

Once == SFTyped /\ Registered /\ Rechecking /\ Everlasting /\ NotYet /\ Landed

LEMMA EternalServed ==
    ASSUME SFTyped, Everlasting, NEW g \in Goroutines
    PROVE  ServableL1(g) <=> l1[Here(g)][Key(g)] # NoEntry
<1>1. Here(g) \in Instances /\ Key(g) \in Keys
  BY JobTyped
<1> QED
  BY <1>1 DEF Everlasting, ServableL1, validLocked, Expired, Tombstoned, Eternal, Key

LEMMA EternalEntry ==
    ASSUME NEW v, NEW t
    PROVE  Eternal(NewEntry(v, t, 0))
  BY DEF Eternal, NewEntry, ExpiresAt

LEMMA EternalCache ==
    ASSUME Once, NEW g \in Goroutines, CacheStep(g)
    PROVE  Everlasting' /\ \A c \in Instances, k \in Keys :
                               /\ l1[c][k] # NoEntry => l1'[c][k] # NoEntry
                               /\ pc[g] = "setL1" /\ c = Here(g) /\ k = Key(g) =>
                                      l1'[c][k] # NoEntry
<1> USE DEF Once, Finish, Key
<1>0. /\ l1 \in [Instances -> [Keys -> Entry \cup {NoEntry}]]
      /\ tombstones \in [Instances -> [Keys -> Nat]]
      /\ store \in [Keys -> Entry \cup {NoEntry}]
      /\ pc \in [Goroutines -> PCs] /\ op \in [Goroutines -> Call]
      /\ Here(g) \in Instances /\ Key(g) \in Keys
      /\ NoEntry \notin Entry
  BY JobTyped, CacheAssumption DEF SFTyped, SFTypeOK, TypeOK
<1>1. Step(g) /\ flight' = flight /\ \A h \in Goroutines : job'[h].ttl = job[h].ttl
  <2>1. \A r \in Job : [r EXCEPT !.overtaken = TRUE].ttl = r.ttl
    BY DEF Job
  <2>2. \A h \in Goroutines : job'[h] = job[h] \/ job'[h] = [job[h] EXCEPT !.overtaken = TRUE]
    BY DEF CacheStep
  <2>3. \A h \in Goroutines : job[h] \in Job
    BY DEF SFTyped, SFTypeOK
  <2> QED
    BY <2>1, <2>2, <2>3 DEF CacheStep
<1>2. ASSUME /\ \A h \in Goroutines \ {g} : pc'[h] = pc[h]
             /\ pc'[g] \notin {"invL1", "invL2"}
             /\ pc'[g] \in {"setL1", "setL2"} => flight[g] = "write"
             /\ \A h \in Goroutines : Eternal(op'[h].ent)
             /\ \A k \in Keys : Eternal(store'[k])
             /\ \A c \in Instances, k \in Keys : tombstones'[c][k] = NoTime
                                                  /\ Eternal(l1'[c][k])
      PROVE  Everlasting'
  BY <1>1, <1>2 DEF Everlasting, Eternal
<1>3. CASE GetL1Hit(g) \/ GetKeep(g)
  <2>1. UNCHANGED <<store, l1, tombstones>> /\ pc' = [pc EXCEPT ![g] = "hit"]
    BY <1>3 DEF GetL1Hit, GetKeep, layers
  <2>2. \A h \in Goroutines : op'[h].ent = op[h].ent \/ op'[h].ent = l1[Here(g)][Key(g)]
    BY <1>0, <1>3 DEF GetL1Hit, GetKeep, Call
  <2>3. Everlasting'
    BY <1>0, <1>2, <2>1, <2>2 DEF Everlasting, Eternal
  <2> QED
    BY <1>3, <2>1, <2>3 DEF GetL1Hit, GetKeep
<1>4. CASE GetL1Miss(g)
  <2>1. l1[Here(g)][Key(g)] = NoEntry
    BY <1>4, EternalServed DEF GetL1Miss
  <2>2. UNCHANGED <<store, op, tombstones>> /\ l1' = l1
    BY <1>0, <1>4, <2>1 DEF GetL1Miss
  <2>3. pc[g] = "getL1" /\ pc' = [pc EXCEPT ![g] = IF HasStore THEN "getL2" ELSE "miss"]
    BY <1>4 DEF GetL1Miss
  <2>4. Everlasting'
    BY <1>0, <1>2, <2>2, <2>3 DEF Everlasting, Eternal
  <2> QED
    BY <2>2, <2>3, <2>4
<1>5. CASE GetL2Found(g) \/ GetL2Absent(g) \/ GetL2Error(g) \/ GetClock(g) \/ GetReject(g)
  <2>1. UNCHANGED <<store, l1, tombstones>>
    BY <1>5 DEF GetL2Found, GetL2Absent, GetL2Error, GetClock, GetReject, layers
  <2>2. pc[g] # "setL1" /\ \E at \in {"getClock", "miss", "error", "getPromote"} :
                              pc' = [pc EXCEPT ![g] = at]
    BY <1>5 DEF GetL2Found, GetL2Absent, GetL2Error, GetClock, GetReject
  <2>3. \A h \in Goroutines : op'[h].ent = op[h].ent \/ op'[h].ent = store[Key(g)]
    <3>1. CASE GetL2Found(g)
      <4>1. op' = [op EXCEPT ![g] = [op[g] EXCEPT !.ent = store[Key(g)], !.fetched = clock]]
        BY <1>0, <3>1 DEF GetL2Found
      <4>2. [op[g] EXCEPT !.ent = store[Key(g)], !.fetched = clock].ent = store[Key(g)]
        BY <1>0 DEF Call
      <4> HIDE DEF Key
      <4> QED
        BY <1>0, <4>1, <4>2
    <3>2. CASE GetClock(g)
      BY <1>0, <3>2 DEF GetClock, Call
    <3>3. CASE GetL2Absent(g) \/ GetL2Error(g) \/ GetReject(g)
      BY <3>3 DEF GetL2Absent, GetL2Error, GetReject
    <3> QED
      BY <1>5, <3>1, <3>2, <3>3
  <2>4. Everlasting'
    BY <1>0, <1>2, <2>1, <2>2, <2>3 DEF Everlasting, Eternal
  <2> QED
    BY <2>1, <2>2, <2>4
<1>6. CASE GetPromote(g) \/ SetL1(g)
  <2>1. op[g].ent \in Entry /\ Eternal(op[g].ent)
    BY <1>6 DEF GetPromote, SetL1, SFTyped, HandlesEntry, Carrying, Everlasting
  <2>2. UNCHANGED <<store, op>> /\ l1' = [l1 EXCEPT ![Here(g)][Key(g)] = op[g].ent]
    BY <1>6 DEF GetPromote, SetL1
  <2>3. \A c \in Instances, k \in Keys : tombstones'[c][k] = NoTime
    BY <1>0, <1>6 DEF GetPromote, SetL1, Everlasting
  <2>4. PICK at \in {"hit", "setL2", "done"} : pc' = [pc EXCEPT ![g] = at]
    BY <1>6 DEF GetPromote, SetL1
  <2>5. \A c \in Instances, k \in Keys :
            l1'[c][k] = IF c = Here(g) /\ k = Key(g) THEN op[g].ent ELSE l1[c][k]
    BY <1>0, <2>2
  <2>6. \A c \in Instances, k \in Keys : Eternal(l1'[c][k])
    BY <2>1, <2>5 DEF Everlasting
  <2>7. /\ \A h \in Goroutines \ {g} : pc'[h] = pc[h]
        /\ pc'[g] \notin {"invL1", "invL2"}
        /\ pc'[g] \in {"setL1", "setL2"} => flight[g] = "write"
    <3>1. pc'[g] = at /\ \A h \in Goroutines \ {g} : pc'[h] = pc[h]
      BY <1>0, <2>4
    <3>2. pc[g] = "getPromote" \/ flight[g] = "write"
      BY <1>6 DEF GetPromote, SetL1, Everlasting
    <3>3. pc[g] = "getPromote" => at = "hit"
      BY <1>0, <1>6, <2>4 DEF GetPromote, SetL1
    <3> QED
      BY <3>1, <3>2, <3>3
  <2>8. Everlasting'
    BY <1>2, <2>2, <2>3, <2>6, <2>7 DEF Everlasting
  <2> QED
    BY <1>0, <2>1, <2>5, <2>8
<1>7. CASE SetL2(g)
  <2>1. Eternal(op[g].ent) /\ UNCHANGED <<l1, tombstones, op>> /\ pc[g] = "setL2"
    BY <1>7 DEF SetL2, Everlasting, layers
  <2>2. \A k \in Keys : store'[k] = store[k] \/ store'[k] = op[g].ent
    BY <1>0, <1>7 DEF SetL2
  <2>3. \E at \in {"done", "error"} : pc' = [pc EXCEPT ![g] = at]
    BY <1>7 DEF SetL2
  <2>4. Everlasting'
    BY <1>0, <1>2, <2>1, <2>2, <2>3 DEF Everlasting, Eternal
  <2> QED
    BY <2>1, <2>4
<1>8. ~InvalidateL1(g) /\ ~InvalidateL2(g)
  BY DEF InvalidateL1, InvalidateL2, Everlasting
<1> QED
  BY <1>1, <1>3, <1>4, <1>5, <1>6, <1>7, <1>8 DEF Step, GetStep

(***************************************************************************)
(* While a goroutine is ahead of its compute, or rechecks, its slot is its *)
(* own: no value of the slot is under way.                                 *)
(***************************************************************************)
LEMMA OwnSlot ==
    ASSUME Registered, Rechecking, NEW g \in Goroutines, NEW h \in Goroutines,
           Here(h) = Here(g), Key(h) = Key(g), flight[h] \in Leading,
           flight[g] \in Leading \cup {"recheck"}
    PROVE  h = g
  BY SingleFlightAssumption DEF Registered, Rechecking

LEMMA CacheOnce ==
    ASSUME Once, [SFNext]_vars, NEW g \in Goroutines, CacheStep(g)
    PROVE  NotYet' /\ Landed'
<1> USE DEF Once
<1>1. /\ Step(g) /\ UNCHANGED <<flight, computes>>
      /\ \A h \in Goroutines \ {g} : pc'[h] = pc[h]
      /\ pc[g] \notin {"idle", "hit"}
      /\ \A h \in Goroutines : Key(h)' = Key(h)
  BY StepStays, StepKeepsKey DEF CacheStep
<1>2. \A c \in Instances, k \in Keys :
         /\ l1[c][k] # NoEntry => l1'[c][k] # NoEntry
         /\ pc[g] = "setL1" /\ c = Here(g) /\ k = Key(g) => l1'[c][k] # NoEntry
  BY EternalCache
<1>3. Landed'
  <2> SUFFICES ASSUME NEW c \in Instances, NEW k \in Keys, computes[c][k] # 0
               PROVE  /\ computes[c][k] = 1
                      /\ \/ l1'[c][k] # NoEntry
                         \/ \E h \in Goroutines : Here(h) = c /\ Key(h)' = k /\ Bringing(h)'
    BY <1>1 DEF Landed, Here
  <2>1. computes[c][k] = 1
    BY DEF Landed
  <2>2. CASE l1[c][k] # NoEntry
    BY <1>2, <2>1, <2>2
  <2>3. ASSUME NEW h \in Goroutines, Here(h) = c, Key(h) = k, Bringing(h)
        PROVE  \/ l1'[c][k] # NoEntry
               \/ Here(h) = c /\ Key(h)' = k /\ Bringing(h)'
    <3>1. CASE h = g
      <4>1. pc[g] = "setL1"
        BY <1>1, <2>3, <3>1 DEF Bringing, SFTyped, Coupled
      <4> QED
        BY <1>2, <2>3, <3>1, <4>1
    <3>2. CASE h # g
      BY <1>1, <2>3, <3>2 DEF Bringing
    <3> QED
      BY <3>1, <3>2
  <2> QED
    BY <2>1, <2>2, <2>3 DEF Landed
<1>4. NotYet'
  <2> SUFFICES ASSUME NEW h \in Goroutines,
                      \/ flight[h] \in Ahead
                      \/ flight[h] = "recheck" /\ pc'[h] \notin {"getL1", "hit"}
               PROVE  computes[Here(h)][Key(h)] = 0
    BY <1>1 DEF NotYet, Here
  <2>1. CASE flight[h] \in Ahead \/ h # g \/ pc[g] # "getL1"
    <3>1. flight[h] \in Ahead \/ (flight[h] = "recheck" /\ pc[h] \notin {"getL1", "hit"})
      BY <1>1, <2>1
    <3> QED
      BY <3>1 DEF NotYet
  <2>2. CASE h = g /\ flight[g] = "recheck" /\ pc[g] = "getL1"
    <3>1. GetL1Miss(g)
      <4>1. ~GetL1Hit(g)
        BY <2>2 DEF GetL1Hit, Finish, SFTyped, SFTypeOK, TypeOK, Ahead
      <4> QED
        BY <1>1, <2>2, <4>1 DEF Step, GetStep, GetL2Found, GetL2Absent, GetL2Error, GetClock,
               GetKeep, GetReject, GetPromote, SetL1, SetL2, InvalidateL1, InvalidateL2
    <3>2. l1[Here(g)][Key(g)] = NoEntry
      BY <3>1, EternalServed DEF GetL1Miss
    <3>3. \A f \in Goroutines : Here(f) = Here(g) /\ Key(f) = Key(g) => ~Bringing(f)
      BY <2>2, OwnSlot DEF Bringing, Leading
    <3> QED
      BY <2>2, <3>2, <3>3, JobTyped DEF Landed
  <2> QED
    BY <2>1, <2>2
<1> QED
  BY <1>3, <1>4

(***************************************************************************)
(* What a step outside of the cache does to the way of a value.            *)
(***************************************************************************)
OnTheWay ==
    \A h \in Goroutines :
       /\ flight'[h] \in Ahead =>
              flight[h] \in Ahead \/ (flight[h] = "recheck" /\ pc[h] \in {"miss", "error"})
       /\ Bringing(h) => flight'[h] \in {"check", "write"} /\ Bringing(h)'
       /\ job'[h].ttl = 0
       /\ Eternal(op'[h].ent)

LEMMA WayMove ==
    ASSUME SFTyped, Everlasting, NEW g \in Goroutines,
           \A h \in Goroutines \ {g} : /\ flight'[h] = flight[h] /\ pc'[h] = pc[h]
                                       /\ job'[h] = job[h] /\ op'[h] = op[h],
           flight'[g] \in Ahead =>
              flight[g] \in Ahead \/ (flight[g] = "recheck" /\ pc[g] \in {"miss", "error"}),
           Bringing(g) => flight'[g] \in {"check", "write"} /\ Bringing(g)',
           job'[g].ttl = job[g].ttl \/ job'[g].ttl = 0,
           op'[g].ent = op[g].ent \/ op'[g].ent = NoEntry
    PROVE  OnTheWay
<1>1. ASSUME NEW h \in Goroutines, h # g
      PROVE  /\ flight'[h] = flight[h] /\ (Bringing(h) => Bringing(h)')
             /\ job'[h].ttl = 0 /\ Eternal(op'[h].ent)
  BY <1>1 DEF Everlasting, Bringing
<1>2. job'[g].ttl = 0 /\ Eternal(op'[g].ent)
  BY DEF Everlasting, Eternal
<1>3. ASSUME NEW h \in Goroutines
      PROVE  /\ flight'[h] \in Ahead =>
                    \/ flight[h] \in Ahead
                    \/ flight[h] = "recheck" /\ pc[h] \in {"miss", "error"}
             /\ Bringing(h) => flight'[h] \in {"check", "write"} /\ Bringing(h)'
             /\ job'[h].ttl = 0
             /\ Eternal(op'[h].ent)
  <2>1. CASE h = g
    BY <1>2, <2>1
  <2>2. CASE h # g
    <3>1. Bringing(h) => flight[h] \in {"check", "write"}
      BY DEF Bringing
    <3> QED
      BY <1>1, <2>2, <3>1
  <2> QED
    BY <2>1, <2>2
<1> QED
  BY <1>3 DEF OnTheWay

LEMMA AnswerKeeps ==
    ASSUME SFTyped, NEW g \in Goroutines, NEW v, Answer(g, v)
    PROVE  job'[g].ttl = job[g].ttl /\ \A h \in Goroutines \ {g} : job'[h] = job[h]
<1>1. \A r \in Job : [r EXCEPT !.answer = v].ttl = r.ttl
  BY DEF Job
<1>2. job' = [job EXCEPT ![g] = [job[g] EXCEPT !.answer = v]] /\ job \in [Goroutines -> Job]
  BY DEF Answer, SFTyped, SFTypeOK
<1> QED
  BY <1>1, <1>2

(* An inner call of the guard takes no entry in hand, or the one it writes.*)
LEMMA BeginHolds ==
    ASSUME SFTyped, NEW g \in Goroutines, NEW k, NEW at, NEW e, Begin(g, k, at, e)
    PROVE  /\ op'[g].ent = e /\ pc'[g] = at
           /\ \A h \in Goroutines \ {g} : op'[h] = op[h] /\ pc'[h] = pc[h]
<1>1. op \in [Goroutines -> Call] /\ pc \in [Goroutines -> PCs]
  BY DEF SFTyped, SFTypeOK, TypeOK
<1> QED
  BY <1>1 DEF Begin

LEMMA WaySteps ==
    ASSUME Setters = {}, TTLs \subseteq {0}, SFTyped, Everlasting, NEW g \in Goroutines,
           \/ \E k \in Keys : GetOrCompute(g, k)
           \/ FlightStep(g) \/ ComputePanic(g) \/ PlainCall(g)
    PROVE  OnTheWay
<1> USE DEF Goto, Ahead
<1>0. /\ pc \in [Goroutines -> PCs] /\ flight \in [Goroutines -> Flights]
      /\ job \in [Goroutines -> Job] /\ op \in [Goroutines -> Call]
      /\ \A h \in Goroutines : flight[h] \notin {"out", "fast", "recheck", "poll", "write"} =>
             pc[h] = "idle"
  BY DEF SFTyped, SFTypeOK, TypeOK, Coupled
<1>1. NoJob.ttl = 0 /\ NoCall.ent = NoEntry
  BY DEF NoJob, NoCall
<1>2. ASSUME NEW k \in Keys, NEW at \in {"fast", "recheck", "poll"}, GetBegin(g, k),
             Moves(g, at), job' = job, flight[g] \notin {"check", "write"},
             at \in Ahead => flight[g] \in Ahead
      PROVE  OnTheWay
  <2>1. op'[g].ent = NoEntry /\ \A h \in Goroutines \ {g} : op'[h] = op[h] /\ pc'[h] = pc[h]
    BY <1>2, BeginHolds DEF GetBegin
  <2>2. flight'[g] = at /\ \A h \in Goroutines \ {g} : flight'[h] = flight[h]
    BY <1>0, <1>2 DEF Moves
  <2>3. ~Bringing(g)
    BY <1>2 DEF Bringing
  <2> QED
    BY <1>2, <2>1, <2>2, <2>3, WayMove
<1>3. ASSUME NEW at, Moves(g, at), InnerDone(g),
             job'[g].ttl = job[g].ttl /\ \A h \in Goroutines \ {g} : job'[h] = job[h],
             at \in Ahead =>
                 flight[g] \in Ahead \/ (flight[g] = "recheck" /\ pc[g] \in {"miss", "error"}),
             ~Bringing(g)
      PROVE  OnTheWay
  <2>1. flight'[g] = at /\ \A h \in Goroutines \ {g} : flight'[h] = flight[h]
    BY <1>0, <1>3 DEF Moves
  <2>2. op' = op /\ \A h \in Goroutines \ {g} : pc'[h] = pc[h]
    BY <1>0, <1>3 DEF InnerDone
  <2> QED
    BY <1>3, <2>1, <2>2, WayMove
<1>4. ASSUME NEW at, Moves(g, at), UNCHANGED cacheVars,
             job'[g].ttl \in {job[g].ttl, 0} /\ \A h \in Goroutines \ {g} : job'[h] = job[h],
             at \in Ahead => flight[g] \in Ahead,
             flight[g] = "check" => at \in {"check", "write"} /\ pc[g] = "idle",
             flight[g] # "write"
      PROVE  OnTheWay
  <2>1. flight'[g] = at /\ \A h \in Goroutines \ {g} : flight'[h] = flight[h]
    BY <1>0, <1>4 DEF Moves
  <2>2. op' = op /\ pc' = pc
    BY <1>4 DEF cacheVars
  <2>3. Bringing(g) => flight'[g] \in {"check", "write"} /\ Bringing(g)'
    BY <1>4, <2>1, <2>2 DEF Bringing
  <2> QED
    BY <1>4, <2>1, <2>2, <2>3, WayMove
<1>5. ASSUME NEW k \in Keys, GetOrCompute(g, k) PROVE OnTheWay
  BY <1>2, <1>5 DEF GetOrCompute, Moves
<1>6. CASE Recheck(g) \/ Poll(g)
  BY <1>2, <1>6, JobTyped DEF Recheck, Poll, Moves
<1>7. CASE FastHit(g) \/ FastError(g) \/ RecheckHit(g) \/ PollFound(g)
  <2>1. \E v : Answer(g, v)
    BY <1>7 DEF FastHit, FastError, RecheckHit, PollFound
  <2>2. job'[g].ttl = job[g].ttl /\ \A h \in Goroutines \ {g} : job'[h] = job[h]
    BY <2>1, AnswerKeeps
  <2>3. \E at \in {"answer", "publish"} : Moves(g, at)
    BY <1>7 DEF FastHit, FastError, RecheckHit, PollFound, Moves
  <2>4. InnerDone(g) /\ ~Bringing(g)
    BY <1>7 DEF FastHit, FastError, RecheckHit, PollFound, Bringing
  <2> QED
    BY <1>3, <2>2, <2>3, <2>4
<1>8. CASE FastMiss(g) \/ Register(g) \/ PollAgain(g) \/ PollTimeout(g) \/ WriteBackDone(g)
  <2>1. InnerDone(g) /\ job' = job /\ ~Bringing(g)
    BY <1>8 DEF FastMiss, Register, PollAgain, PollTimeout, WriteBackDone, Bringing
  <2>2. \E at : /\ Moves(g, at)
                /\ at \in Ahead =>
                     flight[g] \in Ahead
                     \/ (flight[g] = "recheck" /\ pc[g] \in {"miss", "error"})
    BY <1>8 DEF FastMiss, Register, PollAgain, PollTimeout, WriteBackDone, Leave, Moves
  <2> QED
    BY <1>3, <2>1, <2>2
<1>9. CASE TryLockOk(g) \/ TryLockBusy(g) \/ Unlock(g) \/ Release(g)
  BY <1>4, <1>9 DEF TryLockOk, TryLockBusy, Unlock, Release, Moves
<1>10. CASE Snapshot(g)
  <2>1. \A r \in Job : \A n : [r EXCEPT !.genBefore = n].ttl = r.ttl
    BY DEF Job
  <2>2. job' = [job EXCEPT ![g] = [job[g] EXCEPT !.genBefore = tombstones[Here(g)][Key(g)]]]
    BY <1>0, <1>10 DEF Snapshot
  <2>3. job'[g].ttl = job[g].ttl /\ \A h \in Goroutines \ {g} : job'[h] = job[h]
    BY <1>0, <2>1, <2>2
  <2> QED
    BY <1>4, <1>10, <2>3 DEF Snapshot, Moves
<1>11. CASE Keep(g)
  BY <1>0, <1>4, <1>11 DEF Keep, Moves
<1>12. ~Discard(g)
  BY JobTyped DEF Discard, SupersededByInvalidate, Everlasting
<1>13. CASE ComputeError(g)
  <2>1. job'[g].ttl = job[g].ttl /\ \A h \in Goroutines \ {g} : job'[h] = job[h]
    BY <1>13, AnswerKeeps DEF ComputeError
  <2>2. \E at \in {"unlock", "publish"} : Moves(g, at)
    BY <1>13 DEF ComputeError, Leave, Moves
  <2> QED
    BY <1>4, <1>13, <2>1, <2>2 DEF ComputeError
<1>14. CASE ComputeOk(g)
  <2>1. PICK ttl \in TTLs :
            job' = [job EXCEPT ![g].answer = epoch[Key(g)] + 1, ![g].ttl = ttl]
    BY <1>14 DEF ComputeOk
  <2>2. \A r \in Job : \A n : [r EXCEPT !.answer = n, !.ttl = ttl].ttl = ttl
    BY DEF Job
  <2>3. job'[g].ttl = 0 /\ \A h \in Goroutines \ {g} : job'[h] = job[h]
    <3>1. job' = [job EXCEPT ![g] =
                     [job[g] EXCEPT !.answer = epoch[Key(g)] + 1, !.ttl = ttl]]
      BY <1>0, <2>1
    <3>2. job'[g].ttl = ttl
      BY <1>0, <2>2, <3>1
    <3> QED
      BY <1>0, <3>1, <3>2
  <2> QED
    BY <1>4, <1>14, <2>3 DEF ComputeOk, Moves
<1>15. CASE Join(g)
  <2>1. job'[g].ttl = job[g].ttl /\ \A h \in Goroutines \ {g} : job'[h] = job[h]
    BY <1>15, AnswerKeeps DEF Join
  <2>2. \E at \in {"answer", "join"} : Moves(g, at)
    BY <1>15 DEF Join, Moves
  <2> QED
    BY <1>4, <1>15, <2>1, <2>2 DEF Join
<1>16. CASE ReturnAnswer(g) \/ ComputePanic(g)
  <2>1. /\ flight' = [flight EXCEPT ![g] = "out"] /\ job' = [job EXCEPT ![g] = NoJob]
        /\ op' = [op EXCEPT ![g] = NoCall] /\ pc' = pc
        /\ flight[g] \in {"answer", "compute"}
    BY <1>16 DEF ReturnAnswer, ComputePanic
  <2>2. /\ flight'[g] = "out" /\ job'[g].ttl = 0 /\ op'[g].ent = NoEntry
        /\ \A h \in Goroutines \ {g} : /\ flight'[h] = flight[h] /\ job'[h] = job[h]
                                       /\ op'[h] = op[h] /\ pc'[h] = pc[h]
    BY <1>0, <1>1, <2>1
  <2>3. ~Bringing(g)
    BY <2>1 DEF Bringing
  <2> QED
    BY <2>2, <2>3, WayMove
<1>17. CASE WriteBack(g)
  <2>1. Begin(g, Key(g), "setL1", NewEntry(job[g].answer, clock, 0)) /\ UNCHANGED sfVars
    BY <1>17 DEF WriteBack, SetBegin, Everlasting
  <2>2. /\ Eternal(op'[g].ent) /\ pc'[g] = "setL1"
        /\ \A h \in Goroutines \ {g} : op'[h] = op[h] /\ pc'[h] = pc[h]
    BY <2>1, BeginHolds, EternalEntry
  <2>3. \A h \in Goroutines : Bringing(h) => flight[h] \in {"check", "write"} /\ Bringing(h)'
    BY <1>17, <2>1, <2>2 DEF Bringing, sfVars, WriteBack
  <2> QED
    BY <2>1, <2>2, <2>3 DEF OnTheWay, Everlasting, sfVars
<1>18. CASE Publish(g)
  <2>1. \A r \in Job : [r EXCEPT !.answer = job[g].answer].ttl = r.ttl
    BY DEF Job
  <2>2. \A h \in Goroutines : job'[h].ttl = job[h].ttl
    BY <1>0, <1>18, <2>1 DEF Publish
  <2>3. UNCHANGED <<op, pc>>
    BY <1>18 DEF Publish, cacheVars
  <2>4. \A h \in Goroutines : \/ flight'[h] = flight[h]
                              \/ /\ flight[h] \in {"publish", "join"}
                                 /\ flight'[h] \in {"release", "answer"}
    BY <1>18 DEF Publish, Waiting
  <2> QED
    BY <2>2, <2>3, <2>4 DEF OnTheWay, Everlasting, Bringing
<1>19. CASE PlainCall(g)
  <2>1. UNCHANGED sfVars /\ flight[g] = "out"
    BY <1>19 DEF PlainCall
  <2>2. /\ op'[g].ent = NoEntry
        /\ \A h \in Goroutines \ {g} : op'[h] = op[h] /\ pc'[h] = pc[h]
    <3>1. CASE Return(g)
      BY <1>0, <1>1, <3>1 DEF Return
    <3>2. CASE \E k \in Keys : Invalidate(g, k)
      BY <3>2, BeginHolds DEF Invalidate, InvalidateBegin
    <3> QED
      BY <1>19, <3>1, <3>2 DEF PlainCall, SetWithTTL
  <2>3. ~Bringing(g) /\ flight'[g] \notin Ahead
    BY <2>1 DEF Bringing, sfVars
  <2> QED
    BY <2>1, <2>2, <2>3, WayMove DEF sfVars
<1> QED
  BY <1>5, <1>6, <1>7, <1>8, <1>9, <1>10, <1>11, <1>12, <1>13, <1>14, <1>15, <1>16, <1>17,
     <1>18, <1>19 DEF FlightStep, GuardStep

LEMMA EternalOuter ==
    ASSUME Setters = {}, Invalidators = {}, Once, OnTheWay, Outer
    PROVE  Everlasting'
<1> USE DEF Once
<1>1. UNCHANGED <<store, l1, tombstones>>
  BY DEF Outer, layers
<1>2. ASSUME NEW h \in Goroutines
      PROVE  /\ Eternal(op'[h].ent) /\ job'[h].ttl = 0
             /\ pc'[h] \notin {"invL1", "invL2"}
             /\ pc'[h] \in {"setL1", "setL2"} => flight'[h] = "write"
  BY DEF OnTheWay, Outer, Begun, Everlasting
<1> QED
  BY <1>1, <1>2 DEF Everlasting, Eternal

(* compute is entered at most once per slot.                               *)
LEMMA OuterOnce ==
    ASSUME Once, SFTyped', [SFNext]_vars, OnTheWay, Outer,
           NEW g \in Goroutines, computes' = computes \/ ComputeOk(g)
    PROVE  NotYet' /\ Landed'
<1> USE DEF Once
<1>1. PICK c \in Instances, k \in Keys : c = Here(g) /\ k = Key(g)
  BY JobTyped
<1>2. ASSUME NEW d \in Instances, NEW j \in Keys
      PROVE  \/ computes'[d][j] = computes[d][j]
             \/ ComputeOk(g) /\ d = c /\ j = k /\ computes'[d][j] = computes[d][j] + 1
  <2>1. CASE computes' = computes
    BY <2>1
  <2>2. CASE ComputeOk(g)
    <3>1. computes' = [computes EXCEPT ![c][k] = @ + 1]
      BY <1>1, <2>2 DEF ComputeOk
    <3>2. computes \in [Instances -> [Keys -> Nat]]
      BY DEF SFTyped, SFTypeOK
    <3> QED
      BY <1>1, <2>2, <3>1, <3>2
  <2> QED
    BY <2>1, <2>2
<1>3. ASSUME ComputeOk(g)
      PROVE  /\ flight[g] = "compute" /\ computes[c][k] = 0
             /\ Key(g)' = Key(g) /\ Bringing(g)'
  <2>1. flight[g] = "compute" /\ flight'[g] = "check"
    BY <1>3 DEF ComputeOk, Goto, SFTyped, SFTypeOK
  <2>2. computes[c][k] = 0
    BY <1>1, <2>1 DEF NotYet, Ahead
  <2> QED
    BY <2>1, <2>2, KeysStay DEF Bringing
<1>4. ASSUME NEW h \in Goroutines, Bringing(h)
      PROVE  Bringing(h)' /\ Key(h)' = Key(h)
  <2>1. flight[h] # "out" /\ flight'[h] # "out"
    BY <1>4 DEF OnTheWay, Bringing
  <2> QED
    BY <1>4, <2>1, KeysStay DEF OnTheWay
<1>5. Landed'
  <2> SUFFICES ASSUME NEW d \in Instances, NEW j \in Keys
               PROVE  \/ computes'[d][j] = 0
                      \/ /\ computes'[d][j] = 1
                         /\ \/ l1'[d][j] # NoEntry
                            \/ \E h \in Goroutines : Here(h) = d /\ Key(h)' = j /\ Bringing(h)'
    BY DEF Landed, Here
  <2>1. CASE computes'[d][j] = computes[d][j]
    <3>1. l1' = l1
      BY DEF Outer, layers
    <3>2. CASE computes[d][j] = 0 \/ l1[d][j] # NoEntry
      BY <2>1, <3>1, <3>2 DEF Landed
    <3>3. CASE computes[d][j] # 0 /\ l1[d][j] = NoEntry
      <4>1. computes[d][j] = 1
        BY <3>3 DEF Landed
      <4>2. PICK h \in Goroutines : Here(h) = d /\ Key(h) = j /\ Bringing(h)
        BY <3>3 DEF Landed
      <4> QED
        BY <1>4, <2>1, <4>1, <4>2
    <3> QED
      BY <3>2, <3>3
  <2>2. CASE ComputeOk(g) /\ d = c /\ j = k /\ computes'[d][j] = computes[d][j] + 1
    BY <1>1, <1>3, <2>2
  <2> QED
    BY <1>2, <2>1, <2>2
<1>6. NotYet'
  <2> SUFFICES ASSUME NEW h \in Goroutines,
                      \/ flight'[h] \in Ahead
                      \/ flight'[h] = "recheck" /\ pc'[h] \notin {"getL1", "hit"}
               PROVE  computes'[Here(h)][Key(h)'] = 0
    BY DEF NotYet, Here
  <2>1. \/ flight[h] \in Ahead
        \/ flight[h] = "recheck" /\ pc[h] \notin {"getL1", "hit"}
    <3>1. CASE flight'[h] \in Ahead
      BY <3>1 DEF OnTheWay
    <3>2. CASE flight'[h] = "recheck" /\ pc'[h] \notin {"getL1", "hit"}
      <4>1. pc'[h] \in InGet
        BY <3>2 DEF SFTyped, Coupled
      <4> QED
        BY <3>2, <4>1 DEF Outer, Begun, InGet
    <3> QED
      BY <3>1, <3>2
  <2>2. Key(h)' = Key(h)
    BY <2>1, KeysStay DEF Ahead
  <2>3. computes[Here(h)][Key(h)] = 0
    BY <2>1 DEF NotYet
  <2>4. CASE ComputeOk(g) /\ Here(h) = c /\ Key(h) = k
    <3>1. h = g
      BY <1>1, <1>3, <2>1, <2>4, OwnSlot DEF Ahead, Leading
    <3>2. flight'[g] = "check"
      BY <2>4 DEF ComputeOk, Goto, SFTyped, SFTypeOK
    <3> QED
      BY <3>1, <3>2 DEF Ahead
  <2>5. CASE ~(ComputeOk(g) /\ Here(h) = c /\ Key(h) = k)
    BY <1>2, <2>2, <2>3, <2>5, JobTyped
  <2> QED
    BY <2>4, <2>5
<1> QED
  BY <1>5, <1>6

LEMMA CrashOnce ==
    ASSUME Once, [SFNext]_vars, NEW c \in Instances, Crash(c)
    PROVE  Everlasting' /\ NotYet' /\ Landed'
<1> USE DEF Once
<1>1. /\ l1' = [l1 EXCEPT ![c] = [k \in Keys |-> NoEntry]]
      /\ tombstones' = [tombstones EXCEPT ![c] = [k \in Keys |-> NoTime]]
      /\ computes' = [computes EXCEPT ![c] = [k \in Keys |-> 0]]
      /\ store' = store
      /\ \A h \in Goroutines :
            IF Here(h) = c
            THEN flight'[h] = "out" /\ pc'[h] = "idle" /\ op'[h] = NoCall /\ job'[h] = NoJob
            ELSE /\ flight'[h] = flight[h] /\ pc'[h] = pc[h]
                 /\ op'[h] = op[h] /\ job'[h] = job[h]
  BY DEF Crash, Here
<1>2. /\ \A d \in Instances \ {c} : /\ l1'[d] = l1[d] /\ tombstones'[d] = tombstones[d]
                                    /\ computes'[d] = computes[d]
      /\ \A k \in Keys : /\ l1'[c][k] = NoEntry /\ tombstones'[c][k] = NoTime
                         /\ computes'[c][k] = 0
  BY <1>1 DEF SFTyped, SFTypeOK, TypeOK
<1>3. Everlasting'
  <2>1. NoJob.ttl = 0 /\ NoCall.ent = NoEntry
    BY DEF NoJob, NoCall
  <2>2. \A d \in Instances, k \in Keys : tombstones'[d][k] = NoTime /\ Eternal(l1'[d][k])
    BY <1>2 DEF Everlasting, Eternal
  <2>3. \A h \in Goroutines :
           /\ Eternal(op'[h].ent) /\ job'[h].ttl = 0 /\ pc'[h] \notin {"invL1", "invL2"}
           /\ pc'[h] \in {"setL1", "setL2"} => flight'[h] = "write"
    BY <1>1, <2>1 DEF Everlasting, Eternal
  <2> QED
    BY <1>1, <2>2, <2>3 DEF Everlasting, Eternal
<1>4. \A h \in Goroutines : Here(h) \in Instances /\ Key(h) \in Keys
  BY JobTyped
<1>5. NotYet'
  <2> SUFFICES ASSUME NEW h \in Goroutines,
                      \/ flight'[h] \in Ahead
                      \/ flight'[h] = "recheck" /\ pc'[h] \notin {"getL1", "hit"}
               PROVE  computes'[Here(h)][Key(h)'] = 0
    BY DEF NotYet, Here
  <2>1. Here(h) # c /\ Key(h)' = Key(h) /\ flight'[h] = flight[h] /\ pc'[h] = pc[h]
    BY <1>1 DEF Ahead, Key
  <2> QED
    BY <1>2, <1>4, <2>1 DEF NotYet
<1>6. Landed'
  <2> SUFFICES ASSUME NEW d \in Instances, NEW j \in Keys, d # c, computes[d][j] # 0
               PROVE  /\ computes[d][j] = 1
                      /\ \/ l1[d][j] # NoEntry
                         \/ \E h \in Goroutines : Here(h) = d /\ Key(h)' = j /\ Bringing(h)'
    BY <1>2 DEF Landed, Here
  <2>1. \A h \in Goroutines : Here(h) = d => (Bringing(h)' <=> Bringing(h)) /\ Key(h)' = Key(h)
    BY <1>1 DEF Bringing, Key
  <2> QED
    BY <2>1 DEF Landed
<1> QED
  BY <1>3, <1>5, <1>6

LEMMA RestOnce ==
    ASSUME Once, UNCHANGED <<store, pc, op, l1, tombstones, sfVars>>
    PROVE  Everlasting' /\ NotYet' /\ Landed'
<1>1. Everlasting'
  BY DEF Once, Everlasting, Eternal, sfVars
<1>2. NotYet' /\ Landed'
  BY DEF Once, NotYet, Landed, Bringing, Here, Key, sfVars
<1> QED
  BY <1>1, <1>2

LEMMA OnceStep ==
    ASSUME Setters = {}, Invalidators = {}, TTLs \subseteq {0}, Once, [SFNext]_vars
    PROVE  Once'
<1>1. SFTyped' /\ Registered' /\ Rechecking'
  BY SFStepTyped, SFStepRegistry DEF Once
<1>2. ASSUME NEW g \in Goroutines, CacheStep(g) PROVE Everlasting' /\ NotYet' /\ Landed'
  BY <1>2, EternalCache, CacheOnce
<1>3. ASSUME NEW g \in Goroutines,
             \/ \E k \in Keys : GetOrCompute(g, k)
             \/ FlightStep(g) \/ ComputePanic(g) \/ PlainCall(g)
      PROVE  Everlasting' /\ NotYet' /\ Landed'
  <2>1. Outer /\ OnTheWay
    BY <1>3, OuterSteps, WaySteps DEF Once
  <2>2. computes' = computes \/ ComputeOk(g)
    BY <1>3 DEF FlightStep, GuardStep, GetOrCompute, FastHit, FastError, FastMiss, Join,
           Recheck, RecheckHit, Register, TryLockOk, TryLockBusy, Poll, PollFound, PollAgain,
           PollTimeout, Snapshot, Discard, Keep, WriteBack, WriteBackDone, Unlock, Publish,
           Release, ComputeError, ReturnAnswer, ComputePanic, PlainCall, sfVars
  <2> QED
    BY <1>1, <2>1, <2>2, EternalOuter, OuterOnce
<1>4. ASSUME NEW c \in Instances, Crash(c) PROVE Everlasting' /\ NotYet' /\ Landed'
  BY <1>4, CrashOnce
<1>5. (Tick /\ UNCHANGED sfVars) \/ UNCHANGED vars
         => UNCHANGED <<store, pc, op, l1, tombstones, sfVars>>
  BY DEF Tick, vars, cacheVars, layers, sfVars
<1>6. UNCHANGED <<store, pc, op, l1, tombstones, sfVars>> => Everlasting' /\ NotYet' /\ Landed'
  BY RestOnce
<1>7. Everlasting' /\ NotYet' /\ Landed'
  BY <1>2, <1>3, <1>4, <1>5, <1>6 DEF SFNext
<1>8. SFTyped' /\ Registered' /\ Rechecking'
  BY <1>1
<1> QED
  BY <1>7, <1>8 DEF Once

LEMMA OnceInit ==
    ASSUME TTLs \subseteq {0}
    PROVE  SFInit => Once
<1> SUFFICES ASSUME SFInit PROVE Once
  OBVIOUS
<1>1. \A k \in Keys : Eternal(store[k])
  <2>1. \A ttl \in TTLs : Eternal(NewEntry(0, 1, ttl))
    BY EternalEntry
  <2>2. Eternal(NoEntry)
    BY DEF Eternal
  <2> QED
    BY <2>1, <2>2 DEF SFInit, Init
<1>2. Everlasting
  BY <1>1 DEF SFInit, Init, Everlasting, NoCall, NoJob, Eternal
<1>3. NotYet /\ Landed
  BY DEF SFInit, Init, NotYet, Landed, Ahead
<1> QED
  BY <1>2, <1>3, InitSFTyped, RegistryInit DEF Once

(***************************************************************************)
(* As long as nothing is invalidated, GetOrCompute is the only writer and  *)
(* values do not expire, each process computes a key at most once between  *)
(* its start and its death, for any number of callers, with or without a   *)
(* store and a lock, and through every error, timeout and panic: the       *)
(* cross-process lock and the wait of its losers never add a computation   *)
(* (singleflight.go 80-107, 160-163).                                      *)
(***************************************************************************)
THEOREM ComputedOnce ==
    ASSUME Setters = {}, Invalidators = {}, TTLs \subseteq {0}
    PROVE  SFSpec => []ComputedOncePerProcess
<1>1. Once => ComputedOncePerProcess
  BY DEF Once, Landed, ComputedOncePerProcess
<1>2. SFInit => Once
  BY OnceInit
<1>3. Once /\ [SFNext]_vars => Once'
  BY OnceStep
<1> QED
  BY <1>1, <1>2, <1>3, PTL DEF SFSpec

-----------------------------------------------------------------------------
(***************************************************************************)
(* An invalidation during compute is noticed.  The clock is read before    *)
(* the lock is taken, so that of two overlapping invalidations the older   *)
(* may land last and turn a tombstone back: each process has one goroutine *)
(* that invalidates here.  Then tombstones only rise, but for the Set of a *)
(* write-back, whose goroutine owns the slot of the key.                   *)
(***************************************************************************)
Sampling == {"compute", "check"}

AfterSnap == {"compute", "check", "write", "unlock", "publish", "release", "answer"}

Marking ==
    \A g \in Goroutines : pc[g] = "invL1" =>
        /\ g \in Invalidators
        /\ op[g].now > NoTime /\ op[g].now <= clock
        /\ \A k \in Keys : tombstones[Here(g)][k] <= op[g].now

TombstonesPast == \A c \in Instances, k \in Keys : tombstones[c][k] <= clock

OwnWrites == \A g \in Goroutines : pc[g] = "setL1" => flight[g] = "write"

Noticed ==
    \A g \in Goroutines :
        /\ job[g].overtaken => flight[g] \in AfterSnap
        /\ flight[g] \in Sampling => job[g].genBefore <= tombstones[Here(g)][Key(g)]
        /\ flight[g] \in Sampling /\ job[g].overtaken => tombstones[Here(g)][Key(g)] # NoTime

Watched ==
    SFTyped /\ Registered /\ Rechecking /\ Marking /\ TombstonesPast /\ OwnWrites /\ Noticed

(* What a step outside of the cache does to the locals of a computation.   *)
Noted(h) ==
    /\ job'[h].overtaken => job[h].overtaken /\ flight'[h] \in AfterSnap
    /\ flight'[h] \in Sampling =>
          \/ flight[h] \in Sampling /\ job'[h].genBefore = job[h].genBefore
          \/ flight[h] = "snap" /\ job'[h].genBefore = tombstones[Here(h)][Key(h)]

LEMMA JobFields ==
    ASSUME NEW r \in Job, NEW v
    PROVE  /\ [r EXCEPT !.answer = v].overtaken = r.overtaken
           /\ [r EXCEPT !.answer = v].genBefore = r.genBefore
           /\ [r EXCEPT !.genBefore = v].overtaken = r.overtaken
           /\ [r EXCEPT !.genBefore = v].genBefore = v
           /\ [r EXCEPT !.overtaken = TRUE].overtaken
           /\ [r EXCEPT !.overtaken = TRUE].genBefore = r.genBefore
           /\ NoJob.overtaken = FALSE
  BY DEF Job, NoJob

LEMMA NotedMove ==
    ASSUME SFTyped, Noticed, NEW g \in Goroutines,
           NEW at, Moves(g, at), NEW j, Employs(g, j),
           j.overtaken = job[g].overtaken, j.genBefore = job[g].genBefore,
           flight[g] \in AfterSnap => at \in AfterSnap,
           at \in Sampling => flight[g] \in Sampling
    PROVE  \A h \in Goroutines : Noted(h)
<1>1. flight \in [Goroutines -> Flights] /\ job \in [Goroutines -> Job]
  BY DEF SFTyped, SFTypeOK
<1>2. /\ flight'[g] = at /\ job'[g] = j
      /\ \A h \in Goroutines \ {g} : flight'[h] = flight[h] /\ job'[h] = job[h]
  BY <1>1 DEF Moves, Employs
<1> QED
  BY <1>2 DEF Noted, Noticed

LEMMA FlightNotes ==
    ASSUME SFTyped, Noticed, NEW g \in Goroutines,
           \/ \E k \in Keys : GetOrCompute(g, k)
           \/ FlightStep(g) \/ ComputePanic(g) \/ PlainCall(g)
    PROVE  \A h \in Goroutines : Noted(h)
<1> USE DEF Goto
<1>0. /\ flight \in [Goroutines -> Flights] /\ job \in [Goroutines -> Job]
      /\ \A h \in Goroutines : job[h] \in Job
  BY DEF SFTyped, SFTypeOK
<1>1. job' = job => Employs(g, job[g])
  BY JobTyped
<1>2. ASSUME NEW v, Answer(g, v)
      PROVE  \E j : Employs(g, j) /\ j.overtaken = job[g].overtaken
                    /\ j.genBefore = job[g].genBefore
  <2>1. Employs(g, [job[g] EXCEPT !.answer = v])
    BY <1>2, Zenon DEF Answer, Employs
  <2>2. /\ [job[g] EXCEPT !.answer = v].overtaken = job[g].overtaken
        /\ [job[g] EXCEPT !.answer = v].genBefore = job[g].genBefore
    BY <1>0, JobFields
  <2> QED
    BY <2>1, <2>2, Zenon
<1>3. CASE FastHit(g) \/ FastError(g) \/ RecheckHit(g) \/ PollFound(g) \/ ComputeError(g)
  <2>1. \E v : Answer(g, v)
    BY <1>3 DEF FastHit, FastError, RecheckHit, PollFound, ComputeError
  <2>2. PICK j : Employs(g, j) /\ j.overtaken = job[g].overtaken /\ j.genBefore = job[g].genBefore
    BY <1>2, <2>1
  <2>3. PICK at \in {"answer", "unlock", "publish"} : Moves(g, at)
    BY <1>3 DEF FastHit, FastError, RecheckHit, PollFound, ComputeError, Leave, Moves
  <2>4. at \in AfterSnap /\ at \notin Sampling
    BY <2>3 DEF AfterSnap, Sampling
  <2> QED
    BY <2>2, <2>3, <2>4, NotedMove
<1>4. CASE Join(g)
  <2>1. PICK at \in {"answer", "join"} : Moves(g, at)
    BY <1>4 DEF Join, Moves
  <2>2. flight[g] \notin AfterSnap /\ at \notin Sampling
    BY <1>4, <2>1 DEF Join, AfterSnap, Sampling
  <2>3. PICK j : Employs(g, j) /\ j.overtaken = job[g].overtaken /\ j.genBefore = job[g].genBefore
    BY <1>1, <1>2, <1>4 DEF Join
  <2> QED
    BY <2>1, <2>2, <2>3, NotedMove
<1>5. CASE \/ \E k \in Keys : GetOrCompute(g, k)
           \/ FastMiss(g) \/ Recheck(g) \/ Register(g) \/ TryLockOk(g) \/ TryLockBusy(g)
           \/ Poll(g) \/ PollAgain(g) \/ PollTimeout(g)
  <2>1. PICK at \in {"fast", "lock", "recheck", "guard", "snap", "sleep", "poll"} : Moves(g, at)
    BY <1>5 DEF GetOrCompute, FastMiss, Recheck, Register, TryLockOk, TryLockBusy, Poll,
                PollAgain, PollTimeout, Moves
  <2>2. job' = job /\ flight[g] \notin AfterSnap
    BY <1>5 DEF GetOrCompute, FastMiss, Recheck, Register, TryLockOk, TryLockBusy, Poll,
                PollAgain, PollTimeout, AfterSnap
  <2>3. at \notin Sampling
    BY <2>1 DEF Sampling
  <2> QED
    BY <1>1, <2>1, <2>2, <2>3, NotedMove
<1>6. CASE Snapshot(g)
  <2>1. job' = [job EXCEPT ![g] = [job[g] EXCEPT !.genBefore = tombstones[Here(g)][Key(g)]]]
    BY <1>6, Zenon DEF Snapshot
  <2>2. /\ job'[g].overtaken = job[g].overtaken
        /\ job'[g].genBefore = tombstones[Here(g)][Key(g)]
        /\ \A h \in Goroutines \ {g} : flight'[h] = flight[h] /\ job'[h] = job[h]
        /\ flight[g] = "snap" /\ flight'[g] = "compute"
    BY <1>0, <1>6, <2>1, JobFields DEF Snapshot
  <2> QED
    BY <2>2 DEF Noted, Noticed, AfterSnap
<1>7. CASE ComputeOk(g)
  <2>1. PICK v, t : job' = [job EXCEPT ![g].answer = v, ![g].ttl = t]
    BY <1>7 DEF ComputeOk
  <2>2. \A r \in Job : /\ [r EXCEPT !.answer = v, !.ttl = t].overtaken = r.overtaken
                       /\ [r EXCEPT !.answer = v, !.ttl = t].genBefore = r.genBefore
    BY DEF Job
  <2>3. Employs(g, [job[g] EXCEPT !.answer = v, !.ttl = t])
    BY <1>0, <2>1 DEF Employs
  <2>4. Moves(g, "check") /\ flight[g] \in Sampling /\ "check" \in AfterSnap
    BY <1>7 DEF ComputeOk, Moves, Sampling, AfterSnap
  <2> QED
    BY <1>0, <2>2, <2>3, <2>4, NotedMove
<1>8. CASE Discard(g) \/ Keep(g) \/ WriteBackDone(g) \/ Unlock(g) \/ Release(g)
  <2>1. PICK at \in {"write", "unlock", "publish", "answer"} : Moves(g, at)
    BY <1>8 DEF Discard, Keep, WriteBackDone, Unlock, Release, Leave, Moves
  <2>2. job' = job /\ at \in AfterSnap /\ at \notin Sampling
    BY <1>8, <2>1 DEF Discard, Keep, WriteBackDone, Unlock, Release, AfterSnap, Sampling
  <2> QED
    BY <1>1, <2>1, <2>2, NotedMove
<1>9. CASE Publish(g)
  <2>1. \A h \in Goroutines : job'[h].overtaken = job[h].overtaken
                              /\ job'[h].genBefore = job[h].genBefore
    BY <1>0, <1>9, JobFields DEF Publish
  <2>2. \A h \in Goroutines : \/ flight'[h] = flight[h]
                              \/ flight'[h] \in {"release", "answer"}
    BY <1>9 DEF Publish, Waiting
  <2> QED
    BY <2>1, <2>2 DEF Noted, Noticed, AfterSnap, Sampling
<1>10. CASE ReturnAnswer(g) \/ ComputePanic(g)
  <2>1. /\ job'[g] = NoJob /\ flight'[g] = "out"
        /\ \A h \in Goroutines \ {g} : flight'[h] = flight[h] /\ job'[h] = job[h]
    BY <1>0, <1>10 DEF ReturnAnswer, ComputePanic
  <2> QED
    BY <1>0, <2>1, JobFields DEF Noted, Noticed, Sampling
<1>11. CASE WriteBack(g) \/ PlainCall(g)
  BY <1>11 DEF WriteBack, PlainCall, sfVars, Noted, Noticed
<1> QED
  BY <1>3, <1>4, <1>5, <1>6, <1>7, <1>8, <1>9, <1>10, <1>11 DEF FlightStep, GuardStep

(* Only Invalidate and its clock make a goroutine one that marks.          *)
LEMMA OuterMarks ==
    ASSUME SFTyped, NEW g \in Goroutines,
           \/ \E k \in Keys : GetOrCompute(g, k)
           \/ FlightStep(g) \/ ComputePanic(g) \/ PlainCall(g)
    PROVE  \A h \in Goroutines : pc'[h] = "invL1" =>
              \/ pc[h] = "invL1" /\ op'[h] = op[h]
              \/ h \in Invalidators /\ op'[h].now = clock
<1>0. /\ pc \in [Goroutines -> PCs] /\ op \in [Goroutines -> Call]
      /\ flight[g] # "out" => pc[g] # "invL1"
  BY DEF SFTyped, SFTypeOK, TypeOK, Coupled, InGet, InSet
<1>1. ASSUME NEW at, at # "invL1", pc' = [pc EXCEPT ![g] = at],
             op' = op \/ \E e : op' = [op EXCEPT ![g] = e]
      PROVE  \A h \in Goroutines : pc'[h] = "invL1" => pc[h] = "invL1" /\ op'[h] = op[h]
  BY <1>0, <1>1
<1>2. ASSUME UNCHANGED <<pc, op>>
      PROVE  \A h \in Goroutines : pc'[h] = "invL1" => pc[h] = "invL1" /\ op'[h] = op[h]
  BY <1>2
<1>3. CASE \/ \E k \in Keys : GetOrCompute(g, k)
           \/ Recheck(g) \/ Poll(g) \/ WriteBack(g)
  <2>1. \E k, e : Begin(g, k, "getL1", e) \/ Begin(g, k, "setL1", e)
    BY <1>3 DEF GetOrCompute, Recheck, Poll, WriteBack, GetBegin, SetBegin
  <2> QED
    BY <1>1, <2>1 DEF Begin
<1>4. CASE \/ FastHit(g) \/ FastError(g) \/ FastMiss(g) \/ RecheckHit(g) \/ Register(g)
           \/ PollFound(g) \/ PollAgain(g) \/ PollTimeout(g) \/ WriteBackDone(g)
  <2>1. InnerDone(g)
    BY <1>4 DEF FastHit, FastError, FastMiss, RecheckHit, Register, PollFound, PollAgain,
                PollTimeout, WriteBackDone
  <2> QED
    BY <1>1, <2>1 DEF InnerDone
<1>5. CASE \/ Join(g) \/ TryLockOk(g) \/ TryLockBusy(g) \/ Snapshot(g) \/ Discard(g) \/ Keep(g)
           \/ Unlock(g) \/ Publish(g) \/ Release(g) \/ ComputeOk(g) \/ ComputeError(g)
  <2>1. UNCHANGED cacheVars
    BY <1>5 DEF Join, TryLockOk, TryLockBusy, Snapshot, Discard, Keep, Unlock, Publish,
                Release, ComputeOk, ComputeError
  <2> QED
    BY <1>2, <2>1 DEF cacheVars
<1>6. CASE ReturnAnswer(g) \/ ComputePanic(g)
  <2>1. pc' = pc /\ op' = [op EXCEPT ![g] = NoCall] /\ pc[g] # "invL1"
    BY <1>0, <1>6 DEF ReturnAnswer, ComputePanic
  <2> QED
    BY <1>0, <2>1
<1>7. CASE PlainCall(g)
  <2>1. CASE Return(g) \/ \E k \in Keys, ttl \in TTLs : SetWithTTL(g, k, ttl)
    <3>1. \E at, e : at # "invL1" /\ pc' = [pc EXCEPT ![g] = at] /\ op' = [op EXCEPT ![g] = e]
      BY <2>1 DEF Return, SetWithTTL, SetBegin, Begin
    <3> QED
      BY <1>1, <3>1
  <2>2. ASSUME NEW k \in Keys, Invalidate(g, k)
        PROVE  \A h \in Goroutines : pc'[h] = "invL1" =>
                  \/ pc[h] = "invL1" /\ op'[h] = op[h]
                  \/ h \in Invalidators /\ op'[h].now = clock
    <3>1. g \in Invalidators /\ Begin(g, k, "invL1", NoEntry)
      BY <2>2 DEF Invalidate, InvalidateBegin
    <3>2. op'[g].now = clock /\ \A h \in Goroutines \ {g} : op'[h] = op[h] /\ pc'[h] = pc[h]
      BY <1>0, <3>1 DEF Begin
    <3> QED
      BY <3>1, <3>2
  <2> QED
    BY <1>7, <2>1, <2>2 DEF PlainCall
<1> QED
  BY <1>3, <1>4, <1>5, <1>6, <1>7 DEF FlightStep, GuardStep

LEMMA OuterWatched ==
    ASSUME Setters = {}, Watched, [SFNext]_vars, NEW g \in Goroutines,
           \/ \E k \in Keys : GetOrCompute(g, k)
           \/ FlightStep(g) \/ ComputePanic(g) \/ PlainCall(g)
    PROVE  Marking' /\ TombstonesPast' /\ OwnWrites' /\ Noticed'
<1> USE DEF Watched
<1>0. /\ clock \in Time /\ clock \in Nat /\ clock > NoTime
      /\ \A c \in Instances, k \in Keys : tombstones[c][k] \in Nat
      /\ \A h \in Goroutines : Here(h) \in Instances /\ Key(h) \in Keys
  BY JobTyped DEF SFTyped, SFTypeOK, TypeOK, Time, NoTime
<1>1. Outer /\ UNCHANGED <<clock, tombstones>>
  BY OuterSteps DEF Outer, layers
<1>2. \A h \in Goroutines : Noted(h)
  BY FlightNotes
<1>3. \A h \in Goroutines : pc'[h] = "invL1" =>
              \/ pc[h] = "invL1" /\ op'[h] = op[h]
              \/ h \in Invalidators /\ op'[h].now = clock
  BY OuterMarks
<1>4. TombstonesPast'
  BY <1>1 DEF TombstonesPast
<1>5. Marking'
  <2> SUFFICES ASSUME NEW h \in Goroutines, pc'[h] = "invL1"
               PROVE  /\ h \in Invalidators
                      /\ op'[h].now > NoTime /\ op'[h].now <= clock'
                      /\ \A k \in Keys : tombstones'[Here(h)][k] <= op'[h].now
    BY DEF Marking, Here
  <2>1. CASE pc[h] = "invL1" /\ op'[h] = op[h]
    BY <1>1, <2>1 DEF Marking
  <2>2. CASE h \in Invalidators /\ op'[h].now = clock
    BY <1>0, <1>1, <2>2 DEF TombstonesPast
  <2> QED
    BY <1>3, <2>1, <2>2
<1>6. OwnWrites'
  <2> SUFFICES ASSUME NEW h \in Goroutines, pc'[h] = "setL1" PROVE flight'[h] = "write"
    BY DEF OwnWrites
  <2> QED
    BY <1>1 DEF Outer, OwnWrites
<1>7. Noticed'
  <2> SUFFICES ASSUME NEW h \in Goroutines
               PROVE  /\ job'[h].overtaken => flight'[h] \in AfterSnap
                      /\ flight'[h] \in Sampling =>
                             job'[h].genBefore <= tombstones'[Here(h)][Key(h)']
                      /\ flight'[h] \in Sampling /\ job'[h].overtaken =>
                             tombstones'[Here(h)][Key(h)'] # NoTime
    BY DEF Noticed, Here
  <2>1. flight'[h] \in Sampling => Key(h)' = Key(h)
    <3>1. flight'[h] \in Sampling => flight[h] # "out" /\ flight'[h] # "out"
      BY <1>2 DEF Noted, Sampling
    <3> QED
      BY <3>1, KeysStay
  <2>2. flight'[h] \in Sampling => job'[h].genBefore <= tombstones'[Here(h)][Key(h)']
    BY <1>0, <1>1, <1>2, <2>1 DEF Noted, Noticed
  <2>3. job'[h].overtaken => flight'[h] \in AfterSnap
    BY <1>2 DEF Noted
  <2>4. ASSUME flight'[h] \in Sampling, job'[h].overtaken
        PROVE  tombstones'[Here(h)][Key(h)'] # NoTime
    <3>1. job[h].overtaken /\ flight[h] # "snap"
      BY <1>2, <2>4 DEF Noted, Noticed, AfterSnap
    <3>2. flight[h] \in Sampling
      BY <1>2, <2>4, <3>1 DEF Noted
    <3> QED
      BY <1>1, <2>1, <2>4, <3>1, <3>2 DEF Noticed
  <2> QED
    BY <2>2, <2>3, <2>4
<1> QED
  BY <1>4, <1>5, <1>6, <1>7

LEMMA StepSettles ==
    ASSUME SFTyped, NEW g \in Goroutines, Step(g)
    PROVE  /\ clock' = clock /\ pc'[g] \notin {"invL1", "setL1"}
           /\ \A h \in Goroutines \ {g} : op'[h] = op[h] /\ pc'[h] = pc[h]
           /\ pc[g] \notin {"invL1", "setL1"} => tombstones' = tombstones
           /\ pc[g] = "setL1" => SetL1(g)
           /\ pc[g] = "invL1" => InvalidateL1(g)
<1>1. pc \in [Goroutines -> PCs] /\ op \in [Goroutines -> Call]
  BY DEF SFTyped, SFTypeOK, TypeOK
<1>2. CASE GetL1Hit(g) \/ GetL1Miss(g) \/ GetL2Found(g) \/ GetL2Absent(g) \/ GetL2Error(g)
  BY <1>1, <1>2 DEF GetL1Hit, GetL1Miss, GetL2Found, GetL2Absent, GetL2Error, Finish, layers
<1>3. CASE GetClock(g) \/ GetKeep(g) \/ GetReject(g) \/ GetPromote(g)
  BY <1>1, <1>3 DEF GetClock, GetKeep, GetReject, GetPromote, Finish, layers
<1>4. CASE SetL1(g) \/ SetL2(g)
  BY <1>1, <1>4 DEF SetL1, SetL2, Finish, layers
<1>5. CASE InvalidateL1(g) \/ InvalidateL2(g)
  BY <1>1, <1>5 DEF InvalidateL1, InvalidateL2, Finish, layers
<1> QED
  BY <1>2, <1>3, <1>4, <1>5 DEF Step, GetStep

(* Where a step of the cache leaves the tombstones of a slot.              *)
LEMMA StepTombs ==
    ASSUME TombstoneTTL = 0, Watched, NEW g \in Goroutines, Step(g),
           NEW d \in Instances, NEW j \in Keys
    PROVE  \/ tombstones'[d][j] = tombstones[d][j] /\ (d # Here(g) \/ j # Key(g) \/ pc[g] # "invL1")
           \/ pc[g] = "setL1" /\ d = Here(g) /\ j = Key(g) /\ tombstones'[d][j] = NoTime
           \/ pc[g] = "invL1" /\ d = Here(g) /\ j = Key(g) /\ tombstones'[d][j] = op[g].now
<1> USE DEF Watched
<1>0. PICK c \in Instances, k \in Keys : c = Here(g) /\ k = Key(g)
  BY JobTyped
<1>1. tombstones \in [Instances -> [Keys -> Nat]]
  BY DEF SFTyped, SFTypeOK, TypeOK
<1>2. CASE pc[g] = "setL1"
  <2>1. tombstones' = [tombstones EXCEPT ![c][k] = NoTime]
    BY <1>0, <1>2, StepSettles DEF SetL1, Key
  <2> QED
    BY <1>0, <1>1, <1>2, <2>1
<1>3. CASE pc[g] = "invL1"
  <2>1. ~PruneDue(c, op[g].now)
    BY DEF PruneDue
  <2>2. tombstones' = [tombstones EXCEPT
            ![c] = [i \in Keys |-> [tombstones[c] EXCEPT ![k] = op[g].now][i]]]
    BY <1>0, <1>3, <2>1, StepSettles DEF InvalidateL1, Key
  <2>3. tombstones'[d] = IF d = c THEN [i \in Keys |-> [tombstones[c] EXCEPT ![k] = op[g].now][i]]
                         ELSE tombstones[d]
    BY <1>1, <2>2
  <2>4. [tombstones[c] EXCEPT ![k] = op[g].now][j] =
            IF j = k THEN op[g].now ELSE tombstones[c][j]
    BY <1>0, <1>1
  <2> QED
    BY <1>0, <1>3, <2>3, <2>4
<1>4. CASE pc[g] \notin {"setL1", "invL1"}
  BY <1>4, StepSettles
<1> QED
  BY <1>2, <1>3, <1>4

LEMMA CacheWatched ==
    ASSUME TombstoneTTL = 0, OneInvalidator, Watched, NEW g \in Goroutines, CacheStep(g)
    PROVE  Marking' /\ TombstonesPast' /\ OwnWrites' /\ Noticed'
<1> USE DEF Watched
<1>0. /\ clock \in Nat /\ clock' = clock /\ flight' = flight
      /\ \A c \in Instances, k \in Keys : tombstones[c][k] \in Nat
      /\ \A h \in Goroutines : /\ Here(h) \in Instances /\ Key(h) \in Keys
                               /\ job[h] \in Job /\ op[h] \in Call /\ Key(h)' = Key(h)
  BY StepSettles, StepKeepsKey, JobTyped
  DEF CacheStep, SFTyped, SFTypeOK, TypeOK, Time
<1>1. \A d \in Instances, j \in Keys :
         \/ tombstones'[d][j] = tombstones[d][j] /\ (d # Here(g) \/ j # Key(g) \/ pc[g] # "invL1")
         \/ pc[g] = "setL1" /\ d = Here(g) /\ j = Key(g) /\ tombstones'[d][j] = NoTime
         \/ pc[g] = "invL1" /\ d = Here(g) /\ j = Key(g) /\ tombstones'[d][j] = op[g].now
  BY StepTombs DEF CacheStep
<1>2. /\ pc'[g] \notin {"invL1", "setL1"}
      /\ \A h \in Goroutines \ {g} : op'[h] = op[h] /\ pc'[h] = pc[h]
  BY StepSettles DEF CacheStep
<1>3. pc[g] = "invL1" => /\ g \in Invalidators /\ op[g].now > NoTime /\ op[g].now <= clock
                         /\ \A k \in Keys : tombstones[Here(g)][k] <= op[g].now
  BY DEF Marking
<1>4. TombstonesPast'
  BY <1>0, <1>1, <1>3 DEF TombstonesPast, NoTime
<1>5. Marking'
  <2> SUFFICES ASSUME NEW h \in Goroutines, pc'[h] = "invL1"
               PROVE  /\ h \in Invalidators
                      /\ op'[h].now > NoTime /\ op'[h].now <= clock'
                      /\ \A k \in Keys : tombstones'[Here(h)][k] <= op'[h].now
    BY DEF Marking, Here
  <2>1. h # g /\ pc[h] = "invL1" /\ op'[h] = op[h]
    BY <1>2
  <2>2. /\ h \in Invalidators /\ op[h].now > NoTime /\ op[h].now <= clock
        /\ \A k \in Keys : tombstones[Here(h)][k] <= op[h].now
    BY <2>1 DEF Marking
  <2>3. pc[g] = "invL1" => Here(g) # Here(h)
    BY <1>3, <2>1, <2>2 DEF OneInvalidator
  <2>4. ASSUME NEW k \in Keys PROVE tombstones'[Here(h)][k] <= op[h].now
    <3>1. op[h].now \in Nat /\ Here(h) \in Instances
      BY <1>0 DEF Call
    <3>2. tombstones'[Here(h)][k] = tombstones[Here(h)][k] \/ tombstones'[Here(h)][k] = NoTime
      BY <1>1, <2>3, <3>1
    <3> QED
      BY <2>2, <3>1, <3>2 DEF NoTime
  <2> QED
    BY <1>0, <2>1, <2>2, <2>4
<1>6. OwnWrites'
  BY <1>0, <1>2 DEF OwnWrites
<1>7. \A h \in Goroutines : /\ job'[h].genBefore = job[h].genBefore
                            /\ job'[h].overtaken => job[h].overtaken \/ h \in Overtakes(g)
  <2> TAKE h \in Goroutines
  <2>1. job'[h] = IF h \in Overtakes(g) THEN [job[h] EXCEPT !.overtaken = TRUE] ELSE job[h]
    BY DEF CacheStep
  <2> QED
    BY <1>0, <2>1, JobFields
<1>8. Noticed'
  <2> SUFFICES ASSUME NEW h \in Goroutines
               PROVE  /\ job'[h].overtaken => flight'[h] \in AfterSnap
                      /\ flight'[h] \in Sampling =>
                             job'[h].genBefore <= tombstones'[Here(h)][Key(h)']
                      /\ flight'[h] \in Sampling /\ job'[h].overtaken =>
                             tombstones'[Here(h)][Key(h)'] # NoTime
    BY DEF Noticed, Here
  <2>1. job'[h].overtaken => flight'[h] \in AfterSnap
    BY <1>0, <1>7 DEF Noticed, Overtakes, AfterSnap
  <2>2. ASSUME flight[h] \in Sampling
        PROVE  ~(pc[g] = "setL1" /\ Here(h) = Here(g) /\ Key(h) = Key(g))
    <3> SUFFICES ASSUME pc[g] = "setL1", Here(h) = Here(g), Key(h) = Key(g) PROVE FALSE
      OBVIOUS
    <3>1. flight[g] = "write" /\ flight[h] \in Leading /\ flight[g] \in Leading
      BY <2>2 DEF OwnWrites, Sampling, Leading
    <3>2. h = g
      BY <3>1 DEF Registered
    <3> QED
      BY <2>2, <3>1, <3>2 DEF Sampling
  <2>3. ASSUME flight[h] \in Sampling
        PROVE  /\ job[h].genBefore <= tombstones'[Here(h)][Key(h)]
               /\ job'[h].overtaken => tombstones'[Here(h)][Key(h)] # NoTime
    <3>0. /\ job[h].genBefore <= tombstones[Here(h)][Key(h)] /\ job[h].genBefore \in Nat
          /\ job[h].overtaken => tombstones[Here(h)][Key(h)] # NoTime
      BY <1>0, <2>3 DEF Noticed, Job
    <3>1. CASE pc[g] = "invL1" /\ Here(h) = Here(g) /\ Key(h) = Key(g)
      <4>1. tombstones'[Here(h)][Key(h)] = op[g].now
        BY <1>0, <1>1, <3>1
      <4>2. op[g].now \in Nat /\ tombstones[Here(h)][Key(h)] \in Nat
        BY <1>0 DEF Call
      <4> QED
        BY <1>0, <1>3, <3>0, <3>1, <4>1, <4>2 DEF NoTime
    <3>2. CASE ~(pc[g] = "invL1" /\ Here(h) = Here(g) /\ Key(h) = Key(g))
      <4>1. h \notin Overtakes(g)
        BY <3>2 DEF Overtakes
      <4>2. tombstones'[Here(h)][Key(h)] = tombstones[Here(h)][Key(h)]
        BY <1>0, <1>1, <2>2, <2>3, <3>2
      <4> QED
        BY <1>7, <3>0, <4>1, <4>2
    <3> QED
      BY <3>1, <3>2
  <2> QED
    BY <1>0, <1>7, <2>1, <2>3
<1> QED
  BY <1>4, <1>5, <1>6, <1>8

LEMMA CrashWatched ==
    ASSUME Watched, NEW c \in Instances, Crash(c)
    PROVE  Marking' /\ TombstonesPast' /\ OwnWrites' /\ Noticed'
<1> USE DEF Watched
<1>1. /\ tombstones' = [tombstones EXCEPT ![c] = [k \in Keys |-> NoTime]] /\ clock' = clock
      /\ \A h \in Goroutines :
            IF Here(h) = c
            THEN flight'[h] = "out" /\ pc'[h] = "idle" /\ job'[h] = NoJob
            ELSE /\ flight'[h] = flight[h] /\ pc'[h] = pc[h]
                 /\ op'[h] = op[h] /\ job'[h] = job[h]
  BY DEF Crash, Here
<1>2. /\ \A d \in Instances \ {c} : tombstones'[d] = tombstones[d]
      /\ \A k \in Keys : tombstones'[c][k] = NoTime
  BY <1>1 DEF SFTyped, SFTypeOK, TypeOK
<1>3. clock \in Nat /\ \A h \in Goroutines : Here(h) \in Instances
  BY JobTyped DEF SFTyped, SFTypeOK, TypeOK, Time
<1>4. TombstonesPast'
  BY <1>1, <1>2, <1>3 DEF TombstonesPast, NoTime
<1>5. Marking' /\ OwnWrites'
  BY <1>1, <1>2, <1>3 DEF Marking, OwnWrites, Here
<1>6. Noticed'
  <2>1. ~NoJob.overtaken
    BY DEF NoJob
  <2> QED
    BY <1>1, <1>2, <1>3, <2>1 DEF Noticed, Here, Key, Sampling
<1> QED
  BY <1>4, <1>5, <1>6

LEMMA RestWatched ==
    ASSUME Watched, clock' >= clock, clock' \in Nat, UNCHANGED <<pc, op, tombstones, sfVars>>
    PROVE  Marking' /\ TombstonesPast' /\ OwnWrites' /\ Noticed'
<1> USE DEF Watched
<1>1. /\ clock \in Nat /\ \A c \in Instances, k \in Keys : tombstones[c][k] \in Nat
      /\ \A h \in Goroutines : op[h].now \in Nat
  BY DEF SFTyped, SFTypeOK, TypeOK, Time, Call
<1>2. Marking' /\ TombstonesPast'
  BY <1>1 DEF Marking, TombstonesPast, Here
<1>3. OwnWrites' /\ Noticed'
  BY DEF OwnWrites, Noticed, Here, Key, sfVars
<1> QED
  BY <1>2, <1>3

LEMMA WatchedStep ==
    ASSUME Setters = {}, TombstoneTTL = 0, OneInvalidator, Watched, [SFNext]_vars
    PROVE  Watched'
<1>1. SFTyped' /\ Registered' /\ Rechecking'
  BY SFStepTyped, SFStepRegistry DEF Watched
<1>2. ASSUME NEW g \in Goroutines, CacheStep(g)
      PROVE  Marking' /\ TombstonesPast' /\ OwnWrites' /\ Noticed'
  BY <1>2, CacheWatched
<1>3. ASSUME NEW g \in Goroutines,
             \/ \E k \in Keys : GetOrCompute(g, k)
             \/ FlightStep(g) \/ ComputePanic(g) \/ PlainCall(g)
      PROVE  Marking' /\ TombstonesPast' /\ OwnWrites' /\ Noticed'
  BY <1>3, OuterWatched
<1>4. ASSUME NEW c \in Instances, Crash(c)
      PROVE  Marking' /\ TombstonesPast' /\ OwnWrites' /\ Noticed'
  BY <1>4, CrashWatched
<1>5. (Tick /\ UNCHANGED sfVars) \/ UNCHANGED vars
         => clock' >= clock /\ clock' \in Nat /\ UNCHANGED <<pc, op, tombstones, sfVars>>
  BY DEF Watched, SFTyped, SFTypeOK, TypeOK, Time, Tick, vars, cacheVars, layers, sfVars
<1>6. (Tick /\ UNCHANGED sfVars) \/ UNCHANGED vars
         => Marking' /\ TombstonesPast' /\ OwnWrites' /\ Noticed'
  BY <1>5, RestWatched
<1>7. Marking' /\ TombstonesPast' /\ OwnWrites' /\ Noticed'
  BY <1>2, <1>3, <1>4, <1>6 DEF SFNext
<1> QED
  BY <1>1, <1>7 DEF Watched

LEMMA WatchedInit == SFInit => Watched
<1> SUFFICES ASSUME SFInit PROVE Watched
  OBVIOUS
<1>1. ~NoJob.overtaken
  BY DEF NoJob
<1>2. Marking /\ TombstonesPast /\ OwnWrites /\ Noticed
  BY <1>1 DEF SFInit, Init, Marking, TombstonesPast, OwnWrites, Noticed, Sampling, NoTime
<1> QED
  BY <1>2, InitSFTyped, RegistryInit DEF Watched

(* The check lets a value pass only if it found what the snapshot saw.     *)
LEMMA OnlyKeepWrites ==
    ASSUME Watched, [SFNext]_vars, NEW g \in Goroutines,
           flight[g] = "check", flight'[g] = "write"
    PROVE  ~SupersededByInvalidate(g)
<1> USE DEF Watched, Goto
<1>0. flight \in [Goroutines -> Flights]
  BY DEF SFTyped, SFTypeOK
<1>1. ASSUME NEW h \in Goroutines, FlightStep(h) PROVE Keep(g)
  <2>1. CASE Publish(h)
    BY <2>1 DEF Publish, Waiting
  <2>2. CASE WriteBack(h)
    BY <2>2 DEF WriteBack, sfVars
  <2>3. CASE h # g /\ ~Publish(h) /\ ~WriteBack(h)
    BY <1>0, <1>1, <2>3 DEF FlightStep, GuardStep, FastHit, FastError, FastMiss, Join, Recheck,
        RecheckHit, Register, TryLockOk, TryLockBusy, Poll, PollFound, PollAgain, PollTimeout,
        Snapshot, Discard, Keep, WriteBackDone, Unlock, Release, Leave, ComputeOk,
        ComputeError, ReturnAnswer
  <2>4. CASE h = g /\ ~Publish(h) /\ ~WriteBack(h)
    BY <1>0, <1>1, <2>4 DEF FlightStep, GuardStep, FastHit, FastError, FastMiss, Join, Recheck,
        RecheckHit, Register, TryLockOk, TryLockBusy, Poll, PollFound, PollAgain, PollTimeout,
        Snapshot, Discard, WriteBackDone, Unlock, Release, Leave, ComputeOk,
        ComputeError, ReturnAnswer
  <2> QED
    BY <2>1, <2>2, <2>3, <2>4
<1>2. ASSUME NEW h \in Goroutines,
             \/ \E k \in Keys : GetOrCompute(h, k)
             \/ ComputePanic(h) \/ CacheStep(h) \/ PlainCall(h)
      PROVE  FALSE
  BY <1>0, <1>2 DEF GetOrCompute, ComputePanic, CacheStep, PlainCall, sfVars
<1>3. ASSUME NEW c \in Instances, Crash(c) PROVE FALSE
  BY <1>3 DEF Crash
<1>4. (Tick /\ UNCHANGED sfVars) \/ UNCHANGED vars => FALSE
  BY DEF sfVars, vars
<1>5. Keep(g)
  BY <1>1, <1>2, <1>3, <1>4 DEF SFNext
<1> QED
  BY <1>5 DEF Keep

(***************************************************************************)
(* A value whose key was invalidated while compute ran is written into the *)
(* cache only if the clock has not moved since the snapshot: the tombstone *)
(* it leaves is the one the snapshot had seen.  It needs the tombstones to *)
(* stay (no Set of the key by others, no sweep) and the invalidations of a *)
(* process not to overlap: of two that do, the one with the older clock    *)
(* may land last and hide the other (singleflight.go 44-52, 188-210;       *)
(* invalidate.go 33-41).                                                   *)
(***************************************************************************)
THEOREM InvalidationNoticed ==
    ASSUME Setters = {}, TombstoneTTL = 0, OneInvalidator
    PROVE  SFSpec => SupersededIsNoticed
<1> DEFINE Notices == \A g \in Computers :
              flight[g] = "check" /\ flight'[g] = "write" /\ job[g].overtaken =>
                  tombstones[Here(g)][Key(g)] = job[g].genBefore
<1>1. Watched /\ [SFNext]_vars => Watched'
  BY WatchedStep
<1>2. Watched /\ [SFNext]_vars => [Notices]_vars
  <2> SUFFICES ASSUME Watched, [SFNext]_vars, NEW g \in Computers,
                      flight[g] = "check", flight'[g] = "write", job[g].overtaken
               PROVE  tombstones[Here(g)][Key(g)] = job[g].genBefore
    OBVIOUS
  <2>1. g \in Goroutines
    BY SingleFlightAssumption
  <2>2. ~SupersededByInvalidate(g)
    BY <2>1, OnlyKeepWrites
  <2>3. /\ job[g].genBefore <= tombstones[Here(g)][Key(g)]
        /\ tombstones[Here(g)][Key(g)] # NoTime
    BY <2>1 DEF Watched, Noticed, Sampling
  <2>4. job[g].genBefore \in Nat /\ tombstones[Here(g)][Key(g)] \in Nat
    BY <2>1, JobTyped DEF Watched, SFTyped, SFTypeOK, TypeOK, Job
  <2> QED
    BY <2>2, <2>3, <2>4 DEF SupersededByInvalidate, NoTime
<1> QED
  BY <1>1, <1>2, WatchedInit, PTL DEF SFSpec, SupersededIsNoticed
=====
