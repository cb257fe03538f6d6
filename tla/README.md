# Verification of token_optimizer

TLA+ specifications of the request engine in `pkg/`: the result cache with its
invalidation, the stampede guard with its cross-process lock, the file store and
the keys of artifacts, the routing of a request under the never-downgrade floor,
the cached pipeline that joins the two, the recorders that account for it, the
dispatch to tier executors with the log triage tool, and the choice of the
smallest lossless encoding. TLC checks them on small instances;
TLAPS proves the central theorems for every value of the constants.
`PROJECT.json` is the index: components, runs, mutants, the map from definitions
to source lines, findings, hazards, theorems.

    tlc -workers 2 -config MC_Cache_readers.cfg MC_Cache     # any run
    tlapm Cache_proofs.tla                                   # any proof module

## The system

A consumer builds a `config.Config` (tiers, alternatives, a floor predicate), an
`Optimizer` over it, and optionally a `cache.Cache`, an evidence recorder and a
savings recorder. A request enters `Optimize` or `OptimizeCached`; many
goroutines, and with a shared store many processes, do so at once.

| Component (package) | State | Operations | What is hard | What makes it correct |
|---|---|---|---|---|
| Cache core (`cache`) | `l1`, `tombstones`, `lastPrune` under `mu`; the injected `Store` | `Get`, `Set`, `SetWithTTL`, `Invalidate`, tombstone sweep | `mu` is never held across a store call, so decisions are made on state read earlier; deletes may leak; the clock moves meanwhile | nothing invalidated, superseded or expired is served; tombstones are bounded and pruned only when harmless |
| Single-flight guard (`cache`) | `sf` under `sfMu`, one `sfCall` per key | `GetOrCompute` | callers that missed before the winner wrote; invalidation during compute; errors and panics | one computation per key at a time, none while the value is cached, everybody returns, a superseded result is not cached |
| Cross-process lock (`cache`) | one flock per key | `TryLock`, `unlock`, `pollForResult` | the winner fails or dies; the wait runs out | only reduces computations, never hangs, is never leaked |
| Artifact keys (`cache`) | none | `ArtifactKey`, `ArtifactKeyWeb` | fields that run into each other; a map walked in any order | one key per tool call or page, shared with none |
| File store (`cache`) | a directory that processes share without a lock | `Get`, `Set`, `Delete` | every system call may fail, a process may die between any two, a file is replaced while it is read | an atomic store; no temporary file is forgotten |
| Registry (`config`) | `tiers`, `alternatives`, `neverDown`, `thresholds` under one RWMutex | `RegisterTier`, `RegisterAlternative`, `SetNeverDowngrade`, `SetThreshold`, readers | all of it may change while a request is under way | alternatives are registered, distinct, never the tier itself |
| Router (`router`) | the evidence recorder | `Select`, `SelectWithEvidence`, `Failover` | the predicate is consulted once per candidate, the liveness function once per alternative, and both may change in between | cheapest adequate tier above the floor; evidence for every decision; failover to the first live alternative |
| Pipeline (`pipeline`) | recorders, cache | `Optimize`, `OptimizeCached` | liveness flips during the call; a sink fails after the decision | failover keeps the floor and is justified; ledger and answer agree |
| Telemetry (`telemetry`) | append-only logs, JSONL sinks | `Record`, `Aggregate` | log order vs. sink order; overflow of sums | totals reconcile; nothing is dropped |
| Tier executors (`tier`) | map of executors under an RWMutex | `Register`, `Dispatch`, `DispatchChain` | executors are registered and contexts cancelled between two tiers of a chain | first success in order, every cause reported, no response fabricated |
| Log triage (`tier`) | none | `TriageLog`, the executor of the tool | the log is still being written or was cut short; gates named after verdicts | reports what the harness asserted, and -1 for what is not there |
| Wire and transport (`wire`, `transport`) | immutable encoder sets | `Select`, `Compress`, negotiation | ties and lossy codecs | smallest lossless candidate |

Interactions: `OptimizeCached` runs `Optimize` inside the compute function of
`GetOrCompute`; `GetOrCompute` calls `Get` (twice, the second time under `sfMu`)
and `SetWithTTL` of the same cache; the cache calls its store, which may be the
file store; `Optimize` calls `Select`, reads the registry lock by lock, calls the
consumer's predicate and liveness function, and hands lines to the two recorders;
`DispatchChain` calls executors of the consumer, of which log triage may be one.

## The modules

| Module | Models | Kind |
|---|---|---|
| `Cache` | `cache.go`, `invalidate.go` | state machine |
| `SingleFlight` | `singleflight.go`, `crossprocess.go`, `filelock_unix.go` on top of `Cache` | state machine, EXTENDS `Cache` |
| `OneFlight` | what the stampede guard promises | abstract specification |
| `Artifact` | `artifact.go` | operators |
| `FileStore` | `filestore.go` | state machine |
| `ArtifactStore` | the file store under the keys of artifacts | composition of the two |
| `AtomicStore` | what a `Store` promises to a cache | abstract specification |
| `Routing` | `config.go`, `router.go`, `loadbearing.go`, `evidence.go`, `pipeline.go` | state machine |
| `Failover` | `failover.go` | state machine, EXTENDS `Routing` |
| `Pipeline` | `pipeline/cache.go` on top of `SingleFlight` | composition |
| `Telemetry` | `telemetry.go`, `savings.go` | state machine |
| `Dispatch` | `tier/registry.go`, `dispatch.go` | state machine |
| `LogTriage` | `tier/logtriage.go` and the log that it reads | state machine, operators |
| `TierTriage` | the executor of log triage in a registry | composition of the two |
| `Selection` | `wire/select.go` | state machine |
| `Transport` | `negotiate.go`, `http.go`, the identity codec of `compress.go` | composition, EXTENDS `Selection` |
| `MC_Cache`, `MC_SingleFlight`, `MC_FileStore`, `MC_Routing`, `MC_Pipeline`, `MC_Telemetry`, `MC_TierTriage`, `MC_Transport` | values of the constants for TLC | |
| `Cache_proofs`, `SingleFlight_proofs`, `Pipeline_proofs`, `FileStore_proofs`, `Routing_proofs`, `Telemetry_proofs`, `Dispatch_proofs`, `Transport_proofs` | theorems | proofs |

### Cache

A goroutine's call is a `pc` and a record of locals `op`. Steps are cut where
another goroutine can come in: at every read of the clock, every critical
section of `mu`, every store call. `Get` is `GetL1Hit/Miss`, `GetL2Found/Absent/
Error`, `GetClock`, then `GetKeep`, `GetReject` or `GetPromote` in the last
critical section; `SetWithTTL` stamps in `SetBegin` and lands in `SetL1`, `SetL2`;
`Invalidate` likewise, with the whole sweep of `pruneTombstonesLocked` inside
`InvalidateL1`. The store (external) may fail each call, and its delete may
silently leave the value (`StoreFaults`).

Abstractions. A value is the version `ver` of the data it was made from. A
history variable `epoch` counts what superseded the cached value; staleness is a
comparison of versions. Time is an integer, 0 is Go's zero time. There is one
clock, which never goes back: with wall clocks of several machines the
timestamp comparisons of the code mean less, and the modules say nothing of it.
Empty keys and nil options, which only return an error, are left out.

### SingleFlight and OneFlight

`flight[g]` says where a goroutine's `GetOrCompute` is; the inner `Get` and
`SetWithTTL` run as the steps of `Cache` (`CacheStep`), so the second look at the
cache really blocks `sfMu` during the store call. `Publish` is `close(done)` and
wakes every loser at once, `Release` deletes the slot. The panic of a compute
function (`ComputePanic`) runs only what the code defers. `Crash` takes a
process's memory and, as the kernel does, its file locks; the store stays.

`OneFlight` has two sets, `inflight` and `cached`, and four actions. The
refinement mapping takes a slot of `sf` to `inflight` and an entry in L1 to
`cached`; `GuardsStampede` is the abstract specification as a property.

### Artifact, FileStore, ArtifactStore and AtomicStore

`Artifact` is a stream of what `writeField` and `writeUint64` write, in the order
in which `ArtifactKey` writes it; the digest of the stream is taken to be
injective. The eight bytes of a length are one number, drawn from the same
numbers as the bytes of a field: nothing but the order tells the two apart.
`KeysOf` has one key for every order in which the map of inputs may be walked.

`FileStore` cuts `Get`, `Set` and `Delete` at their system calls, each of which may
fail (`ReadFails`, `CreateFails`, `SetFails`, `RemoveTempFails`, `UnlinkFails`) or be
the last of its process (`Crash`). The directory and the open files refer to
inodes, so that a reader goes on with the file that it opened when another one
takes its name; reads and writes go byte by byte. No lock is taken, as in the
code.

`AtomicStore` is the promise: a call takes effect at one instant, or fails and has
none. In the refinement mapping `Store` a request's contents are the bytes of the
file of its key, and a call has taken effect from the moment it opened, renamed
or removed a file. The mapping needs that every request has a key of its own
(`KeysSound`).

`ArtifactStore` joins the two: the key under which a request is stored is the one that
`Artifact` derives for it, and a request is a tool call or a page with the arguments
that the types of Go allow (`WellFormed`: strings of any bytes, finite maps).
`KeysDistinct` states `KeysSound` and more. The order of paths, which the code takes
from `sort.Strings`, is a `CHOOSE` over the listings of a set, of which exactly one is
ascending.

A crash is the death of a process. After a power failure a file that was renamed
but never synced (filestore.go:75-79) may be empty; that is left out.

### Routing and Failover

A request is cut at every lock of the Config and every call of a function of the
consumer. In between, tiers and alternatives are registered (`RegisterTier`,
`RegisterAlternative`), the predicate is replaced (`SetNeverDowngrade`), tiers go
down and come back (`Outage`, `Recovery`, external). `Select` takes its snapshot
of the ladder and its floor in one step, as the code does in one `Tiers()`; then
`WalkPast` and `WalkTake` consult the predicate in force once per candidate.
`Optimize` goes on to probe the tier, read the alternatives, judge and probe each,
and hand lines to the sinks, which may fail.

Abstractions. Names are numbers in their string order, prices integers (the code
only adds and compares them), a consumer's predicate is the set of triples it
denies. Token counts and costs are left out, and of an evidence or savings line
only the tier it names and the tier its baseline is priced on are kept.
Histories: the predicates in force since the call (`seen`), the tiers live at
some moment (`ever`) and at every moment (`steady`) of it.

A savings record that the recorder refuses leaves nothing, and one that its sink does
not take stays in the log: `SavingsFail` has both. The recorders themselves are in
`Telemetry`.

The ladder is ordered by priority and the default predicate compares prices. Where the
two disagree, a load-bearing request may be sent below its floor on the ladder, but
never to a cheaper tier (`LoadBearingAtFloor`, refuted, and `LoadBearingNotCheaper`).

`Failover` adds the walk of `router.Failover`, one step per call of the liveness
function. Nothing in `pkg/` calls it together with `Optimize`, and the two share
only what neither writes, so a walk and a request do not overlap in the model;
registrations and outages overlap with both.

Failover in `Optimize` consults the floor predicate and liveness, and never
`MinTier`: a request whose floor comes from `MinTier` alone is kept above it by the
selection only.

### Pipeline

With a cache `OptimizeCached` hands `GetOrCompute` a closure that routes (`Route`), executes
(`Execute`) and leaves its decision in a variable of the caller; on return the
caller looks at that variable to tell a hit from a miss (`IsHit`) and bills a hit
itself. The closure runs where `SingleFlight` computes (`Computing`), all other
steps of the flight are those of `SingleFlight` (`CachePart`). A request's locals are a
`CachedCall`, with the lines of the ledger that bill it.

Abstractions. A savings recorder is installed. `Optimize` is one
step with its three outcomes (routed and billed, an error before the line, an
error of the line itself); its inside is `Routing`. Panics and crashes are left to
`SingleFlight`. Without a cache (`Uncached`) the same call routes and executes
directly (`OptimizeUncached`, `RouteDirect`, `PerformDirect`) and is never a hit.

Requests of one `cacheKey` share the response of the one that computed, or its
error, whatever their own signals say: which requests may share a key is left to
the caller (cache.go:96-97).

### Telemetry

The token recorder and the savings recorder are twins; an operator of the report
takes the `kind` that is meant.
`Record` is cut at `writeMu` (`Enter`), at `mu` (`LockLog`, `AppendLog`) and at the
write to the sink (`Emit`, `EmitFails`), which belongs to the consumer and may hang
or fail. `Aggregate` copies the log under `mu` (`ReadLog`) and computes its report
from the copy. The report is an operator: buckets per registered tag, `unaccounted`
for the others, totals, and percentiles by linear interpolation (in hundredths, so
that integers do). A bucket is a function on the positions of the log that have its
tag, and its sorted values are that function rearranged by a bijection. `int64` sums wrap at `Bits` bits; `float64` sums are rounded to a
mantissa of `Mantissa` bits, to nearest. NaN and infinities are left out, and so is
`MeanSavings`, which is a sum over a count and depends on the order as the sum does.
A write that fails is taken to leave nothing in the sink: what a consumer's writer
does with a part of a line is not covered.

### Dispatch, LogTriage and TierTriage

`Dispatch` cuts a call at the lookup of each tier (`LookupFound`, `LookupMissing`,
under the lock of the registry) and at the call of its executor, which is code of
the consumer, runs without the lock, and may answer or fail (`ExecuteOk`,
`ExecuteFails`); an executor that honours its context (`Heedful`) fails once that is
cancelled. `DispatchChain` itself never looks at the context (dispatch.go:47).

`LogTriage` is `TriageLog` with its regular expressions, over a log of tokens: an
escape sequence, the separator behind a gate's name, the end of a line, labels
and digits are tokens, blanks are left out. The harness (external) writes a log
from one of `Sweeps`, token by token, and may stop anywhere.

What the harness may write is an assumption of the module (`TriageAssumption`): names,
descriptions and reasons are made of `Words`, which have no escape sequence and no end
of a line; a name has no separator, and a reason, which stands in parentheses, is no
bare verdict or digit; every number has a digit. Otherwise the text is free: verdict
words, the labels of the summary, numbers and the marker are among it.

`TierTriage` registers the tool among other executors and dispatches requests to it
while the log is written. A response carries the triage of the log as it was.

The tool looks for lines of the summary and for the marker wherever they are, so that
a gate may be taken for them: `Poses` is a gate that bears the name of a label, with a
description that begins with a digit, and `Quotes` one that has the marker in its
text. `CountsAreDeclared` says what they can do, and that nothing else can.

### Selection and Transport

`Selection` is the loop of `Selector.Select`, one step per encoder and outcome
(`EncodeFails`, `DecodeFails`, `Lossy`, `Smaller`, `NotSmaller`). The slice of encoders
is sorted once and never written again, so it is a set whose least untried name
is next. `Negotiator.Compress` is the same loop over compressors: `Transport`
extends it, fixes what the built-in identity does, and adds the glue.
`CompressRequestBody` reads the body to its end first, and rewrites the request
only if a winner is found; `DecodeResponseBody` stands for a peer, a Negotiator with
any set of compressors. A body is the sequence of codings applied to it, a nil
value or request, which only returns an error, is left out, and Content-Length
and GetBody follow the body.

## What the runs check

| Run | Checks | Shows |
|---|---|---|
| `cache_readers` | `TypeOK`, `TombstoneGuardsL1`, `NoStaleServe`, `NeverResurrectOlder` | with a single writer and any store faults, no superseded value is served or promoted |
| `cache_prune` | `ExpiredNeverServed`, `StaleServeHasExpired`, `PruneSafe`, `RetentionBounded` | within the contract of `WithTombstoneTTL` what a pruned tombstone gives up has expired, and a superseded value is served only if it expired during the call; pruning does bound the map |
| `sf_processes` | `LockNotLeaked` | two processes with every fault, an invalidation, timeouts and a crash: no lock outlives its holder |
| `sf_waiters` | `ComputedOncePerProcess`, `GetOrComputeReturns` | each process computes a key once, and nobody waits for ever |
| `filestore` | `FileStoreTypeOK`, `TempsAccounted`, `KeysDistinct`, `ImplementsStore` | two processes in one directory, with every failure and a death: each call is atomic and no temporary file is forgotten; keys of some 6,000 tool calls and pages are stable and distinct |
| `routing_floor` | `TypeOK`, `AlternativesSound`, `FloorNeverBypassed`, `LoadBearingNotCheaper`, `CheapestAdequate`, `FailoverHonest`, `TrailMatchesDecision`, `BaselineAtLeastAsStrong`, `FailoverByLiveness` | the floor, which is one of prices, the trail and both kinds of failover, while everything changes |
| `pipeline_ledger` | `PipelineTypeOK`, `BilledOnce`, `HitIsHonest`, `RegistryIsExact`, `GuardsStampede`, `SupersededIsNoticed` | each request is billed once and for what it was; the registry names exactly the winners; the guard implements `OneFlight`; a computation that an invalidation superseded is not cached |
| `tele_tokens` | `SinkMirrorsLog`, `NothingDropped`, `Reconciles`, `OrderIrrelevant`, `ReadersNotBlocked` | two recording goroutines and a reader over a sink that fails or hangs; sums that overflow still reconcile |
| `tier_triage` | `ChainHonest`, `VerdictsAreTheHarness`, `CountsAreDeclared` | chains walked while executors are registered, contexts cancelled and the log written: nothing is swallowed, no verdict is reported that the harness did not assert, and no count that the log does not have |
| `transport_codings` | `SmallestLossless`, `PeerReconstructs` | the smallest lossless coding wins whatever fails, by name in a tie, and no peer takes other bytes for the body |

Every property has a mutant in its module: a plausible bug of a named
definition under which TLC finds the property violated. Mutant operators stand
before the definition they replace and are used by nothing else.

### What the comments say that the code does not do

Two runs are counterexamples to what a comment says:

- `cache_clock_before_lock`: `SetWithTTL` reads the clock before it takes the lock
  and clears the tombstone unconditionally. An `Invalidate` in between is undone.
- `sf_slot_kept`: a panic in compute leaves the slot registered and `done` open.

Eight more divergences lie in the states that a passing run reaches. Each is a finding at
that run, next to the property that says the most that holds, and each has a
configuration under which TLC refutes what the comment says:

| Configuration | Refutes | The comment | What the code does | What holds |
|---|---|---|---|---|
| `MC_Cache_prune_stale.cfg` | `NoStaleServe` | within the contract of `WithTombstoneTTL` "no stale value is ever served" (cache.go:130-132) | a `Get` reads the clock (313) before it takes the lock (318); in between the value expires and an `Invalidate` of another key prunes its tombstone; the `Get` judges by its own clock, promotes and serves | `StaleServeHasExpired`, `PruneSafe` |
| `MC_Routing_ladder.cfg` | `LoadBearingAtFloor` | a request "never resolves to a tier below" its floor, and the default predicate pins load-bearing ones to the strongest tier, the last of the ladder (router.go:113-115, loadbearing.go:16-17) | floors are resolved by priority, and the default predicate compares prices (config.go:85-90): a tier lower on the ladder that is not cheaper is let through | `LoadBearingNotCheaper`, `FloorNeverBypassed` |
| `MC_Transport_tie.cfg` | `StrictlySmallerThanRaw` | a compressor is chosen only when its output is "strictly smaller than the identity (raw) body" (compress.go:98-100) | a tie goes to the lesser name, identity's being one of them (negotiate.go:157-158, 208) | `SmallestLossless` |
| `MC_TierTriage_truncated.cfg` | `TruncatedIsUnknown` | a truncated log "yields -1 summary fields" (logtriage.go:206-207) | a log cut within 12 yields 1 | `CountsAreDeclared` |
| `MC_TierTriage_label.cfg` | `CountsAreOfTheSummary` | counts "are the harness's own declared summary counts" (logtriage.go:100-102) | a gate named `Passed` with the description 7 is taken for them | `CountsAreDeclared` |
| `MC_TierTriage_marker.cfg` | `MarkerIsTheHarness` | a pass is reported if the log has the harness's marker line (logtriage.go:104-105) | the marker is found anywhere, in the text of a gate of a failed sweep too | `CountsAreDeclared` |
| `MC_Telemetry_order.cfg` | `SumsIgnoreOrder` | "the same multiset of records always yields an identical Report regardless of insertion order" (savings.go:247-248) | float sums, and the mean, are rounded in the order of the records (298, 308) | `OrderIrrelevant` |
| `MC_Telemetry_sums.cfg` | `CostsReconcile` | "every summed field reconciles exactly" (savings.go:240-241) | the sums of each bucket and of the total are rounded separately | `Reconciles` |

Each of these configurations is that of the run, with the refuted statement for its only
property, and ends with a trace: `tlc -workers 2 -config MC_Transport_tie.cfg MC_Transport`.

One more divergence is known and has no statement in a module: an `Invalidate` followed
by a `Set` during compute leaves no tombstone (cache.go:359), so the check of
singleflight.go:201 sees none and the superseded result overwrites the newer value. It
is the unconditional delete of the first finding again; `SupersededIsNoticed` is about
keys that nobody sets meanwhile.

Where a refuted statement does hold it is checked: `NoStaleServe` with one writer (a
writer that races itself is the finding). `NeverResurrectOlder` is checked without
expiry: with it, an older L2 value in flight is promoted over an expired newer one.

### Bounds

- Cache: one or two keys (two, so that invalidating one sweeps the other), two
  readers and a writer, times up to 4 and epochs up to 3. Each race in the code is
  between one reader in flight and at most two later writes; four instants
  separate store, invalidation, retention and expiry.
- SingleFlight: three goroutines in two processes: a winner, a loser and a follower
  of the other process, or two winners and an invalidator; one crash; one
  invalidation. `sf_processes` has a `VIEW` that hides history variables, of which
  `LockNotLeaked` reads none.
- FileStore: two processes, two requests that a careless concatenation would give
  one key, values of two bytes (so that a write or a read can be torn), four files
  (one per request, one being written by each process), one file that is left for
  ever. Keys are compared over strings of up to one byte, or five for a page, lists of up
  to two and maps of up to two inputs.
- Routing: three tiers, of which two share a priority and whose prices do not
  follow the priorities, two tiers that must be rejected, four request shapes,
  three changes of alternatives, predicate or liveness in any mix. One request
  suffices: requests share only the registry, which they never write. A walk of
  `router.Failover` has up to two alternatives.
- Pipeline: two goroutines that ask for one key in one process, and a third one that
  invalidates, at most twice and in two instants, and calls without a cache. A
  winner, a loser and a second invalidation during one computation are all there;
  callers in two processes are in the runs of `SingleFlight`.
- Telemetry: three calls of two goroutines and one reader, integers of four bits
  (three calls overflow them), a mantissa of two bits (three addends suffice to
  show that the order matters).
- TierTriage: one caller (callers share only the registry), chains of up to two of
  two tiers, four sweeps: gates named after verdicts and after labels of the summary,
  one of which poses as a line of it, a gate of a failed sweep that quotes the marker,
  a count of two digits and one that exceeds `MaxInt`, reasons with and without.
- Transport: three names, identity in the middle, so that a coding may precede it
  and follow it in a tie; lengths 0 to 2; up to three arguments of the constructor,
  with empty and repeated names; two successful sends.
- `MaxTime`, `MaxEpoch`, `MaxCrashes`, `MaxChanges`, `MaxAlternatives`, `MaxCalls`,
  `MaxGiven`, `MaxSends`, `MaxStray` and `MaxOrder` are the only bounds. `SYMMETRY` is used in
  `cache_readers`, over the two readers, in `pipeline_ledger`, over the two
  goroutines that ask, and in `filestore`, over processes and inodes.
- `CHECK_DEADLOCK FALSE` stands only in the two runs where compute may panic: the
  callers of that key then wait for ever, which is the finding `sf_slot_kept`.

### Fairness

`FairSFSpec` assumes, per goroutine: weak fairness of its next step (the Go
scheduler runs every runnable goroutine, and compute returns); strong fairness of
the steps that take `sfMu` (`sync.Mutex` goes into starvation mode and hands the
lock over); strong fairness of the poll's timeout (the deadline is wall-clock
time). No call, invalidation, fault or crash is assumed to happen or to stop,
and `ComputePanic` is never forced.

`FairSpec` of `Telemetry` assumes weak fairness of `AppendLog` (a goroutine that
holds `mu` is runnable and calls nothing of the consumer's) and, for a reader,
strong fairness of the step that takes `mu`. Of the sink nothing is assumed: a
write may never return. The other runs have no fairness and check safety only.

## What is proved

A theorem holds for every value of the constants that satisfies the named
assumption of its module, and the hypotheses that it states; its inductive
invariants were run through TLC before they were proved. `SingleFlight_proofs`
extends `Cache_proofs`, and `Pipeline_proofs` extends it in turn, as the modules do.

`Cache_proofs` (assuming `CacheAssumption`; its last conjunct is the contract of
`WithTombstoneTTL`). All properties of `Cache` are proved:

- `TypeCorrect`: `Spec => []TypeOK`.
- `NoTombstonedL1`: no L1 entry is as old as its key's tombstone. Inductive with
  `TypeOK`, since promotion re-validates in its critical section and an
  invalidation deletes the entry in the one that writes the tombstone.
- `ServedUnexpired`: needs that a hit and the entry in hand carry the instant at
  which expiry was judged.
- `PruningIsSafe`: the inductive invariant says that every entry, wherever it is
  held, was stored no later than now and expires within the retention, and that
  what was pruned is older than the retention.
- `StaleOnlyIfExpired`: `StaleServeHasExpired`, for one writer, one cache over the
  store and one lifetime, whatever the store does wrong. The invariant
  `SupersededAreOutdone` is about every superseded entry, wherever it still is: it has
  expired, or a tombstone rejects it, or L1 holds the current entry, which was stored
  no earlier. It needs `History`: entries are only moved, never changed
  (`EntriesMove`), and those of a key were stored in the order of their versions, none
  later than the call that is writing. The hypotheses are necessary: two writers are
  the finding of `cache_clock_before_lock`, another process knows of no invalidation,
  and of two lifetimes the newer value may expire first.
- `NothingStaleServed`: `NoStaleServe` follows where values do not expire.
- `NothingOlderResurrected`: `NeverResurrectOlder`, for one writer and values that do
  not expire, and any number of caches over the store.
- `TombstonesAreBounded`: `RetentionBounded`, if the cache prunes and its invalidations
  do not overlap. The invariant is that no tombstone is older, at the last sweep, than
  the retention. An invalidation that read its clock long before it took the lock may
  leave an older tombstone.

`SingleFlight_proofs` (assuming `SingleFlightAssumption` too):

- `SFTypeSafe`: the types of the guard and of the calls it has under way in the cache.
- `LocksAreReturned`: `LockNotLeaked`, with every fault, panic, timeout and crash. The
  invariant `Holders` is that the holder of a lock is between its `TryLock` and its
  `Unlock`, on the key of the lock.
- `RegistryExact`: `RegistryIsExact`, if compute does not panic; with a panic it does not
  hold (`sf_slot_kept`). `Registered` and `Rechecking` say that a winner under way owns
  its slot, and that a goroutine looks a second time only under `sfMu`, over an empty
  slot.
- `StampedeGuarded`: the guard implements `OneFlight`, step by step, where L1 is the
  cache: no store, nobody else who sets, no crash. `Guarded` adds that who misses under
  `sfMu` misses because L1 has nothing, and that only a winner writes. With a store
  an entry may be in it and not in L1, and the mapping `cached` would have to be
  another.
- `ComputedOnce`: `ComputedOncePerProcess`, under what its comment assumes: nothing is
  invalidated, nobody else sets and nothing expires. A value that was computed is in L1,
  or the goroutine that computed it is bringing it there (`Landed`), and who goes to
  compute knows that nothing was (`NotYet`).
- `InvalidationNoticed`: `SupersededIsNoticed`. The tombstone that a computation
  remembers is no later than the one of its key, and there is one if it was overtaken
  (`Noticed`). Tombstones must be kept, and the invalidations of one process must not
  overlap: the clock is read before the lock is taken, so that of two the older may
  land last and hide the other.

`Pipeline_proofs` (assuming `PipelineAssumption` too):

- `PipelineRunsGuard`: `PipelineSpec => SFSpec`. Theorems of the guard are theorems of the
  pipeline; `PipelineGuardsStampede` and `PipelineNotices` are those of `OneFlight` and of
  superseded computations, under fewer hypotheses or the same, and
  `PipelineRegistryExact` has none, since the closure of the pipeline does not panic.
- `PipelineTypeSafe`, `CallsBilledOnce`, `HitsHonest`. The invariant `Accounts` ties the
  stage of each request to where its goroutine is in the guard and to what it has
  been billed (`InOrder`): before the closure nothing, after it the line of its
  Decision, and a hit is exactly a return without having been in the closure.

`Routing_proofs` (assuming `RoutingAssumption`, for every ladder, any predicates,
any number of requests and changes). All properties of `Routing` and of `Failover` are
proved:

- `TypeCorrect`: inductive as `Typed`, with what a request has in hand at each
  place: registered tiers, a selected tier after the walk, a final tier when it
  bills.
- `FloorHolds`: `FloorNeverBypassed`. The strengthening `FloorKept` adds that the
  predicate in force is among those seen during the call, and that a tier being
  probed was let through before.
- `NeverCheaperThanFloor`: `LoadBearingNotCheaper`, from `FloorKept`, from the fact
  that a load-bearing request has a floor (`HasFloor`), and from the chain
  floor <= selected <= final of prices.
- `AlternativesAreSound`: each call of `RegisterAlternative` leaves registered, distinct
  alternatives other than the tier.
- `SelectionIsCheapest`, `FailoverIsHonest`, `TrailIsTrue`, `BaselineIsStrong`, from one
  invariant, `Path`: the histories bracket what is in force (`Watching`), the tiers that
  the walk has behind it were refused (`Walked`), so were the alternatives before the
  one being judged (`Passed`), and the lines written are those of the decision
  (`Billing`). That a baseline is no weaker than the decision holds although tiers are
  registered in between, since registration never takes one away.
- `FailoverTakesFirstLive`: `FailoverByLiveness`. `WalkHonest` says that the chain is
  still the beginning of the registered one. `FailoverSpec => Spec`, so that the theorems
  above hold beside a walk (`FloorHoldsWithFailover`).

`FileStore_proofs` (assuming `FileStoreAssumption`: values are not empty, and no file
and no value is `None`; for any processes, requests, values, number of files):

- `TypeCorrect`: `FileStoreTypeOK`.
- `NoTempForgotten`: `TempsAccounted`. The strengthening `Consistent` says where each
  call is and what it has open: a writer a file of its own under a temporary name,
  with the beginning of its value, a reader a file that nobody writes any more.
  `Owned` adds that every temporary file that is not a stray has its writer.
- `Implements`: `ImplementsStore`, under the premise `KeysSound`, for keys of any kind.
  Step by step from `Consistent`: opening, renaming and removing are the steps of
  `AtomicStore`, and a reader that has opened a file returns all of it, since it is no
  temporary one.

With `ArtifactStoreAssumption` (requests are well formed, their keys those of
`Artifact`, and the population whose keys are counted is finite) the premise goes:

- `OneKeyEach`: every well-formed request has exactly one key, and two of them never
  share one; strings, lists and maps of any size. A length says where a field ends, so of two
  streams with a common beginning the next field is the same (`SameField`,
  `SameFields`): nothing need be known of the rest. The paths of a finite map have one
  ascending listing, since `StringLess` is a strict total order (`SortedListing`,
  `OrderedListing`); so the walk of the map cannot tell. A page has two fields, and its stream ends
  where a tool call still has a field to come (`PageIsNoTool`).
- `KeysStayDistinct` (`KeysDistinct`) and `ArtifactsAreStored` (`ImplementsStore`) follow.

`Telemetry_proofs` (assuming `TelemetryAssumption`; for any recorders, readers, tags,
amounts and number of calls):

- `TypeCorrect`: inductive with who holds which lock at each place of `Record`.
- `LogIsComplete` (`NothingDropped`) and `SinkIsTheLog` (`SinkMirrorsLog`), together as
  `Ledger`: the entry being written is the last of the log, since `writeMu` is held
  from before the append until after the write. Without that lock the order of the
  sink need not be that of the log.
- `ReportsReconcile`: `Reconciles`, for a log of any length and integers of any width. Sums
  that wrap after every addition are the sum that wraps once at the end (`WrapsOnce`,
  `SumOfTokens`), so that the sums of disjoint sets of positions add up (`SumsAdd`) and
  those of all buckets are the total (`TokensReconcile`, `CountsReconcile`).
- `ReportsIgnoreOrder`: `OrderIrrelevant`. Two logs with the same entries differ by a
  bijection of positions; it carries bucket to bucket (`BucketsAlike`), sorted values
  to the same sorted values (`SortedAlike`), and sums of tokens to equal sums (`SumsCarry`).

`Transport_proofs` (assuming `SelectionAssumption` and `TransportAssumption`; names are
numbers in the order of the strings; for any encoders, any compressors on both sides
and any number of requests):

- `SelectsSmallest`: `SmallestLossless`. The strengthening `Sorted` adds that the
  encoders tried have lesser names than those to come, so that a tie needs no
  second comparison, as the comment in the code says; that a least untried name
  exists is the well-foundedness of < on the naturals.
- `ImplementsSelection`: `TransportSpec => SelectionSpec`, step by step; only the
  length of identity needs an invariant, that a body is a non-empty sequence of
  layers. `CompressesSmallest`, the property that the run checks, follows.
- `PeerGetsTheBody`: `PeerReconstructs`. The strengthening `Labelled` adds that the
  header of a request on its way names the last coding of its body, the winner,
  which `SmallestLossless` says is lossless: the coding can be taken off.

`Dispatch_proofs` (assuming `DispatchAssumption` and, of the harness,
`TriageAssumption`; for any tiers, executors, callers, chains, words and sweeps). All
properties of `Dispatch` and `TierTriage` are proved:

- `NothingSwallowed`: `ChainHonest`. The strengthening `Honest` says of each call
  where it is in its order (`Placed`), that what was registered when it began still
  is, and that every cause names the executor that failed, so that a `Register`
  between two tiers of a chain takes no cause and no answer away from its executor.
- `VerdictsNeverFabricated`: `VerdictsAreTheHarness`. The invariant `Faithful` says that a
  triage answers with what it makes of the beginning of the text that it read, however
  the log has grown since; the rest is about that text. Any beginning of it is whole
  lines of gates and then part of one, or part of the summary (`LogEnds`). The lines
  split apart at the ends of gates (`LinesApart`); a whole one is found exactly when
  its gate has the verdict (`BodyHits`), the last may be too (`TailHeeded`), and the
  summary never is (`PlainHasNoVerdict`).
- `CountsNeverFabricated`: `CountsAreDeclared`, from `Faithful` too. Unless a gate poses as
  a line of the summary, no match of a label lies among the gates, though gates be named
  like it: behind their names stands no number (`Modest`, `Unlabeled`). So the first match, if any,
  is the line of the summary (`OnlyStart`), and the digits behind it are those that the log
  has of the number (`NumberFound`); with none of them there is no match at all
  (`Unnumbered`). The marker is a token of the text, which only a sweep that passed and a
  gate that quotes it put there (`MarkerMeansPassed`).

Only model-checked: `GetOrComputeReturns` and `ReadersNotBlocked`, which are liveness
under fairness, out of the reach of the prover.

Where these proofs go by induction over data, they do so without the library's
theorems, whose parameters are operators: the set of the numbers, or of the sizes, at
which a statement fails has a least member (`LeastNatural`, from the
well-foundedness of < on the naturals), and recursive functions exist because they do
on every initial segment (`NumberRecursion`, `SequenceRecursion`, `SetRecursion`). These lemmas take sets and
functions as parameters; `Telemetry_proofs`, `FileStore_proofs` and `Dispatch_proofs` each
state those they need.

## Not modelled

- `SetThreshold`/`Threshold`: nothing in the engine reads a threshold.
- The built-in encoders and codecs (JSON, gzip, deflate, brotli) and the digests
  of keys: pure functions of bytes, taken as codecs like any other and as
  injective.
- Blanks within the lines of a log, and the regular expression of a reason.
- Power failures, which may leave a renamed file without its bytes.
- Clock skew between processes; stores that call back into the cache.
- Panics of `execute` and crashes within `Pipeline`; they are in `SingleFlight`.

## Plan

Done: every component but the parts listed above, and the theorems of all of them
that are within reach of the prover. What is left, in order:

1. A store for `Cache` that is `AtomicStore`, in place of its own steps of the store.
2. The refinement of `OneFlight` with a store: `cached` as what the next Get of the
   process would find.
3. A second call of `CompressRequestBody` on one request: what the last peer must
   know to reconstruct the first body.
4. `NeverResurrectOlder` with expiry; layers that disagree after two racing Sets.

The module of a component with theorems declares no RECURSIVE operator; sums in
`Telemetry` use the folds of the community modules.
