----------------------------- MODULE Telemetry -----------------------------
(***************************************************************************)
(* The two recorders of pkg/telemetry.  Recorder (telemetry.go) keeps      *)
(* token counts, SavingsRecorder (savings.go) keeps costs; they share one  *)
(* locking discipline, an append-only log and an optional JSONL sink, and  *)
(* differ in what a record is worth and in the arithmetic of its sums: a   *)
(* report of kind "tokens" or "savings" is made of one log here.           *)
(*                                                                         *)
(* A Record is cut at every lock and at the write to the sink, which is    *)
(* the consumer's and may block for ever or fail.                          *)
(***************************************************************************)
EXTENDS Integers, Sequences, FiniteSets, SequencesExt

CONSTANTS
    Recorders,      \* the goroutines that call Record
    Readers,        \* the goroutines that call Aggregate
    Tags,           \* the tags of records
    NoTag,          \* the empty tag
    NoRec,          \* the absence of a record
    Known,          \* the tags registered by WithKnownTags
    Offered,        \* the records that callers may offer
    HasSink,        \* whether WithWriter installed a sink
    SinkFails,      \* whether a write to it may fail
    Bits,           \* the width of an int64
    Mantissa,       \* the width of the mantissa of a float64
    Nobody,         \* the absence of a goroutine
    MaxCalls        \* bound: accepted calls of all recorders

(***************************************************************************)
(* first and second are InputTokens and OutputTokens, or BaselineCost and  *)
(* OptimizedCost.                                                          *)
(***************************************************************************)
Rec == [tag : Tags \cup {NoTag}, first : Int, second : Int]

ASSUME TelemetryAssumption ==
    /\ NoTag \notin Tags
    /\ Known \subseteq Tags
    /\ Offered \subseteq Rec
    /\ NoRec \notin Offered
    /\ HasSink \in BOOLEAN
    /\ SinkFails \in BOOLEAN
    /\ Bits \in Nat \ {0}
    /\ Mantissa \in Nat \ {0}
    /\ Nobody \notin Recorders
    /\ MaxCalls \in Nat

VARIABLES
    log,            \* Recorder.log
    mu,             \* the writer that holds Recorder.mu
    writeMu,        \* the holder of Recorder.writeMu
    sink,           \* the lines of the JSONL sink
    pc,             \* where each recorder is in Record, or how it ended
    arg,            \* its record
    nr,             \* history: its accepted calls
    failed,         \* history: the calls whose write failed
    asking,         \* where each reader is in Aggregate
    view            \* the part of the log it aggregates

recorderVars == <<log, mu, writeMu, sink, pc, arg, nr, failed>>

readerVars == <<asking, view>>

vars == <<recorderVars, readerVars>>

Negative(e) == e.first < 0 \/ e.second < 0

(* by and nr are history: they tell equal records apart.                   *)
Entry == [rec : {e \in Offered : e.first >= 0 /\ e.second >= 0}, by : Recorders, nr : Nat]

Inside == {"enter", "lock", "append", "emit", "unlock"}

Init ==
    /\ log = <<>>
    /\ sink = <<>>
    /\ mu = Nobody
    /\ writeMu = Nobody
    /\ pc = [g \in Recorders |-> "idle"]
    /\ arg = [g \in Recorders |-> NoRec]
    /\ nr = [g \in Recorders |-> 0]
    /\ failed = {}
    /\ asking = [r \in Readers |-> "idle"]
    /\ view = [r \in Readers |-> <<>>]

TypeOK ==
    /\ log \in Seq(Entry)
    /\ sink \in Seq(Entry)
    /\ mu \in Recorders \cup {Nobody}
    /\ writeMu \in Recorders \cup {Nobody}
    /\ pc \in [Recorders -> {"idle", "ok", "ErrNegative", "ErrSink"} \cup Inside]
    /\ arg \in [Recorders -> Offered \cup {NoRec}]
    /\ nr \in [Recorders -> Nat]
    /\ failed \in SUBSET (Recorders \X Nat)
    /\ asking \in [Readers -> {"idle", "wait", "done"}]
    /\ view \in [Readers -> Seq(Entry)]

-----------------------------------------------------------------------------
(* Record.                                                                 *)

Goto(g, at) == pc' = [pc EXCEPT ![g] = at]

Calls == FoldFunction(+, 0, nr)

Record(g, e) ==
    /\ pc[g] = "idle"
    /\ ~Negative(e)
    /\ Calls < MaxCalls
    /\ arg' = [arg EXCEPT ![g] = e]
    /\ nr' = [nr EXCEPT ![g] = @ + 1]
    /\ Goto(g, "enter")
    /\ UNCHANGED <<log, mu, writeMu, sink, failed, readerVars>>

(* A negative count or cost is refused before any lock is taken.           *)
Refuse(g, e) ==
    /\ pc[g] = "idle"
    /\ Negative(e)
    /\ Goto(g, "ErrNegative")
    /\ UNCHANGED <<log, mu, writeMu, sink, arg, nr, failed, readerVars>>

(* Mutant: only the append is serialized.                                  *)
EnterAtOnce(g) ==
    /\ pc[g] = "enter"
    /\ Goto(g, "lock")
    /\ UNCHANGED <<log, mu, writeMu, sink, arg, nr, failed, readerVars>>

Enter(g) ==
    /\ pc[g] = "enter"
    /\ writeMu = Nobody
    /\ writeMu' = g
    /\ Goto(g, "lock")
    /\ UNCHANGED <<log, mu, sink, arg, nr, failed, readerVars>>

LockLog(g) ==
    /\ pc[g] = "lock"
    /\ mu = Nobody
    /\ mu' = g
    /\ Goto(g, "append")
    /\ UNCHANGED <<log, writeMu, sink, arg, nr, failed, readerVars>>

Accepted(g) == [rec |-> arg[g], by |-> g, nr |-> nr[g]]

(* Mutant: the data lock is kept across the write.                         *)
AppendKeepsLock(g) ==
    /\ pc[g] = "append"
    /\ log' = Append(log, Accepted(g))
    /\ Goto(g, IF HasSink THEN "emit" ELSE "unlock")
    /\ UNCHANGED <<mu, writeMu, sink, arg, nr, failed, readerVars>>

AppendLog(g) ==
    /\ pc[g] = "append"
    /\ log' = Append(log, Accepted(g))
    /\ mu' = Nobody
    /\ Goto(g, IF HasSink THEN "emit" ELSE "unlock")
    /\ UNCHANGED <<writeMu, sink, arg, nr, failed, readerVars>>

Emit(g) ==
    /\ pc[g] = "emit"
    /\ sink' = Append(sink, Accepted(g))
    /\ Goto(g, "unlock")
    /\ UNCHANGED <<log, mu, writeMu, arg, nr, failed, readerVars>>

(* Mutant: what the sink did not take is forgotten.                        *)
EmitFailsAndDrops(g) ==
    /\ pc[g] = "emit"
    /\ SinkFails
    /\ failed' = failed \cup {<<g, nr[g]>>}
    /\ log' = Front(log)
    /\ Goto(g, "unlock")
    /\ UNCHANGED <<mu, writeMu, sink, arg, nr, readerVars>>

(* The line is not marshalled or not written; the log keeps the record.  A *)
(* write that fails is taken to leave nothing in the sink: of a writer     *)
(* that takes a part of a line and fails, the log and its reports are      *)
(* modelled, the rest of that line is not.                                 *)
EmitFails(g) ==
    /\ pc[g] = "emit"
    /\ SinkFails
    /\ failed' = failed \cup {<<g, nr[g]>>}
    /\ Goto(g, "unlock")
    /\ UNCHANGED <<log, mu, writeMu, sink, arg, nr, readerVars>>

Unlock(g) ==
    /\ pc[g] = "unlock"
    /\ writeMu' = Nobody
    /\ Goto(g, IF <<g, nr[g]>> \in failed THEN "ErrSink" ELSE "ok")
    /\ UNCHANGED <<log, mu, sink, arg, nr, failed, readerVars>>

Return(g) ==
    /\ pc[g] \in {"ok", "ErrNegative", "ErrSink"}
    /\ Goto(g, "idle")
    /\ arg' = [arg EXCEPT ![g] = NoRec]
    /\ UNCHANGED <<log, mu, writeMu, sink, nr, failed, readerVars>>

-----------------------------------------------------------------------------
(* Aggregate: one critical section that only reads, so that readers do not *)
(* exclude one another; the report is computed after it.                   *)

Aggregate(r) ==
    /\ asking[r] = "idle"
    /\ asking' = [asking EXCEPT ![r] = "wait"]
    /\ UNCHANGED <<recorderVars, view>>

ReadLog(r) ==
    /\ asking[r] = "wait"
    /\ mu = Nobody
    /\ view' = [view EXCEPT ![r] = log]
    /\ asking' = [asking EXCEPT ![r] = "done"]
    /\ UNCHANGED recorderVars

ReturnReport(r) ==
    /\ asking[r] = "done"
    /\ asking' = [asking EXCEPT ![r] = "idle"]
    /\ view' = [view EXCEPT ![r] = <<>>]
    /\ UNCHANGED recorderVars

-----------------------------------------------------------------------------
(* The arithmetic of a report.                                             *)

Power[n \in Nat] == IF n = 0 THEN 1 ELSE 2 * Power[n - 1]

(* An int64 of Bits bits wraps around.                                     *)
Wrap(x) == ((x + Power[Bits - 1]) % Power[Bits]) - Power[Bits - 1]

(* A float64: the nearest number of Mantissa bits, ties to even.           *)
Round(x) ==
    LET size == IF x < 0 THEN -x ELSE x
        exp  == CHOOSE n \in 0 .. size :
                   size < Power[Mantissa + n] /\ \A m \in 0 .. n - 1 : size >= Power[Mantissa + m]
        ulp  == Power[exp]
        down == size \div ulp
        rest == 2 * (size % ulp)
        up   == rest > ulp \/ (rest = ulp /\ down % 2 = 1)
        near == ulp * (IF up THEN down + 1 ELSE down)
    IN  IF x < 0 THEN -near ELSE near

TotalTokens(e) == Wrap(e.first + e.second)

Savings(e) == Round(e.first - e.second)

Worth(kind, e) == IF kind = "tokens" THEN TotalTokens(e) ELSE Savings(e)

Plus(kind, x, y) == IF kind = "tokens" THEN Wrap(x + y) ELSE Round(x + y)

(* A hundred times the linear interpolation of numpy, over sorted values.  *)
percentile(sorted, p) ==
    LET n == Len(sorted)
        k == (n - 1) * p
        f == k \div 100 + 1
        c == IF f + 1 > n THEN n ELSE f + 1
    IN  100 * sorted[f] + (sorted[c] - sorted[f]) * (k % 100)

Empty == [count |-> 0, sum |-> 0, min |-> 0, max |-> 0, p95 |-> 0]

(* The values of a bucket are a function on their positions in the log;    *)
(* they are added in the order of the log, as savingsStatsOf does.  That   *)
(* statsOf adds sorted ones makes no difference to an int64.               *)
Sum(kind, vals) ==
    MapThenFoldSet(LAMBDA v, sum : Plus(kind, sum, v), 0, LAMBDA i : vals[i], Max, DOMAIN vals)

(* Mutant: the values are not sorted.                                      *)
Unsorted(vals) == [i \in 1 .. Cardinality(DOMAIN vals) |-> vals[SetToSortSeq(DOMAIN vals, <)[i]]]

Sorted(vals) ==
    LET N == 1 .. Cardinality(DOMAIN vals)
    IN  CHOOSE s \in {[i \in N |-> vals[p[i]]] : p \in Bijection(N, DOMAIN vals)} :
           \A i, j \in N : i < j => s[i] <= s[j]

(* The mean is the quotient of sum and count.                              *)
statsOf(kind, vals) ==
    LET sorted == Sorted(vals)
        n == Cardinality(DOMAIN vals)
    IN  IF n = 0 THEN Empty
        ELSE [count |-> n, sum |-> Sum(kind, vals),
              min |-> sorted[1], max |-> sorted[n], p95 |-> percentile(sorted, 95)]

isAccounted(tag) == tag # NoTag /\ (Known = {} \/ tag \in Known)

(* The worth of the records of entries that have one of tags.              *)
Bucket(kind, entries, tags) ==
    [i \in {j \in DOMAIN entries : entries[j].rec.tag \in tags} |-> Worth(kind, entries[i].rec)]

AllTags == Tags \cup {NoTag}

(* Mutant: only the untagged records are unaccounted.                      *)
UntaggedOnly(kind, entries) == Bucket(kind, entries, {NoTag})

Unaccounted(kind, entries) == Bucket(kind, entries, {t \in AllTags : ~ isAccounted(t)})

Report(kind, entries) ==
    LET seen == {e.rec.tag : e \in ToSet(entries)}
    IN  [tags |-> [t \in {u \in seen : isAccounted(u)} |->
                      statsOf(kind, Bucket(kind, entries, {t}))],
         unaccounted |-> statsOf(kind, Unaccounted(kind, entries)),
         total |-> statsOf(kind, Bucket(kind, entries, AllTags))]

-----------------------------------------------------------------------------
(* The specification.                                                      *)

RecordStep(g) ==
    \/ Enter(g) \/ LockLog(g) \/ AppendLog(g)
    \/ Emit(g) \/ EmitFails(g) \/ Unlock(g) \/ Return(g)

ReaderStep(r) == ReadLog(r) \/ ReturnReport(r)

Next ==
    \/ \E g \in Recorders, e \in Offered : Record(g, e) \/ Refuse(g, e)
    \/ \E g \in Recorders : RecordStep(g)
    \/ \E r \in Readers : Aggregate(r) \/ ReaderStep(r)

Spec == Init /\ [][Next]_vars

(***************************************************************************)
(* sync.RWMutex lets waiting readers in between two writers, and who holds *)
(* mu is scheduled.  Nothing is assumed of the sink: a write may hang.     *)
(***************************************************************************)
Fairness ==
    /\ \A g \in Recorders : WF_vars(AppendLog(g))
    /\ \A r \in Readers : SF_vars(ReadLog(r))

FairSpec == Spec /\ Fairness

-----------------------------------------------------------------------------
(* Properties.                                                             *)

(* The line of an entry of the log is in the sink.                         *)
Written(e) == <<e.by, e.nr>> \notin failed /\ ~(pc[e.by] = "emit" /\ nr[e.by] = e.nr)

(* How many of the calls of g are in the log.                              *)
Logged(g) == nr[g] - (IF pc[g] \in {"enter", "lock", "append"} THEN 1 ELSE 0)

(***************************************************************************)
(* The sink holds the records of the log in the order of the log, all but  *)
(* those whose write failed, which was reported, and the one being written *)
(* (telemetry.go 102-109, 124-126).                                        *)
(***************************************************************************)
SinkMirrorsLog ==
    HasSink =>
        /\ \A i \in DOMAIN log : Written(log[i]) <=> \E k \in DOMAIN sink : sink[k] = log[i]
        /\ \A k \in DOMAIN sink : \E i \in DOMAIN log : sink[k] = log[i]
        /\ \A k, l \in DOMAIN sink, i, j \in DOMAIN log :
              sink[k] = log[i] /\ sink[l] = log[j] /\ k < l => i < j

(***************************************************************************)
(* Every accepted record is in the log once, in the order of its caller's  *)
(* calls, whatever became of its line (telemetry.go 156-161).              *)
(***************************************************************************)
NothingDropped ==
    /\ \A g \in Recorders : \A n \in 1 .. Logged(g) :
          \E i \in DOMAIN log : log[i].by = g /\ log[i].nr = n
    /\ \A i \in DOMAIN log : log[i].nr \in 1 .. Logged(log[i].by)
    /\ \A i, j \in DOMAIN log : i < j /\ log[i].by = log[j].by => log[i].nr < log[j].nr

SumOfTags(rep) ==
    FoldFunction(LAMBDA x, y : Plus("tokens", x, y), 0, [t \in DOMAIN rep.tags |-> rep.tags[t].sum])

CountOfTags(rep) == FoldFunction(+, 0, [t \in DOMAIN rep.tags |-> rep.tags[t].count])

(***************************************************************************)
(* The tags and the unaccounted bucket add up to the total, in number and, *)
(* for tokens, in sum (telemetry.go 226-230, savings.go 240-241).          *)
(***************************************************************************)
Reconciles ==
    \A r \in Readers, kind \in {"tokens", "savings"} :
        LET rep == Report(kind, view[r])
        IN  /\ kind = "tokens" =>
                  Plus(kind, SumOfTags(rep), rep.unaccounted.sum) = rep.total.sum
            /\ CountOfTags(rep) + rep.unaccounted.count = rep.total.count

WithoutSum(stats) == [stats EXCEPT !.sum = 0]

(* A report without its sums.                                              *)
Unsummed(rep) ==
    [tags |-> [t \in DOMAIN rep.tags |-> WithoutSum(rep.tags[t])],
     unaccounted |-> WithoutSum(rep.unaccounted),
     total |-> WithoutSum(rep.total)]

(***************************************************************************)
(* The same records give the same report in whatever order they came       *)
(* (telemetry.go 234-238, savings.go 245-248): a report of tokens as it    *)
(* is, one of costs but for its sums, which are rounded in that order.     *)
(***************************************************************************)
OrderIrrelevant ==
    \A r \in Readers :
        LET D == DOMAIN view[r]
        IN  \A p \in Bijection(D, D) :
              LET permuted == [i \in D |-> view[r][p[i]]]
              IN  /\ Report("tokens", permuted) = Report("tokens", view[r])
                  /\ Unsummed(Report("savings", permuted))
                        = Unsummed(Report("savings", view[r]))

(***************************************************************************)
(* A sink that hangs stalls no reader (telemetry.go 97-98, 102-109).       *)
(***************************************************************************)
ReadersNotBlocked == \A r \in Readers : asking[r] = "wait" ~> asking[r] = "done"

-----------------------------------------------------------------------------
(***************************************************************************)
(* What the comments say that the code does not do.  Sums of costs are     *)
(* rounded after every record (savings.go 293-300), and TLC refutes both   *)
(* of these; OrderIrrelevant and Reconciles are what holds.                *)
(***************************************************************************)

(***************************************************************************)
(* "the same multiset of records always yields an identical Report         *)
(* regardless of insertion order" (savings.go 247-248):                    *)
(* MC_Telemetry_order.cfg.                                                 *)
(***************************************************************************)
SumsIgnoreOrder ==
    \A r \in Readers :
        LET D == DOMAIN view[r]
        IN  \A p \in Bijection(D, D) :
              Report("savings", [i \in D |-> view[r][p[i]]]) = Report("savings", view[r])

(***************************************************************************)
(* "Every summed field reconciles exactly with the accounted tags plus     *)
(* Unaccounted" (savings.go 240-241): MC_Telemetry_sums.cfg.               *)
(***************************************************************************)
CostsReconcile ==
    \A r \in Readers :
        LET rep == Report("savings", view[r])
        IN  \A t \in DOMAIN rep.tags : DOMAIN rep.tags = {t} =>
                Plus("savings", rep.tags[t].sum, rep.unaccounted.sum) = rep.total.sum

=============================================================================
