-------------------------- MODULE Telemetry_proofs --------------------------
(***************************************************************************)
(* Theorems about Telemetry for all recorders and readers, any number of   *)
(* calls, and a sink that takes, fails or hangs on any of them.            *)
(***************************************************************************)
EXTENDS Telemetry, FiniteSetTheorems, TLAPS

Valid(e) == e \in Offered /\ e.first >= 0 /\ e.second >= 0

(***************************************************************************)
(* Who holds which of the two locks, by where it is in Record; the record  *)
(* and the number of the call it is in.                                    *)
(***************************************************************************)
Serialized == {"lock", "append", "emit", "unlock"}

Locks(g) ==
    /\ pc[g] \in Serialized <=> writeMu = g
    /\ pc[g] = "append" <=> mu = g

InRecord(g) ==
    /\ pc[g] \in Inside => Valid(arg[g]) /\ nr[g] > 0
    /\ \A n \in Nat : <<g, n>> \in failed => n <= nr[g]
    /\ pc[g] \in {"enter", "lock", "append", "emit"} => <<g, nr[g]>> \notin failed

Typed == TypeOK /\ \A g \in Recorders : Locks(g) /\ InRecord(g)

LEMMA InitTyped == Init => Typed
<1> SUFFICES ASSUME Init PROVE Typed
  OBVIOUS
<1>1. TypeOK
  BY DEF Init, TypeOK
<1>2. \A g \in Recorders : Locks(g) /\ InRecord(g)
  BY TelemetryAssumption DEF Init, Locks, InRecord, Serialized, Inside
<1> QED
  BY <1>1, <1>2 DEF Typed

LEMMA AcceptedIsEntry ==
    ASSUME Typed, NEW g \in Recorders, pc[g] \in Inside
    PROVE  Accepted(g) \in Entry
  BY DEF Typed, TypeOK, InRecord, Valid, Accepted, Entry

LEMMA RecordTyped ==
    ASSUME Typed, NEW g \in Recorders, NEW e \in Offered, Record(g, e) \/ Refuse(g, e)
    PROVE  Typed'
<1> USE DEF Typed
<1>1. TypeOK'
  <2>1. CASE Record(g, e)
    <3>1. nr' \in [Recorders -> Nat] /\ arg' \in [Recorders -> Offered \cup {NoRec}]
      BY <2>1 DEF Record, TypeOK
    <3> QED
      BY <2>1, <3>1 DEF Record, Goto, TypeOK, Inside, readerVars
  <2>2. CASE Refuse(g, e)
    BY <2>2 DEF Refuse, Goto, TypeOK, Inside, readerVars
  <2> QED
    BY <2>1, <2>2
<1>2. ASSUME NEW r \in Recorders PROVE Locks(r)' /\ InRecord(r)'
  <2>1. CASE r = g
    <3>1. CASE Record(g, e)
      <4>1. /\ pc[g] = "idle" /\ pc'[g] = "enter" /\ arg'[g] = e /\ nr'[g] = nr[g] + 1
            /\ UNCHANGED <<mu, writeMu, failed>> /\ nr[g] \in Nat
        BY <3>1 DEF Record, Goto, TypeOK
      <4>2. Valid(e)
        <5>1. e.first \in Int /\ e.second \in Int
          BY TelemetryAssumption DEF Rec
        <5> QED
          BY <3>1, <5>1 DEF Record, Negative, Valid
      <4>3. \A n \in Nat : <<g, n>> \in failed => n <= nr[g]
        BY DEF InRecord
      <4> QED
        <5>1. Locks(g)'
          BY <4>1 DEF Locks, Serialized
        <5>2. \A n \in Nat : <<g, n>> \in failed' => n < nr'[g]
          BY <4>1, <4>3
        <5>3. nr'[g] \in Nat /\ nr'[g] > 0 /\ Valid(arg'[g])
          BY <4>1, <4>2
        <5>4. InRecord(g)'
          <6>1. <<g, nr'[g]>> \notin failed'
            BY <5>2, <5>3
          <6> QED
            BY <5>2, <5>3, <6>1 DEF InRecord, Valid
        <5> QED
          BY <2>1, <5>1, <5>4
    <3>2. CASE Refuse(g, e)
      <4>1. /\ pc[g] = "idle" /\ pc'[g] = "ErrNegative"
            /\ UNCHANGED <<mu, writeMu, failed, nr>>
        BY <3>2 DEF Refuse, Goto, TypeOK
      <4> QED
        BY <2>1, <4>1 DEF Locks, InRecord, Serialized, Inside
    <3> QED
      BY <3>1, <3>2
  <2>2. CASE r # g
    <3>1. /\ pc'[r] = pc[r] /\ arg'[r] = arg[r] /\ nr'[r] = nr[r]
          /\ UNCHANGED <<mu, writeMu, failed>>
      BY <2>2 DEF Record, Refuse, Goto, TypeOK
    <3> QED
      BY <3>1 DEF Locks, InRecord
  <2> QED
    BY <2>1, <2>2
<1> QED
  BY <1>1, <1>2

(* The steps under the locks.                                              *)
LEMMA StepLocks ==
    ASSUME Typed, NEW g \in Recorders, RecordStep(g)
    PROVE  \A r \in Recorders : Locks(r)'
<1> USE DEF Typed
<1>1. SUFFICES ASSUME NEW r \in Recorders PROVE Locks(r)'
  OBVIOUS
<1>2. Locks(r) /\ Locks(g) /\ pc \in [Recorders -> {"idle", "ok", "ErrNegative", "ErrSink"} \cup Inside]
  BY DEF TypeOK
<1>3. Nobody \notin Recorders
  BY TelemetryAssumption
<1>4. CASE Enter(g)
  BY <1>2, <1>3, <1>4 DEF Enter, Goto, Locks, Serialized
<1>5. CASE LockLog(g)
  BY <1>2, <1>3, <1>5 DEF LockLog, Goto, Locks, Serialized
<1>6. CASE AppendLog(g)
  BY <1>2, <1>3, <1>6 DEF AppendLog, Goto, Locks, Serialized
<1>7. CASE Emit(g) \/ EmitFails(g)
  BY <1>2, <1>3, <1>7 DEF Emit, EmitFails, Goto, Locks, Serialized
<1>8. CASE Unlock(g)
  BY <1>2, <1>3, <1>8 DEF Unlock, Goto, Locks, Serialized
<1>9. CASE Return(g)
  BY <1>2, <1>3, <1>9 DEF Return, Goto, Locks, Serialized
<1> QED
  BY <1>4, <1>5, <1>6, <1>7, <1>8, <1>9 DEF RecordStep

LEMMA StepInRecord ==
    ASSUME Typed, NEW g \in Recorders, RecordStep(g)
    PROVE  \A r \in Recorders : InRecord(r)'
<1> USE DEF Typed
<1>1. SUFFICES ASSUME NEW r \in Recorders PROVE InRecord(r)'
  OBVIOUS
<1>2. /\ InRecord(r) /\ InRecord(g) /\ nr[g] \in Nat /\ nr[r] \in Nat
      /\ pc \in [Recorders -> {"idle", "ok", "ErrNegative", "ErrSink"} \cup Inside]
  BY DEF TypeOK
<1>3. CASE Enter(g) \/ LockLog(g) \/ AppendLog(g) \/ Emit(g)
  BY <1>2, <1>3 DEF Enter, LockLog, AppendLog, Emit, Goto, InRecord, Inside
<1>4. CASE EmitFails(g)
  <2>1. /\ failed' = failed \cup {<<g, nr[g]>>} /\ UNCHANGED <<arg, nr>>
        /\ pc[g] = "emit" /\ pc' = [pc EXCEPT ![g] = "unlock"]
    BY <1>4 DEF EmitFails, Goto
  <2>2. \A n \in Nat : <<r, n>> \in failed' => n <= nr[r]
    BY <1>2, <2>1 DEF InRecord
  <2>3. pc'[r] \in {"enter", "lock", "append", "emit"} => r # g /\ <<r, nr[r]>> \notin failed'
    BY <1>2, <2>1 DEF InRecord
  <2> QED
    BY <1>2, <2>1, <2>2, <2>3 DEF InRecord, Inside
<1>5. CASE Unlock(g)
  BY <1>2, <1>5 DEF Unlock, Goto, InRecord, Inside
<1>6. CASE Return(g)
  <2>1. /\ UNCHANGED <<nr, failed>> /\ pc' = [pc EXCEPT ![g] = "idle"]
        /\ r # g => arg'[r] = arg[r]
    BY <1>6 DEF Return, Goto, TypeOK
  <2> QED
    BY <1>2, <2>1 DEF InRecord, Inside
<1> QED
  BY <1>3, <1>4, <1>5, <1>6 DEF RecordStep

LEMMA StepTyped == Typed /\ [Next]_vars => Typed'
<1> SUFFICES ASSUME Typed, [Next]_vars PROVE Typed'
  OBVIOUS
<1>1. ASSUME NEW g \in Recorders, RecordStep(g) PROVE Typed'
  <2>1. TypeOK'
    <3> USE DEF Typed
    <3>1. CASE Enter(g) \/ LockLog(g)
      BY <3>1 DEF Enter, LockLog, Goto, TypeOK, Inside, readerVars
    <3>4. CASE EmitFails(g)
      BY <3>4 DEF EmitFails, Goto, TypeOK, Inside, readerVars
    <3>5. CASE Unlock(g)
      BY <3>5 DEF Unlock, Goto, TypeOK, Inside, readerVars
    <3>6. CASE Return(g)
      BY <3>6 DEF Return, Goto, TypeOK, Inside, readerVars
    <3>2. CASE AppendLog(g)
      <4>1. Accepted(g) \in Entry
        BY <3>2, AcceptedIsEntry DEF AppendLog, Inside
      <4> QED
        BY <3>2, <4>1 DEF AppendLog, Goto, TypeOK, Inside, readerVars
    <3>3. CASE Emit(g)
      <4>1. Accepted(g) \in Entry
        BY <3>3, AcceptedIsEntry DEF Emit, Inside
      <4> QED
        BY <3>3, <4>1 DEF Emit, Goto, TypeOK, Inside, readerVars
    <3> QED
      BY <1>1, <3>1, <3>2, <3>3, <3>4, <3>5, <3>6 DEF RecordStep
  <2> QED
    BY <1>1, <2>1, StepLocks, StepInRecord DEF Typed
<1>2. ASSUME NEW r \in Readers, Aggregate(r) \/ ReaderStep(r) PROVE Typed'
  <2>1. TypeOK'
    <3>1. CASE Aggregate(r)
      BY <3>1 DEF Aggregate, recorderVars, Typed, TypeOK
    <3>2. CASE ReadLog(r)
      BY <3>2 DEF ReadLog, recorderVars, Typed, TypeOK
    <3>3. CASE ReturnReport(r)
      <4>1. <<>> \in Seq(Entry)
        OBVIOUS
      <4> QED
        BY <3>3, <4>1 DEF ReturnReport, recorderVars, Typed, TypeOK
    <3> QED
      BY <1>2, <3>1, <3>2, <3>3 DEF ReaderStep
  <2>2. UNCHANGED recorderVars
    BY <1>2 DEF Aggregate, ReaderStep, ReadLog, ReturnReport, recorderVars
  <2> QED
    BY <2>1, <2>2 DEF Typed, Locks, InRecord, recorderVars
<1>3. CASE UNCHANGED vars
  BY <1>3 DEF vars, recorderVars, readerVars, Typed, TypeOK, Locks, InRecord
<1> QED
  BY <1>1, <1>2, <1>3, RecordTyped DEF Next

(***************************************************************************)
(* Only records that were validated are in the log, the sink and the       *)
(* reports, and no two goroutines are in a critical section.               *)
(***************************************************************************)
LEMMA AlwaysTyped == Spec => []Typed
  BY InitTyped, StepTyped, PTL DEF Spec

THEOREM TypeCorrect == Spec => []TypeOK
<1>1. Typed => TypeOK
  BY DEF Typed
<1> QED
  BY <1>1, AlwaysTyped, PTL

-----------------------------------------------------------------------------
(***************************************************************************)
(* The log and the sink.  While a line is being written its record is the  *)
(* last of the log: nobody appends until writeMu is released.              *)
(***************************************************************************)
Emitting(g) ==
    pc[g] = "emit" => HasSink /\ Len(log) # 0 /\ log[Len(log)] = Accepted(g)

Ledger ==
    /\ \A g \in Recorders : Emitting(g)
    /\ NothingDropped
    /\ SinkMirrorsLog

LEMMA InitLedger == Init => Ledger
  BY DEF Init, Ledger, Emitting, NothingDropped, SinkMirrorsLog, Logged

LEMMA LogEntries ==
    ASSUME TypeOK
    PROVE  \A i \in DOMAIN log : log[i] \in Entry /\ log[i].by \in Recorders /\ log[i].nr \in Nat
<1>1. \A e \in Entry : e.by \in Recorders /\ e.nr \in Nat
  BY DEF Entry
<1>2. \A i \in DOMAIN log : log[i] \in Entry
  BY DEF TypeOK
<1> QED
  BY <1>1, <1>2

(* Entries of one caller with one number are one entry.                    *)
LEMMA EntriesDistinct ==
    ASSUME Typed, NothingDropped, NEW i \in DOMAIN log, NEW j \in DOMAIN log,
           log[i].by = log[j].by, log[i].nr = log[j].nr
    PROVE  i = j
<1>1. i \in Nat /\ j \in Nat
  BY DEF Typed, TypeOK
<1>2. log[i].nr \in Nat /\ log[j].nr \in Nat
  BY LogEntries DEF Typed
<1>3. i < j \/ j < i \/ i = j
  BY <1>1
<1>4. i < j => log[i].nr < log[j].nr
  BY DEF NothingDropped
<1>5. j < i => log[j].nr < log[i].nr
  BY DEF NothingDropped
<1> QED
  BY <1>2, <1>3, <1>4, <1>5

(* A step that touches neither the log nor the sink, nor what they say.    *)
LEMMA LedgerKept ==
    ASSUME Typed, Ledger, UNCHANGED <<log, sink>>,
           \A g \in Recorders : Logged(g)' = Logged(g),
           \A i \in DOMAIN log : Written(log[i])' <=> Written(log[i]),
           \A g \in Recorders : Emitting(g)'
    PROVE  Ledger'
<1>1. \A i \in DOMAIN log : log[i].by \in Recorders
  BY LogEntries DEF Typed
<1>2. NothingDropped'
  BY <1>1 DEF Ledger, NothingDropped
<1>3. SinkMirrorsLog'
  BY DEF Ledger, SinkMirrorsLog
<1> QED
  BY <1>2, <1>3 DEF Ledger

LEMMA QuietLedger ==
    ASSUME Typed, Ledger, NEW g \in Recorders, NEW e,
           \/ Record(g, e) \/ Refuse(g, e) \/ Enter(g) \/ LockLog(g) \/ EmitFails(g)
           \/ Unlock(g) \/ Return(g)
    PROVE  Ledger'
<1> USE DEF Typed
<1>1. UNCHANGED <<log, sink>>
  BY DEF Record, Refuse, Enter, LockLog, EmitFails, Unlock, Return
<1>2. /\ nr[g] \in Nat /\ nr \in [Recorders -> Nat]
      /\ pc \in [Recorders -> {"idle", "ok", "ErrNegative", "ErrSink"} \cup Inside]
  BY DEF TypeOK
<1>3. \A r \in Recorders \ {g} : /\ pc'[r] = pc[r] /\ nr'[r] = nr[r] /\ arg'[r] = arg[r]
                                 /\ \A n : <<r, n>> \in failed' <=> <<r, n>> \in failed
  BY DEF Record, Refuse, Enter, LockLog, EmitFails, Unlock, Return, Goto, TypeOK
<1>4. /\ \/ nr'[g] = nr[g] /\ (pc[g] \in {"enter", "lock", "append"} <=>
                                  pc'[g] \in {"enter", "lock", "append"})
         \/ nr'[g] = nr[g] + 1 /\ pc[g] = "idle" /\ pc'[g] = "enter"
      /\ pc'[g] # "emit"
      /\ \/ pc[g] # "emit" /\ failed' = failed
         \/ pc[g] = "emit" /\ nr'[g] = nr[g] /\ failed' = failed \cup {<<g, nr[g]>>}
  <2>1. CASE Record(g, e)
    BY <1>2, <2>1 DEF Record, Goto
  <2>2. CASE Refuse(g, e) \/ Enter(g) \/ LockLog(g) \/ Return(g)
    BY <1>2, <2>2 DEF Refuse, Enter, LockLog, Return, Goto
  <2>3. CASE EmitFails(g)
    BY <1>2, <2>3 DEF EmitFails, Goto
  <2>4. CASE Unlock(g)
    BY <1>2, <2>4 DEF Unlock, Goto
  <2> QED
    BY <2>1, <2>2, <2>3, <2>4
<1>5. ASSUME NEW r \in Recorders PROVE Logged(r)' = Logged(r)
  <2>1. CASE r = g
    BY <1>2, <1>4, <2>1 DEF Logged
  <2>2. CASE r # g
    BY <1>3, <2>2 DEF Logged
  <2> QED
    BY <2>1, <2>2
<1>6. ASSUME NEW i \in DOMAIN log PROVE Written(log[i])' <=> Written(log[i])
  <2>1. log[i].by \in Recorders
    BY LogEntries
  <2>2. CASE log[i].by = g
    BY <1>1, <1>4, <2>2 DEF Written
  <2>3. CASE log[i].by # g
    BY <1>1, <1>3, <2>1, <2>3 DEF Written
  <2> QED
    BY <2>2, <2>3
<1>7. ASSUME NEW r \in Recorders PROVE Emitting(r)'
  <2>1. CASE r = g
    BY <1>4, <2>1 DEF Emitting
  <2>2. CASE r # g
    BY <1>1, <1>3, <2>2 DEF Ledger, Emitting, Accepted
  <2> QED
    BY <2>1, <2>2
<1> QED
  BY <1>1, <1>5, <1>6, <1>7, LedgerKept

(***************************************************************************)
(* The append: the new entry is the latest of its caller, and its line is  *)
(* still to be written.                                                    *)
(***************************************************************************)
LEMMA AppendLedger ==
    ASSUME Typed, Ledger, NEW g \in Recorders, AppendLog(g)
    PROVE  Ledger'
<1> USE DEF Typed
<1> DEFINE n == Len(log)
           a == Accepted(g)
           LoggedNext(r) == nr'[r] - (IF pc'[r] \in {"enter", "lock", "append"} THEN 1 ELSE 0)
           WrittenNext(e) == <<e.by, e.nr>> \notin failed' /\ ~(pc'[e.by] = "emit" /\ nr'[e.by] = e.nr)
<1>1. /\ pc[g] = "append" /\ log' = Append(log, a)
      /\ pc' = [pc EXCEPT ![g] = IF HasSink THEN "emit" ELSE "unlock"]
      /\ UNCHANGED <<writeMu, sink, arg, nr, failed>>
  BY DEF AppendLog, Goto
<1>2. /\ a \in Entry /\ a.by = g /\ a.nr = nr[g] /\ n \in Nat /\ log \in Seq(Entry)
      /\ nr[g] \in Nat /\ nr[g] > 0
  <2>1. a \in Entry
    BY <1>1, AcceptedIsEntry DEF Inside
  <2>2. a.by = g /\ a.nr = nr[g]
    BY DEF Accepted
  <2>3. n \in Nat /\ log \in Seq(Entry) /\ nr[g] \in Nat
    BY DEF TypeOK
  <2>4. nr[g] > 0
    BY <1>1 DEF InRecord, Inside
  <2> QED
    BY <2>1, <2>2, <2>3, <2>4
<1> HIDE DEF a
<1>3. /\ DOMAIN log = 1 .. n /\ DOMAIN log' = 1 .. n + 1
      /\ \A i \in 1 .. n : log'[i] = log[i]
      /\ log'[n + 1] = a /\ Len(log') = n + 1
  BY <1>1, <1>2
<1>4. \A r \in Recorders \ {g} : pc'[r] = pc[r]
  BY <1>1 DEF TypeOK
<1>5. pc'[g] = IF HasSink THEN "emit" ELSE "unlock"
  BY <1>1 DEF TypeOK
<1>6. /\ \A r \in Recorders \ {g} : LoggedNext(r) = Logged(r)
      /\ Logged(g) = nr[g] - 1 /\ LoggedNext(g) = nr[g]
  <2>1. \A r \in Recorders \ {g} : LoggedNext(r) = Logged(r)
    BY <1>1, <1>4 DEF Logged
  <2>2. Logged(g) = nr[g] - 1
    BY <1>1 DEF Logged
  <2>3. LoggedNext(g) = nr[g]
    BY <1>1, <1>2, <1>5
  <2> QED
    BY <2>1, <2>2, <2>3
<1>l. \A r : Logged(r)' = LoggedNext(r)
  BY DEF Logged
<1> HIDE DEF LoggedNext
<1>7. \A i \in 1 .. n : log[i] \in Entry /\ log[i].by \in Recorders /\ log[i].nr \in Nat
  BY <1>3, LogEntries
<1>8. \A i \in 1 .. n : log[i].by = g => log[i].nr < nr[g]
  BY <1>2, <1>3, <1>6, <1>7 DEF Ledger, NothingDropped
<1>9. NothingDropped'
  <2>1. ASSUME NEW r \in Recorders, NEW k \in 1 .. LoggedNext(r)
        PROVE  \E i \in DOMAIN log' : log'[i].by = r /\ log'[i].nr = k
    <3>1. CASE k \in 1 .. Logged(r)
      <4>1. PICK i \in 1 .. n : log[i].by = r /\ log[i].nr = k
        BY <1>3, <3>1 DEF Ledger, NothingDropped
      <4> QED
        BY <1>2, <1>3, <4>1
    <3>2. CASE k \notin 1 .. Logged(r)
      <4>1. r = g /\ k = nr[g]
        BY <1>2, <1>6, <3>2
      <4>2. n + 1 \in DOMAIN log'
        BY <1>2, <1>3
      <4> QED
        BY <1>2, <1>3, <4>1, <4>2
    <3> QED
      BY <3>1, <3>2
  <2>2. ASSUME NEW i \in 1 .. n + 1
        PROVE  log'[i].nr \in 1 .. LoggedNext(log'[i].by)
    <3>1. CASE i = n + 1
      BY <1>2, <1>3, <1>6, <3>1
    <3>2. CASE i # n + 1
      <4>1. i \in 1 .. n /\ log'[i] = log[i] /\ log[i].nr \in 1 .. Logged(log[i].by)
        BY <1>2, <1>3, <3>2 DEF Ledger, NothingDropped
      <4>2. log[i].by = g => log[i].nr \in 1 .. nr[g]
        BY <1>2, <1>6, <4>1
      <4>3. log[i].by \in Recorders
        BY <1>7, <4>1
      <4> QED
        BY <1>6, <4>1, <4>2, <4>3
    <3> QED
      BY <3>1, <3>2
  <2>3. ASSUME NEW i \in 1 .. n + 1, NEW j \in 1 .. n + 1, i < j, log'[i].by = log'[j].by
        PROVE  log'[i].nr < log'[j].nr
    <3>1. i \in 1 .. n /\ log'[i] = log[i]
      BY <1>2, <1>3, <2>3
    <3>2. CASE j = n + 1
      BY <1>2, <1>3, <1>8, <2>3, <3>1, <3>2
    <3>3. CASE j # n + 1
      <4>1. j \in 1 .. n /\ log'[j] = log[j]
        BY <1>2, <1>3, <3>3
      <4> QED
        BY <1>3, <2>3, <3>1, <4>1 DEF Ledger, NothingDropped
    <3> QED
      BY <3>2, <3>3
  <2> QED
    BY <1>3, <1>l, <2>1, <2>2, <2>3 DEF NothingDropped
<1>10. ASSUME HasSink PROVE SinkMirrorsLog'
  <2>1. ASSUME NEW i \in 1 .. n PROVE WrittenNext(log'[i]) <=> Written(log[i])
    <3>1. log'[i] = log[i] /\ log[i].by \in Recorders
      BY <1>3, <1>7
    <3>2. CASE log[i].by = g
      <4>1. log[i].nr # nr[g]
        BY <1>2, <1>7, <1>8, <3>2
      <4> QED
        BY <1>1, <3>1, <3>2, <4>1 DEF Written
    <3>3. CASE log[i].by # g
      BY <1>1, <1>4, <3>1, <3>3 DEF Written
    <3> QED
      BY <3>2, <3>3
  <2>2. ~WrittenNext(a)
    BY <1>1, <1>2, <1>5, <1>10 DEF Written
  <2>3. \A k \in DOMAIN sink : \E i \in 1 .. n : sink[k] = log[i]
    BY <1>3, <1>10 DEF Ledger, SinkMirrorsLog
  <2>4. \A k \in DOMAIN sink : sink[k] # a
    BY <1>2, <1>7, <1>8, <2>3
  <2>5. ASSUME NEW i \in 1 .. n + 1
        PROVE  WrittenNext(log'[i]) <=> \E k \in DOMAIN sink : sink[k] = log'[i]
    <3>1. CASE i = n + 1
      BY <1>3, <2>2, <2>4, <3>1
    <3>2. CASE i # n + 1
      <4>1. i \in 1 .. n /\ log'[i] = log[i]
        BY <1>2, <1>3, <3>2
      <4>2. Written(log[i]) <=> \E k \in DOMAIN sink : sink[k] = log[i]
        BY <1>3, <1>10, <4>1 DEF Ledger, SinkMirrorsLog
      <4> QED
        BY <2>1, <4>1, <4>2
    <3> QED
      BY <3>1, <3>2
  <2>6. \A k \in DOMAIN sink : \E i \in 1 .. n + 1 : sink[k] = log'[i]
    <3> SUFFICES ASSUME NEW k \in DOMAIN sink PROVE \E i \in 1 .. n + 1 : sink[k] = log'[i]
      OBVIOUS
    <3>1. PICK i \in 1 .. n : sink[k] = log[i]
      BY <2>3
    <3>2. i \in 1 .. n + 1
      BY <1>2
    <3> QED
      BY <1>3, <3>1, <3>2
  <2>7. ASSUME NEW k \in DOMAIN sink, NEW l \in DOMAIN sink, NEW i \in 1 .. n + 1,
               NEW j \in 1 .. n + 1, sink[k] = log'[i], sink[l] = log'[j], k < l
        PROVE  i < j
    <3>1. i # n + 1 /\ j # n + 1
      BY <1>3, <2>4, <2>7
    <3>2. i \in 1 .. n /\ j \in 1 .. n /\ log'[i] = log[i] /\ log'[j] = log[j]
      BY <1>2, <1>3, <3>1
    <3> QED
      BY <1>3, <1>10, <2>7, <3>2 DEF Ledger, SinkMirrorsLog
  <2> QED
    BY <1>1, <1>3, <2>5, <2>6, <2>7 DEF SinkMirrorsLog, Written
<1>11. ASSUME NEW r \in Recorders PROVE Emitting(r)'
  <2>1. CASE r = g
    <3>1. a' = a
      BY <1>1 DEF a, Accepted
    <3> QED
      BY <1>2, <1>3, <1>5, <2>1, <3>1 DEF Emitting, a
  <2>2. CASE r # g
    <3>1. pc[r] # "emit"
      BY <1>1, <2>2 DEF Locks, Serialized
    <3> QED
      BY <1>4, <2>2, <3>1 DEF Emitting
  <2> QED
    BY <2>1, <2>2
<1> QED
  BY <1>9, <1>10, <1>11 DEF Ledger, SinkMirrorsLog

(* The write: the line of the last entry goes behind all others.           *)
LEMMA EmitLedger ==
    ASSUME Typed, Ledger, NEW g \in Recorders, Emit(g)
    PROVE  Ledger'
<1> USE DEF Typed
<1> DEFINE n == Len(log)
           m == Len(sink)
           a == Accepted(g)
           LoggedNext(r) == nr'[r] - (IF pc'[r] \in {"enter", "lock", "append"} THEN 1 ELSE 0)
           WrittenNext(e) == <<e.by, e.nr>> \notin failed' /\ ~(pc'[e.by] = "emit" /\ nr'[e.by] = e.nr)
<1>1. /\ pc[g] = "emit" /\ sink' = Append(sink, a)
      /\ pc' = [pc EXCEPT ![g] = "unlock"]
      /\ UNCHANGED <<log, mu, writeMu, arg, nr, failed>>
  BY DEF Emit, Goto
<1>2. /\ a \in Entry /\ a.by = g /\ a.nr = nr[g] /\ n \in Nat /\ log \in Seq(Entry)
      /\ m \in Nat /\ sink \in Seq(Entry)
  <2>1. a \in Entry
    BY <1>1, AcceptedIsEntry DEF Inside
  <2>2. a.by = g /\ a.nr = nr[g]
    BY DEF Accepted
  <2> QED
    BY <2>1, <2>2 DEF TypeOK
<1> HIDE DEF a
<1>3. HasSink /\ n # 0 /\ log[n] = a
  BY <1>1 DEF Ledger, Emitting, a
<1>4. /\ DOMAIN log = 1 .. n /\ n \in 1 .. n /\ DOMAIN sink = 1 .. m /\ DOMAIN sink' = 1 .. m + 1
      /\ \A k \in 1 .. m : sink'[k] = sink[k]
      /\ sink'[m + 1] = a
  BY <1>1, <1>2, <1>3
<1>5. pc'[g] = "unlock" /\ \A r \in Recorders \ {g} : pc'[r] = pc[r]
  BY <1>1 DEF TypeOK
<1>6. \A i \in 1 .. n : log[i] = a <=> i = n
  BY <1>3, <1>4, EntriesDistinct DEF Ledger
<1>7. \A i \in 1 .. n : log[i].by \in Recorders /\ (log[i].by = g /\ log[i].nr = nr[g] => i = n)
  <2>1. \A i \in 1 .. n : log[i].by \in Recorders
    BY <1>4, LogEntries
  <2>2. \A i \in 1 .. n : log[i].by = g /\ log[i].nr = nr[g] => i = n
    BY <1>2, <1>3, <1>4, EntriesDistinct DEF Ledger
  <2> QED
    BY <2>1, <2>2
<1>8. /\ \A i \in 1 .. n : i # n => (WrittenNext(log[i]) <=> Written(log[i]))
      /\ ~Written(log[n]) /\ WrittenNext(log[n])
  <2>1. ASSUME NEW i \in 1 .. n, i # n PROVE WrittenNext(log[i]) <=> Written(log[i])
    <3>1. CASE log[i].by = g
      BY <1>1, <1>7, <2>1, <3>1 DEF Written
    <3>2. CASE log[i].by # g
      BY <1>1, <1>5, <1>7, <3>2 DEF Written
    <3> QED
      BY <3>1, <3>2
  <2>2. ~Written(log[n])
    BY <1>1, <1>2, <1>3 DEF Written
  <2>3. WrittenNext(log[n])
    BY <1>1, <1>2, <1>3, <1>5 DEF Written, InRecord
  <2> QED
    BY <2>1, <2>2, <2>3
<1>9. \A k \in 1 .. m : sink[k] # a
  BY <1>3, <1>4, <1>8 DEF Ledger, SinkMirrorsLog
<1>10. NothingDropped'
  <2>1. \A r \in Recorders : LoggedNext(r) = Logged(r)
    BY <1>1, <1>5 DEF Logged
  <2>2. \A r : Logged(r)' = LoggedNext(r)
    BY DEF Logged
  <2> HIDE DEF LoggedNext
  <2>3. ASSUME NEW r \in Recorders, NEW k \in 1 .. LoggedNext(r)
        PROVE  \E i \in 1 .. n : log[i].by = r /\ log[i].nr = k
    <3>1. k \in 1 .. Logged(r)
      BY <2>1
    <3> QED
      BY <1>4, <3>1 DEF Ledger, NothingDropped
  <2>4. ASSUME NEW i \in 1 .. n PROVE log[i].nr \in 1 .. LoggedNext(log[i].by)
    <3>1. log[i].nr \in 1 .. Logged(log[i].by)
      BY <1>4 DEF Ledger, NothingDropped
    <3>2. LoggedNext(log[i].by) = Logged(log[i].by)
      BY <1>7, <2>1
    <3> QED
      BY <3>1, <3>2
  <2>5. \A i, k \in 1 .. n : i < k /\ log[i].by = log[k].by => log[i].nr < log[k].nr
    BY <1>4 DEF Ledger, NothingDropped
  <2>6. UNCHANGED log /\ DOMAIN log' = 1 .. n
    BY <1>1, <1>4
  <2> QED
    BY <2>2, <2>3, <2>4, <2>5, <2>6 DEF NothingDropped
<1>11. SinkMirrorsLog'
  <2>1. ASSUME NEW i \in 1 .. n
        PROVE  WrittenNext(log[i]) <=> \E k \in 1 .. m + 1 : sink'[k] = log[i]
    <3>1. CASE i = n
      <4>1. m + 1 \in 1 .. m + 1 /\ sink'[m + 1] = log[i]
        BY <1>2, <1>3, <1>4, <3>1
      <4> QED
        BY <1>8, <3>1, <4>1
    <3>2. CASE i # n
      <4>1. WrittenNext(log[i]) <=> \E k \in 1 .. m : sink[k] = log[i]
        BY <1>3, <1>4, <1>8, <3>2 DEF Ledger, SinkMirrorsLog
      <4>2. \A k \in 1 .. m + 1 : sink'[k] = log[i] => k \in 1 .. m
        BY <1>2, <1>4, <1>6, <3>2
      <4>3. \A k \in 1 .. m : k \in 1 .. m + 1
        BY <1>2
      <4> QED
        BY <1>4, <4>1, <4>2, <4>3
    <3> QED
      BY <3>1, <3>2
  <2>2. ASSUME NEW k \in 1 .. m + 1 PROVE \E i \in 1 .. n : sink'[k] = log[i]
    <3>1. CASE k = m + 1
      BY <1>3, <1>4, <3>1
    <3>2. CASE k # m + 1
      <4>1. k \in 1 .. m
        BY <1>2, <3>2
      <4> QED
        BY <1>3, <1>4, <4>1 DEF Ledger, SinkMirrorsLog
    <3> QED
      BY <3>1, <3>2
  <2>3. ASSUME NEW k \in 1 .. m + 1, NEW l \in 1 .. m + 1, NEW i \in 1 .. n, NEW j \in 1 .. n,
               sink'[k] = log[i], sink'[l] = log[j], k < l
        PROVE  i < j
    <3>1. k \in 1 .. m /\ sink[k] = log[i]
      BY <1>2, <1>4, <2>3
    <3>2. CASE l = m + 1
      <4>1. j = n /\ i # n
        BY <1>4, <1>6, <1>9, <2>3, <3>1, <3>2
      <4> QED
        BY <1>2, <4>1
    <3>3. CASE l # m + 1
      <4>1. l \in 1 .. m /\ sink[l] = log[j]
        BY <1>2, <1>4, <2>3, <3>3
      <4> QED
        BY <1>3, <1>4, <2>3, <3>1, <4>1 DEF Ledger, SinkMirrorsLog
    <3> QED
      BY <3>2, <3>3
  <2>4. /\ UNCHANGED log
        /\ DOMAIN log' = 1 .. n
        /\ DOMAIN sink' = 1 .. m + 1
    BY <1>1, <1>4
  <2>5. \A i : Written(log[i])' <=> WrittenNext(log'[i])
    BY DEF Written
  <2> HIDE DEF WrittenNext, n, m
  <2>6. \A i \in DOMAIN log' : Written(log[i])' <=> \E k \in DOMAIN sink' : sink'[k] = log'[i]
    BY <2>1, <2>4, <2>5
  <2>7. \A k \in DOMAIN sink' : \E i \in DOMAIN log' : sink'[k] = log'[i]
    BY <2>2, <2>4
  <2>8. \A k, l \in DOMAIN sink', i, j \in DOMAIN log' :
           sink'[k] = log'[i] /\ sink'[l] = log'[j] /\ k < l => i < j
    BY <2>3, <2>4
  <2> QED
    BY <2>6, <2>7, <2>8 DEF SinkMirrorsLog
<1>12. ASSUME NEW r \in Recorders PROVE Emitting(r)'
  <2>1. CASE r = g
    BY <1>5, <2>1 DEF Emitting
  <2>2. CASE r # g
    BY <1>1, <1>5, <2>2 DEF Ledger, Emitting, Accepted
  <2> QED
    BY <2>1, <2>2
<1> QED
  BY <1>10, <1>11, <1>12 DEF Ledger

LEMMA StepLedger == Typed /\ Ledger /\ [Next]_vars => Ledger'
<1> SUFFICES ASSUME Typed, Ledger, [Next]_vars PROVE Ledger'
  OBVIOUS
<1>1. ASSUME UNCHANGED recorderVars PROVE Ledger'
  BY <1>1 DEF recorderVars, Ledger, Emitting, Accepted, NothingDropped, SinkMirrorsLog, Logged, Written
<1>2. ASSUME NEW g \in Recorders, NEW e \in Offered, Record(g, e) \/ Refuse(g, e)
      PROVE  Ledger'
  BY <1>2, QuietLedger
<1>3. ASSUME NEW g \in Recorders, RecordStep(g) PROVE Ledger'
  <2>1. CASE AppendLog(g) \/ Emit(g)
    BY <2>1, AppendLedger, EmitLedger
  <2>2. CASE ~(AppendLog(g) \/ Emit(g))
    BY <1>3, <2>2, QuietLedger DEF RecordStep
  <2> QED
    BY <2>1, <2>2
<1>4. ASSUME NEW r \in Readers, Aggregate(r) \/ ReaderStep(r) PROVE Ledger'
  BY <1>1, <1>4 DEF Aggregate, ReaderStep, ReadLog, ReturnReport
<1> QED
  BY <1>1, <1>2, <1>3, <1>4 DEF Next, vars

(***************************************************************************)
(* However many goroutines record at a time and whichever writes fail, the *)
(* log keeps every accepted record once, in the order of its caller.       *)
(***************************************************************************)
THEOREM LogIsComplete == Spec => []NothingDropped
<1>1. Spec => []Ledger
  BY InitLedger, StepLedger, AlwaysTyped, PTL DEF Spec
<1> QED
  BY <1>1, PTL DEF Ledger

(***************************************************************************)
(* The sink has the lines of the log, in its order, but for the failed and *)
(* the pending ones.                                                       *)
(***************************************************************************)
THEOREM SinkIsTheLog == Spec => []SinkMirrorsLog
<1>1. Spec => []Ledger
  BY InitLedger, StepLedger, AlwaysTyped, PTL DEF Spec
<1> QED
  BY <1>1, PTL DEF Ledger

-----------------------------------------------------------------------------
(***************************************************************************)
(* The arithmetic of reports, for logs of any length: induction and        *)
(* recursion over numbers and finite sets first.                           *)
(***************************************************************************)

(* The order of the natural numbers, as a relation.                        *)
Below == {p \in Nat \X Nat : p[1] < p[2]}

LEMMA LeastNatural ==
    ASSUME NEW T, T \subseteq Nat, T # {}
    PROVE  \E x \in T : \A y \in T : x <= y
<1>1. IsWellFoundedOn(Below, Nat)
  BY NatLessThanWellFounded DEF OpToRel, Below
<1>2. PICK x \in T : \A y \in T : ~ (<<y, x>> \in Below)
  BY <1>1, WFMin
<1>3. ASSUME NEW y \in T PROVE x <= y
  <2>1. x \in Nat /\ y \in Nat
    OBVIOUS
  <2>2. y < x => <<y, x>> \in Below
    BY <2>1 DEF Below
  <2> QED
    BY <1>2, <2>1, <2>2
<1> QED
  BY <1>3

(* Induction, stated with a set where the library has an operator.         *)
LEMMA NumberInduction ==
    ASSUME NEW Q, 0 \in Q, \A n \in Nat : n \in Q => n + 1 \in Q
    PROVE  Nat \subseteq Q
<1> SUFFICES ASSUME Nat \ Q # {} PROVE FALSE
  OBVIOUS
<1>1. PICK n \in Nat \ Q : \A m \in Nat \ Q : n <= m
  BY LeastNatural
<1>2. n # 0 /\ n - 1 \in Nat
  BY <1>1
<1>3. n - 1 \in Q
  BY <1>1, <1>2
<1> QED
  BY <1>1, <1>2, <1>3

(* A finite set is reached from its subsets of one element less.           *)
LEMMA SetInduction ==
    ASSUME NEW S, IsFiniteSet(S), NEW Q,
           \A T \in SUBSET S : (\A x \in T : T \ {x} \in Q) => T \in Q
    PROVE  SUBSET S \subseteq Q
<1> SUFFICES ASSUME NEW T0 \in SUBSET S, T0 \notin Q PROVE FALSE
  OBVIOUS
<1> DEFINE Sizes == {Cardinality(T) : T \in (SUBSET S) \ Q}
<1>1. \A T \in SUBSET S : IsFiniteSet(T) /\ Cardinality(T) \in Nat
  BY FS_Subset, FS_CardinalityType
<1>2. PICK T \in (SUBSET S) \ Q : \A U \in (SUBSET S) \ Q : Cardinality(T) <= Cardinality(U)
  <2>1. Sizes \subseteq Nat /\ Sizes # {}
    BY <1>1
  <2> HIDE DEF Sizes
  <2>2. PICK n \in Sizes : \A m \in Sizes : n <= m
    BY <2>1, LeastNatural
  <2>3. PICK T \in (SUBSET S) \ Q : n = Cardinality(T)
    BY <2>2 DEF Sizes
  <2>4. \A U \in (SUBSET S) \ Q : Cardinality(U) \in Sizes
    BY DEF Sizes
  <2> QED
    BY <2>2, <2>3, <2>4
<1>3. ASSUME NEW x \in T PROVE T \ {x} \in Q
  <2>1. Cardinality(T \ {x}) = Cardinality(T) - 1
    BY <1>1, FS_RemoveElement
  <2> QED
    BY <1>1, <1>2, <2>1
<1>4. T \in SUBSET S /\ T \notin Q
  BY <1>2
<1> QED
  BY <1>3, <1>4

(***************************************************************************)
(* g is the fold over the subsets of S that takes first[T] from T and      *)
(* combines it with the fold over the rest.                                *)
(***************************************************************************)
Folds(g, S, V, base, first, step) ==
    /\ g \in [SUBSET S -> V]
    /\ \A T \in SUBSET S :
          g[T] = IF T = {} THEN base ELSE step[<<first[T], g[T \ {first[T]}]>>]

LEMMA SetRecursion ==
    ASSUME NEW S, IsFiniteSet(S), NEW V, NEW base \in V,
           NEW first, \A T \in SUBSET S : T # {} => first[T] \in T,
           NEW step \in [S \X V -> V]
    PROVE  \E g : Folds(g, S, V, base, first, step)
<1> DEFINE Then(g, T) == IF T = {} THEN base ELSE step[<<first[T], g[T \ {first[T]}]>>]
           Upto == {n \in Nat : \E g \in [SUBSET S -> V] :
                      \A T \in SUBSET S : Cardinality(T) <= n => g[T] = Then(g, T)}
<1>1. \A T \in SUBSET S : IsFiniteSet(T) /\ Cardinality(T) \in Nat /\ (Cardinality(T) = 0 <=> T = {})
  BY FS_Subset, FS_CardinalityType, FS_EmptySet
<1>2. 0 \in Upto
  <2>1. [T \in SUBSET S |-> base] \in [SUBSET S -> V]
    OBVIOUS
  <2>2. \A T \in SUBSET S : Cardinality(T) <= 0 => base = Then([U \in SUBSET S |-> base], T)
    BY <1>1
  <2> QED
    BY <2>1, <2>2
<1>3. ASSUME NEW n \in Nat, n \in Upto PROVE n + 1 \in Upto
  <2>1. PICK g \in [SUBSET S -> V] :
           \A T \in SUBSET S : Cardinality(T) <= n => g[T] = Then(g, T)
    BY <1>3
  <2> DEFINE h == [T \in SUBSET S |-> Then(g, T)]
  <2>2. h \in [SUBSET S -> V]
    OBVIOUS
  <2>3. ASSUME NEW T \in SUBSET S, Cardinality(T) <= n + 1, T # {}
        PROVE  h[T \ {first[T]}] = g[T \ {first[T]}]
    <3>1. T \ {first[T]} \in SUBSET S /\ Cardinality(T \ {first[T]}) <= n
      BY <1>1, <2>3, FS_RemoveElement
    <3> QED
      BY <2>1, <3>1
  <2>4. \A T \in SUBSET S : Cardinality(T) <= n + 1 => h[T] = Then(h, T)
    BY <2>3
  <2> HIDE DEF h
  <2>5. n + 1 \in Nat
    OBVIOUS
  <2> QED
    BY <2>2, <2>4, <2>5
<1>4. Cardinality(S) \in Upto
  <2> HIDE DEF Upto
  <2> QED
    BY <1>1, <1>2, <1>3, NumberInduction
<1>5. \A T \in SUBSET S : Cardinality(T) <= Cardinality(S)
  BY FS_Subset
<1> QED
  BY <1>4, <1>5 DEF Folds

(* f is the iteration of step from base.                                   *)
Iterates(f, V, base, step) ==
    /\ f \in [Nat -> V] /\ f[0] = base
    /\ \A n \in Nat : f[n + 1] = step[<<n, f[n]>>]

LEMMA NumberRecursion ==
    ASSUME NEW V, NEW base \in V, NEW step \in [Nat \X V -> V]
    PROVE  \E f : Iterates(f, V, base, step)
<1> DEFINE Good(n, g) == /\ g \in [Nat -> V] /\ g[0] = base
                         /\ \A i \in Nat : i < n => g[i + 1] = step[<<i, g[i]>>]
           Upto == {n \in Nat : \E g : Good(n, g)}
           pick(n) == CHOOSE g : Good(n, g)
           f == [n \in Nat |-> pick(n)[n]]
<1>1. 0 \in Upto
  <2>1. Good(0, [n \in Nat |-> base])
    OBVIOUS
  <2> QED
    BY <2>1
<1>2. ASSUME NEW n \in Nat, n \in Upto PROVE n + 1 \in Upto
  <2>1. PICK g : Good(n, g)
    BY <1>2
  <2> DEFINE h == [g EXCEPT ![n + 1] = step[<<n, g[n]>>]]
  <2>2. h \in [Nat -> V] /\ h[0] = base
    BY <2>1
  <2>3. ASSUME NEW i \in Nat, i < n + 1 PROVE h[i + 1] = step[<<i, h[i]>>]
    BY <2>1, <2>3
  <2> HIDE DEF h
  <2> QED
    BY <2>2, <2>3
<1>3. \A n \in Nat : Good(n, pick(n))
  <2>1. Nat \subseteq Upto
    <3> HIDE DEF Upto
    <3> QED
      BY <1>1, <1>2, NumberInduction
  <2> QED
    BY <2>1
<1> HIDE DEF pick
<1>4. ASSUME NEW n \in Nat PROVE pick(n + 1)[n] = pick(n)[n]
  <2> DEFINE Same == {i \in Nat : i <= n => pick(n + 1)[i] = pick(n)[i]}
  <2>1. Good(n, pick(n)) /\ Good(n + 1, pick(n + 1))
    BY <1>3
  <2>2. 0 \in Same
    BY <2>1
  <2>3. ASSUME NEW i \in Nat, i \in Same PROVE i + 1 \in Same
    <3>1. CASE i + 1 <= n
      <4>1. /\ pick(n)[i + 1] = step[<<i, pick(n)[i]>>]
            /\ pick(n + 1)[i + 1] = step[<<i, pick(n + 1)[i]>>]
            /\ pick(n + 1)[i] = pick(n)[i]
        BY <2>1, <2>3, <3>1
      <4> QED
        BY <4>1
    <3>2. CASE ~(i + 1 <= n)
      BY <3>2
    <3> QED
      BY <3>1, <3>2
  <2>4. n \in Same
    <3> HIDE DEF Same
    <3> QED
      BY <2>2, <2>3, NumberInduction
  <2> QED
    BY <2>4
<1>5. f \in [Nat -> V] /\ f[0] = base
  BY <1>3
<1>6. ASSUME NEW n \in Nat PROVE f[n + 1] = step[<<n, f[n]>>]
  <2>1. pick(n + 1)[n + 1] = step[<<n, pick(n + 1)[n]>>]
    BY <1>3
  <2> QED
    BY <1>4, <2>1
<1> HIDE DEF f
<1> QED
  BY <1>5, <1>6 DEF Iterates

-----------------------------------------------------------------------------
(* The recursive function of the powers of two exists.                     *)
LEMMA PowerType ==
    /\ Power \in [Nat -> Nat \ {0}]
    /\ Power[0] = 1
    /\ \A n \in Nat : Power[n + 1] = 2 * Power[n]
<1> DEFINE V == Nat \ {0}
           step == [p \in Nat \X V |-> 2 * p[2]]
<1>1. step \in [Nat \X V -> V] /\ 1 \in V
  OBVIOUS
<1>2. PICK f : Iterates(f, V, 1, step)
  <2> HIDE DEF V, step
  <2> QED
    BY <1>1, NumberRecursion
<1>3. \A n \in Nat : f[n + 1] = 2 * f[n]
  BY <1>2 DEF Iterates
<1>4. \A n \in Nat : f[n] = IF n = 0 THEN 1 ELSE 2 * f[n - 1]
  <2>1. \A n \in Nat : n # 0 => n - 1 \in Nat /\ n = (n - 1) + 1
    OBVIOUS
  <2> QED
    BY <1>2, <1>3, <2>1 DEF Iterates
<1>5. f = [n \in Nat |-> IF n = 0 THEN 1 ELSE 2 * f[n - 1]]
  BY <1>2, <1>4 DEF Iterates
<1>6. Power = [n \in Nat |-> IF n = 0 THEN 1 ELSE 2 * Power[n - 1]]
  BY <1>5 DEF Power
<1>7. Power[0] = 1 /\ \A n \in Nat : Power[n + 1] = 2 * Power[n]
  BY <1>6
<1>8. \A n \in Nat : Power[n] \in Nat \ {0}
  <2> DEFINE Q == {n \in Nat : Power[n] \in Nat \ {0}}
  <2>1. 0 \in Q /\ \A n \in Nat : n \in Q => n + 1 \in Q
    BY <1>7
  <2>2. Nat \subseteq Q
    <3> HIDE DEF Q
    <3> QED
      BY <2>1, NumberInduction
  <2> QED
    BY <2>2
<1> QED
  BY <1>6, <1>7, <1>8

LEMMA Division ==
    ASSUME NEW x \in Int, NEW M \in Nat \ {0}
    PROVE  /\ x % M \in 0 .. M - 1 /\ x \div M \in Int
           /\ x = (M * (x \div M)) + (x % M)
  OBVIOUS

LEMMA RemainderIsUnique ==
    ASSUME NEW x \in Int, NEW M \in Nat \ {0}, NEW q \in Int, NEW r \in 0 .. M - 1, x = (M * q) + r
    PROVE  x % M = r
<1> DEFINE d == q - (x \div M)
<1>1. x % M \in 0 .. M - 1 /\ d \in Int
  BY Division
<1>2. M * d = (x % M) - r
  BY Division, SMTT(20)
<1> HIDE DEF d
<1>3. CASE d >= 1
  <2>1. M * d >= M
    BY <1>1, <1>3, SMTT(20)
  <2> QED
    BY <1>1, <1>2, <2>1
<1>4. CASE d <= -1
  <2>1. M * d <= -M
    BY <1>1, <1>4, SMTT(20)
  <2> QED
    BY <1>1, <1>2, <2>1
<1>5. CASE d = 0
  <2>1. M * d = 0
    BY <1>5
  <2> QED
    BY <1>1, <1>2, <2>1
<1> QED
  BY <1>1, <1>3, <1>4, <1>5

(***************************************************************************)
(* Wrapping on the way changes nothing: an int64 sum may be taken in any   *)
(* order.                                                                  *)
(***************************************************************************)
LEMMA WrapsOnce ==
    ASSUME NEW x \in Int, NEW y \in Int
    PROVE  Wrap(x) \in Int /\ Wrap(Wrap(x) + y) = Wrap(x + y) /\ Wrap(0) = 0
<1> DEFINE M == Power[Bits]
           H == Power[Bits - 1]
<1>1. M \in Nat \ {0} /\ H \in Nat \ {0} /\ M = 2 * H
  <2>1. Bits - 1 \in Nat /\ Bits \in Nat /\ Bits = (Bits - 1) + 1
    BY TelemetryAssumption
  <2> QED
    BY <2>1, PowerType
<1> HIDE DEF M, H
<1>2. \A z : Wrap(z) = ((z + H) % M) - H
  BY DEF Wrap, M, H
<1>3. \A z \in Int : z + H \in Int /\ (z + H) % M \in 0 .. M - 1 /\ Wrap(z) \in Int
  <2>1. ASSUME NEW z \in Int
        PROVE  z + H \in Int /\ (z + H) % M \in 0 .. M - 1
    BY <1>1, Division
  <2> QED
    BY <1>1, <1>2, <2>1
<1>4. Wrap(Wrap(x) + y) = Wrap(x + y)
  <2> DEFINE a == x + H
             s == a % M
             u == a \div M
             b == s + y
             r == b % M
             v == b \div M
  <2>1. a \in Int /\ s \in 0 .. M - 1 /\ u \in Int /\ a = (M * u) + s
    <3>1. a \in Int
      BY <1>1
    <3> HIDE DEF a
    <3> QED
      BY <1>1, <3>1, Division
  <2>2. b \in Int /\ r \in 0 .. M - 1 /\ v \in Int /\ b = (M * v) + r
    <3>1. b \in Int
      BY <2>1
    <3> HIDE DEF b
    <3> QED
      BY <1>1, <3>1, Division
  <2>3. b = s + y /\ Wrap(x) + y + H = b /\ x + y + H = a + y
    BY <1>1, <1>2, <2>1
  <2> HIDE DEF a, s, u, b, r, v
  <2>4. a + y = (M * (u + v)) + r
    <3> DEFINE Mu == M * u
               Mv == M * v
               Muv == M * (u + v)
    <3>1. Muv = Mu + Mv /\ Mu \in Int /\ Mv \in Int
      BY <1>1, <2>1, <2>2, SMTT(20)
    <3>2. a = Mu + s /\ b = Mv + r
      BY <2>1, <2>2
    <3>3. a \in Int /\ s \in Int /\ b \in Int /\ r \in Int
      BY <1>1, <2>1, <2>2
    <3> HIDE DEF Mu, Mv, Muv
    <3>4. a + y = Muv + r
      BY <2>3, <3>1, <3>2, <3>3
    <3> QED
      BY <3>4 DEF Muv
  <2>5. (a + y) % M = r
    <3>1. a + y \in Int /\ u + v \in Int
      BY <2>1, <2>2
    <3> QED
      BY <1>1, <2>2, <2>4, <3>1, RemainderIsUnique
  <2>6. b % M = r
    BY DEF r
  <2> QED
    BY <1>2, <2>3, <2>5, <2>6
<1>5. Wrap(0) = 0
  <2>1. 0 + H = (M * 0) + H /\ H \in 0 .. M - 1
    BY <1>1
  <2>2. (0 + H) % M = H
    BY <1>1, <2>1, RemainderIsUnique
  <2> QED
    BY <1>1, <1>2, <2>2
<1> QED
  BY <1>3, <1>4, <1>5

LEMMA GreatestIsIn ==
    ASSUME NEW n \in Nat, NEW T \in SUBSET (1 .. n), T # {}
    PROVE  Max(T) \in T /\ \A x \in T : x <= Max(T)
<1> DEFINE Depths == {n - x : x \in T}
<1>1. Depths \subseteq Nat /\ Depths # {}
  <2>1. \A x \in T : n - x \in Nat
    OBVIOUS
  <2>2. PICK x \in T : TRUE
    OBVIOUS
  <2>3. n - x \in Depths
    OBVIOUS
  <2> QED
    BY <2>1, <2>3
<1>2. PICK d \in Depths : \A e \in Depths : d <= e
  <2> HIDE DEF Depths
  <2> QED
    BY <1>1, LeastNatural
<1>3. PICK x \in T : d = n - x
  BY <1>2
<1>4. ASSUME NEW y \in T PROVE x >= y
  <2>1. n - y \in Depths
    OBVIOUS
  <2> QED
    BY <1>2, <1>3, <2>1
<1>5. Max(T) \in T /\ \A y \in T : Max(T) >= y
  BY <1>3, <1>4 DEF Max
<1> QED
  BY <1>5

(***************************************************************************)
(* sums tells the sum of vals at every set of positions: any of them may   *)
(* come last.                                                              *)
(***************************************************************************)
Sums(sums, vals) ==
    /\ sums \in [SUBSET DOMAIN vals -> Int]
    /\ sums[{}] = 0
    /\ \A T \in SUBSET DOMAIN vals : \A x \in T : sums[T] = Wrap(sums[T \ {x}] + vals[x])

(* The fold of a report in the order of the log is such a sum.             *)
LEMMA SumOfTokens ==
    ASSUME NEW n \in Nat, NEW D \in SUBSET (1 .. n), NEW vals \in [D -> Int]
    PROVE  \E sums : Sums(sums, vals) /\ Sum("tokens", vals) = sums[D]
<1> DEFINE first == [T \in SUBSET D |-> Max(T)]
           step == [p \in D \X Int |-> Wrap(p[2] + vals[p[1]])]
           Added(g) == [T \in SUBSET D |-> IF T = {} THEN 0 ELSE Wrap(g[T \ {Max(T)}] + vals[Max(T)])]
           sums == CHOOSE g : g = Added(g)
<1>1. IsFiniteSet(D) /\ \A T \in SUBSET D : IsFiniteSet(T)
  <2>1. IsFiniteSet(1 .. n)
    BY FS_Interval
  <2>2. IsFiniteSet(D)
    BY <2>1, FS_Subset
  <2> QED
    BY <2>2, FS_Subset
<1>2. \A T \in SUBSET D : T # {} => Max(T) \in T /\ Max(T) \in D /\ T \ {Max(T)} \in SUBSET D
  BY GreatestIsIn
<1>3. \A x \in Int : Wrap(x) \in Int
  BY WrapsOnce
<1>4. PICK g : Folds(g, D, Int, 0, first, step)
  <2>1. \A T \in SUBSET D : T # {} => first[T] \in T
    BY <1>2
  <2>2. step \in [D \X Int -> Int]
    <3>1. ASSUME NEW p \in D \X Int PROVE Wrap(p[2] + vals[p[1]]) \in Int
      <4>1. p[2] \in Int /\ vals[p[1]] \in Int
        OBVIOUS
      <4>2. p[2] + vals[p[1]] \in Int
        BY <4>1
      <4> QED
        BY <1>3, <4>2
    <3> QED
      BY <3>1
  <2>3. 0 \in Int
    OBVIOUS
  <2> HIDE DEF first, step
  <2> QED
    BY <1>1, <2>1, <2>2, <2>3, SetRecursion
<1>5. g = Added(g)
  <2>1. \A T \in SUBSET D : T # {} => step[<<first[T], g[T \ {first[T]}]>>] = Wrap(g[T \ {Max(T)}] + vals[Max(T)])
    BY <1>2, <1>4 DEF Folds
  <2> HIDE DEF step
  <2> QED
    BY <1>4, <2>1 DEF Folds
<1>6. sums = Added(sums)
  <2> HIDE DEF Added
  <2> QED
    BY <1>5
<1>7. Sum("tokens", vals) = sums[D]
  BY DEF Sum, MapThenFoldSet, Plus
<1> HIDE DEF sums
<1>8. /\ sums[{}] = 0
      /\ \A T \in SUBSET D : T # {} => sums[T] = Wrap(sums[T \ {Max(T)}] + vals[Max(T)])
  BY <1>6
<1>9. \A T \in SUBSET D : sums[T] \in Int
  <2> DEFINE Q == {T \in SUBSET D : sums[T] \in Int}
  <2>1. ASSUME NEW T \in SUBSET D, \A x \in T : T \ {x} \in Q PROVE T \in Q
    <3>1. CASE T = {}
      BY <1>8, <3>1
    <3>2. CASE T # {}
      <4>1. vals[Max(T)] \in Int /\ sums[T \ {Max(T)}] \in Int
        BY <1>2, <2>1, <3>2
      <4>2. sums[T \ {Max(T)}] + vals[Max(T)] \in Int
        BY <4>1
      <4> QED
        BY <1>3, <1>8, <3>2, <4>2
    <3> QED
      BY <3>1, <3>2
  <2>2. SUBSET D \subseteq Q
    <3> HIDE DEF Q
    <3> QED
      BY <1>1, <2>1, SetInduction
  <2> QED
    BY <2>2
<1>10. \A T \in SUBSET D : \A x \in T : sums[T] = Wrap(sums[T \ {x}] + vals[x])
  <2> DEFINE Q == {T \in SUBSET D : \A x \in T : sums[T] = Wrap(sums[T \ {x}] + vals[x])}
  <2>1. ASSUME NEW T \in SUBSET D, \A x \in T : T \ {x} \in Q PROVE T \in Q
    <3> SUFFICES ASSUME NEW x \in T, x # Max(T) PROVE sums[T] = Wrap(sums[T \ {x}] + vals[x])
      BY <1>8
    <3> DEFINE m == Max(T)
               U == (T \ {m}) \ {x}
    <3>1. m \in T /\ x \in T \ {m} /\ T \ {m} \in SUBSET D /\ T \ {x} \in SUBSET D /\ T \ {x} # {}
      BY <1>2
    <3>2. sums[T \ {m}] = Wrap(sums[U] + vals[x])
      BY <2>1, <3>1
    <3>3. Max(T \ {x}) = m /\ (T \ {x}) \ {m} = U
      <4>1. Max(T \ {x}) \in T \ {x} /\ \A y \in T \ {x} : y <= Max(T \ {x})
        BY <3>1, GreatestIsIn
      <4>2. \A y \in T : y <= m
        BY <3>1, GreatestIsIn
      <4>3. m \in T \ {x} /\ Max(T \ {x}) \in T
        BY <3>1, <4>1
      <4>4. Max(T \ {x}) = m
        <5> DEFINE k == Max(T \ {x})
        <5>1. m <= k /\ k <= m /\ k \in 1 .. n /\ m \in 1 .. n
          BY <4>1, <4>2, <4>3
        <5> HIDE DEF k, m
        <5>2. k = m
          BY <5>1
        <5> QED
          BY <5>2 DEF k
      <4> QED
        BY <4>4
    <3>4. sums[T \ {x}] = Wrap(sums[U] + vals[m])
      BY <1>8, <3>1, <3>3
    <3>5. sums[T] = Wrap(sums[T \ {m}] + vals[m])
      BY <1>8, <3>1
    <3> DEFINE u == sums[U]
               v == vals[x]
               w == vals[m]
    <3>6. u \in Int /\ v \in Int /\ w \in Int
      BY <1>9, <3>1
    <3> HIDE DEF u, v, w
    <3>7. Wrap(Wrap(u + v) + w) = Wrap(Wrap(u + w) + v)
      <4>1. u + v \in Int /\ u + w \in Int /\ (u + v) + w = (u + w) + v
        BY <3>6
      <4> QED
        BY <3>6, <4>1, WrapsOnce
    <3> QED
      BY <3>2, <3>4, <3>5, <3>7 DEF u, v, w
  <2>2. SUBSET D \subseteq Q
    <3> HIDE DEF Q
    <3> QED
      BY <1>1, <2>1, SetInduction
  <2> QED
    BY <2>2
<1>11. sums \in [SUBSET D -> Int]
  BY <1>6, <1>9
<1>12. Sums(sums, vals)
  BY <1>8, <1>10, <1>11 DEF Sums
<1> QED
  BY <1>7, <1>12

(* The image of T.                                                         *)
Through(p, T) == {p[x] : x \in T}

(* Sums of the same values at other positions.                             *)
LEMMA SumsCarry ==
    ASSUME NEW vals, NEW others, NEW sums, NEW othersSums, NEW p,
           IsFiniteSet(DOMAIN vals), Sums(sums, vals), Sums(othersSums, others),
           p \in Injection(DOMAIN vals, DOMAIN others),
           \A x \in DOMAIN vals : vals[x] = others[p[x]]
    PROVE  \A T \in SUBSET DOMAIN vals : sums[T] = othersSums[Through(p, T)]
<1> DEFINE D == DOMAIN vals
           Image(T) == Through(p, T)
           Q == {T \in SUBSET D : sums[T] = othersSums[Image(T)]}
<1>1. ASSUME NEW T \in SUBSET D, \A x \in T : T \ {x} \in Q PROVE T \in Q
  <2>1. CASE T = {}
    BY <2>1 DEF Sums, Through
  <2>2. CASE T # {}
    <3>1. PICK x \in T : TRUE
      BY <2>2
    <3>2. sums[T] = Wrap(sums[T \ {x}] + vals[x]) /\ sums[T \ {x}] = othersSums[Image(T \ {x})]
      BY <1>1, <3>1 DEF Sums
    <3>3. p[x] \in Image(T) /\ Image(T) \subseteq DOMAIN others
      BY <3>1 DEF Injection, Through
    <3>4. Image(T) \ {p[x]} = Image(T \ {x})
      BY <3>1 DEF Injection, IsInjective, Through
    <3>5. othersSums[Image(T)] = Wrap(othersSums[Image(T) \ {p[x]}] + others[p[x]])
      BY <3>3 DEF Sums
    <3> QED
      BY <3>2, <3>4, <3>5
  <2> QED
    BY <2>1, <2>2
<1>2. SUBSET D \subseteq Q
  <2> HIDE DEF Q
  <2> QED
    BY <1>1, SetInduction
<1> QED
  BY <1>2

(* Sums of disjoint sets of positions.                                     *)
LEMMA SumsAdd ==
    ASSUME NEW E, IsFiniteSet(E), NEW vals \in [E -> Int], NEW sums, Sums(sums, vals)
    PROVE  \A A, B \in SUBSET E : A \cap B = {} => sums[A \cup B] = Wrap(sums[A] + sums[B])
<1> SUFFICES ASSUME NEW A \in SUBSET E, NEW B \in SUBSET E, A \cap B = {}
             PROVE  sums[A \cup B] = Wrap(sums[A] + sums[B])
  OBVIOUS
<1> DEFINE D == (E) \ A
           Q == {T \in SUBSET D : sums[A \cup T] = Wrap(sums[A] + sums[T])}
<1>1. \A T \in SUBSET E : sums[T] \in Int
  BY DEF Sums
<1>2. sums[A] = Wrap(sums[A] + 0)
  <2>1. CASE A = {}
    <3>1. sums[A] = 0 /\ Wrap(0) = 0
      BY <2>1, WrapsOnce DEF Sums
    <3> QED
      BY <3>1
  <2>2. CASE A # {}
    <3>1. PICK x \in A : TRUE
      BY <2>2
    <3> DEFINE z == sums[A \ {x}] + vals[x]
    <3>2. sums[A] = Wrap(z) /\ sums[A \ {x}] \in Int /\ vals[x] \in Int
      BY <1>1, <3>1 DEF Sums
    <3>3. z \in Int
      BY <3>2
    <3> HIDE DEF z
    <3>4. Wrap(Wrap(z) + 0) = Wrap(z + 0) /\ z + 0 = z
      BY <3>3, WrapsOnce
    <3> QED
      BY <3>2, <3>4
  <2> QED
    BY <2>1, <2>2
<1>3. ASSUME NEW T \in SUBSET D, \A x \in T : T \ {x} \in Q PROVE T \in Q
  <2>1. CASE T = {}
    <3>1. A \cup T = A /\ sums[T] = 0
      BY <2>1 DEF Sums
    <3> QED
      BY <1>2, <3>1
  <2>2. CASE T # {}
    <3>1. PICK x \in T : TRUE
      BY <2>2
    <3> DEFINE a == sums[A]
               u == sums[T \ {x}]
               v == vals[x]
    <3>2. sums[A \cup (T \ {x})] = Wrap(a + u)
      BY <1>3
    <3>3. (A \cup T) \ {x} = A \cup (T \ {x}) /\ x \in A \cup T /\ A \cup T \in SUBSET E
      BY <3>1
    <3>4. sums[A \cup T] = Wrap(Wrap(a + u) + v)
      <4>1. sums[A \cup T] = Wrap(sums[(A \cup T) \ {x}] + vals[x])
        BY <3>3 DEF Sums
      <4> QED
        BY <3>2, <3>3, <4>1
    <3>5. sums[T] = Wrap(u + v)
      BY <3>1 DEF Sums
    <3>6. a \in Int /\ u \in Int /\ v \in Int
      BY <1>1, <3>1
    <3> HIDE DEF a, u, v
    <3>7. Wrap(Wrap(a + u) + v) = Wrap(a + Wrap(u + v))
      <4>1. Wrap(Wrap(a + u) + v) = Wrap((a + u) + v)
        <5>1. a + u \in Int
          BY <3>6
        <5> QED
          BY <3>6, <5>1, WrapsOnce
      <4>2. Wrap(Wrap(u + v) + a) = Wrap((u + v) + a) /\ Wrap(u + v) \in Int
        <5>1. u + v \in Int
          BY <3>6
        <5> QED
          BY <3>6, <5>1, WrapsOnce
      <4>3. Wrap(u + v) + a = a + Wrap(u + v) /\ (u + v) + a = (a + u) + v
        BY <3>6, <4>2
      <4> QED
        BY <4>1, <4>2, <4>3
    <3> QED
      BY <3>4, <3>5, <3>7 DEF a
  <2> QED
    BY <2>1, <2>2
<1>4. SUBSET D \subseteq Q
  <2>1. IsFiniteSet(D)
    BY FS_Subset
  <2> HIDE DEF D, Q
  <2> QED
    BY <1>3, <2>1, SetInduction
<1>5. B \in SUBSET D
  OBVIOUS
<1> QED
  BY <1>4, <1>5

-----------------------------------------------------------------------------
(***************************************************************************)
(* The positions of the records that have one of tags, and what the bucket *)
(* of them adds up to.                                                     *)
(***************************************************************************)
Positions(entries, tags) == {j \in DOMAIN entries : entries[j].rec.tag \in tags}

Tokens(entries) == [i \in DOMAIN entries |-> TotalTokens(entries[i].rec)]

LEMMA EntriesHaveTokens ==
    ASSUME NEW entries \in Seq(Entry)
    PROVE  /\ Tokens(entries) \in [DOMAIN entries -> Int]
           /\ DOMAIN Tokens(entries) = DOMAIN entries
           /\ Len(entries) \in Nat /\ DOMAIN entries = 1 .. Len(entries)
           /\ IsFiniteSet(DOMAIN entries)
           /\ \A tags : Positions(entries, tags) \in SUBSET DOMAIN entries
           /\ \A i \in DOMAIN entries : entries[i].rec.tag \in AllTags
<1>1. Len(entries) \in Nat /\ DOMAIN entries = 1 .. Len(entries)
  OBVIOUS
<1>2. IsFiniteSet(DOMAIN entries)
  BY <1>1, FS_Interval
<1>3. ASSUME NEW i \in DOMAIN entries
      PROVE  TotalTokens(entries[i].rec) \in Int /\ entries[i].rec.tag \in AllTags
  <2>1. entries[i] \in Entry
    OBVIOUS
  <2>2. entries[i].rec \in Rec
    BY <2>1, TelemetryAssumption DEF Entry
  <2>3. entries[i].rec.first + entries[i].rec.second \in Int
    BY <2>2 DEF Rec
  <2> QED
    BY <2>2, <2>3, WrapsOnce DEF TotalTokens, Rec, AllTags
<1> QED
  BY <1>1, <1>2, <1>3 DEF Tokens, Positions

(* One sum serves every bucket of a log.                                   *)
LEMMA BucketSums ==
    ASSUME NEW entries \in Seq(Entry)
    PROVE  \E sums : /\ Sums(sums, Tokens(entries))
                     /\ \A tags : Sum("tokens", Bucket("tokens", entries, tags))
                                     = sums[Positions(entries, tags)]
<1> DEFINE all == Tokens(entries)
           n == Len(entries)
<1>1. /\ n \in Nat /\ all \in [1 .. n -> Int] /\ DOMAIN all = 1 .. n /\ DOMAIN entries = 1 .. n
      /\ \A tags : Positions(entries, tags) \in SUBSET (1 .. n)
  BY EntriesHaveTokens
<1>2. PICK sums : Sums(sums, all)
  BY <1>1, SumOfTokens
<1>3. ASSUME NEW tags
      PROVE  Sum("tokens", Bucket("tokens", entries, tags)) = sums[Positions(entries, tags)]
  <2> DEFINE D == Positions(entries, tags)
             part == Bucket("tokens", entries, tags)
             same == [x \in D |-> x]
  <2>1. part = [i \in D |-> all[i]]
    BY <1>1 DEF Bucket, Positions, Worth, Tokens
  <2>2. part \in [D -> Int] /\ D \in SUBSET (1 .. n) /\ DOMAIN part = D
    BY <1>1, <2>1
  <2>3. PICK own : Sums(own, part) /\ Sum("tokens", part) = own[D]
    BY <1>1, <2>2, SumOfTokens
  <2>4. same \in Injection(DOMAIN part, DOMAIN all)
    BY <1>1, <2>2 DEF Injection, IsInjective
  <2>5. \A x \in DOMAIN part : part[x] = all[same[x]]
    BY <2>1
  <2>6. IsFiniteSet(DOMAIN part)
    <3>1. IsFiniteSet(1 .. n)
      BY <1>1, FS_Interval
    <3> QED
      BY <2>2, <3>1, FS_Subset
  <2>7. Through(same, D) = D
    BY DEF Through
  <2> HIDE DEF part, same, all, D
  <2>8. \A T \in SUBSET DOMAIN part : own[T] = sums[Through(same, T)]
    BY <1>2, <2>3, <2>4, <2>5, <2>6, SumsCarry
  <2>9. own[D] = sums[Through(same, D)]
    BY <2>2, <2>8
  <2> QED
    BY <2>3, <2>7, <2>9 DEF part, D
<1> QED
  BY <1>2, <1>3

LEMMA StatsOfBucket ==
    ASSUME NEW entries \in Seq(Entry), NEW kind \in {"tokens", "savings"}, NEW tags
    PROVE  LET stats == statsOf(kind, Bucket(kind, entries, tags))
               at == Positions(entries, tags)
           IN  /\ stats.count = Cardinality(at)
               /\ stats.sum = IF at = {} THEN 0 ELSE Sum(kind, Bucket(kind, entries, tags))
<1> DEFINE at == Positions(entries, tags)
           vals == Bucket(kind, entries, tags)
<1>1. DOMAIN vals = at
  BY DEF Bucket, Positions
<1>2. Cardinality(at) = 0 <=> at = {}
  BY EntriesHaveTokens, FS_Subset, FS_EmptySet
<1> HIDE DEF at, vals
<1>3. CASE at = {}
  BY <1>1, <1>2, <1>3 DEF statsOf, Empty, at, vals
<1>4. CASE at # {}
  BY <1>1, <1>2, <1>4 DEF statsOf, at, vals
<1> QED
  BY <1>3, <1>4 DEF at

(***************************************************************************)
(* What the folds over the tags of a report amount to: some tag comes      *)
(* last, after all others.                                                 *)
(***************************************************************************)
LEMMA FoldOfTokens ==
    ASSUME NEW U, IsFiniteSet(U), NEW worth \in [U -> Int]
    PROVE  \E sums : /\ sums[{}] = 0
                     /\ \A T \in SUBSET U : T # {} => \E t \in T : sums[T] = Wrap(worth[t] + sums[T \ {t}])
                     /\ FoldFunction(LAMBDA x, y : Plus("tokens", x, y), 0, worth) = sums[U]
<1> DEFINE any(T) == CHOOSE t \in T : TRUE
           first == [T \in SUBSET U |-> any(T)]
           step == [p \in U \X Int |-> Wrap(worth[p[1]] + p[2])]
           Added(g) == [T \in SUBSET U |-> IF T = {} THEN 0 ELSE Wrap(worth[any(T)] + g[T \ {any(T)}])]
           sums == CHOOSE g : g = Added(g)
<1>1. \A T \in SUBSET U : T # {} => any(T) \in T
  OBVIOUS
<1> HIDE DEF any
<1>2. PICK g : Folds(g, U, Int, 0, first, step)
  <2>1. \A T \in SUBSET U : T # {} => first[T] \in T
    BY <1>1
  <2>2. step \in [U \X Int -> Int]
    <3>1. ASSUME NEW p \in U \X Int PROVE Wrap(worth[p[1]] + p[2]) \in Int
      <4>1. p[2] \in Int /\ worth[p[1]] \in Int
        OBVIOUS
      <4>2. worth[p[1]] + p[2] \in Int
        BY <4>1
      <4> QED
        BY <4>2, WrapsOnce
    <3> QED
      BY <3>1
  <2>3. 0 \in Int
    OBVIOUS
  <2> HIDE DEF first, step
  <2> QED
    BY <2>1, <2>2, <2>3, SetRecursion
<1>3. g = Added(g)
  <2>1. \A T \in SUBSET U : T # {} => step[<<first[T], g[T \ {first[T]}]>>] = Wrap(worth[any(T)] + g[T \ {any(T)}])
    BY <1>1, <1>2 DEF Folds
  <2> HIDE DEF step
  <2> QED
    BY <1>2, <2>1 DEF Folds
<1>4. sums = Added(sums)
  <2> HIDE DEF Added
  <2> QED
    BY <1>3
<1>5. FoldFunction(LAMBDA x, y : Plus("tokens", x, y), 0, worth) = sums[U]
  BY DEF FoldFunction, FoldFunctionOnSet, MapThenFoldSet, Plus, any
<1> HIDE DEF sums
<1>6. sums[{}] = 0 /\ \A T \in SUBSET U : T # {} => sums[T] = Wrap(worth[any(T)] + sums[T \ {any(T)}])
  BY <1>4
<1> QED
  BY <1>1, <1>5, <1>6

LEMMA FoldOfCounts ==
    ASSUME NEW U, IsFiniteSet(U), NEW worth \in [U -> Nat]
    PROVE  \E sums : /\ sums[{}] = 0
                     /\ \A T \in SUBSET U : T # {} => \E t \in T : sums[T] = worth[t] + sums[T \ {t}]
                     /\ FoldFunction(+, 0, worth) = sums[U]
<1> DEFINE any(T) == CHOOSE t \in T : TRUE
           first == [T \in SUBSET U |-> any(T)]
           step == [p \in U \X Nat |-> worth[p[1]] + p[2]]
           Added(g) == [T \in SUBSET U |-> IF T = {} THEN 0 ELSE worth[any(T)] + g[T \ {any(T)}]]
           sums == CHOOSE g : g = Added(g)
<1>1. \A T \in SUBSET U : T # {} => any(T) \in T
  OBVIOUS
<1> HIDE DEF any
<1>2. PICK g : Folds(g, U, Nat, 0, first, step)
  <2>1. \A T \in SUBSET U : T # {} => first[T] \in T
    BY <1>1
  <2>2. step \in [U \X Nat -> Nat]
    <3>1. ASSUME NEW p \in U \X Nat PROVE worth[p[1]] + p[2] \in Nat
      <4>1. p[2] \in Nat /\ worth[p[1]] \in Nat
        OBVIOUS
      <4> QED
        BY <4>1
    <3> QED
      BY <3>1
  <2>3. 0 \in Nat
    OBVIOUS
  <2> HIDE DEF first, step
  <2> QED
    BY <2>1, <2>2, <2>3, SetRecursion
<1>3. g = Added(g)
  <2>1. \A T \in SUBSET U : T # {} => step[<<first[T], g[T \ {first[T]}]>>] = worth[any(T)] + g[T \ {any(T)}]
    BY <1>1, <1>2 DEF Folds
  <2> HIDE DEF step
  <2> QED
    BY <1>2, <2>1 DEF Folds
<1>4. sums = Added(sums)
  <2> HIDE DEF Added
  <2> QED
    BY <1>3
<1>5. FoldFunction(+, 0, worth) = sums[U]
  BY DEF FoldFunction, FoldFunctionOnSet, MapThenFoldSet, any
<1> HIDE DEF sums
<1>6. sums[{}] = 0 /\ \A T \in SUBSET U : T # {} => sums[T] = worth[any(T)] + sums[T \ {any(T)}]
  BY <1>4
<1> QED
  BY <1>1, <1>5, <1>6

(* The tags of a report, and those of its unaccounted bucket.              *)
Seen(entries) == {u \in {e.rec.tag : e \in ToSet(entries)} : isAccounted(u)}

Bare == {t \in AllTags : ~ isAccounted(t)}

LEMMA PositionsOfTags ==
    ASSUME NEW entries \in Seq(Entry)
    PROVE  /\ IsFiniteSet(Seen(entries)) /\ Seen(entries) \subseteq AllTags
           /\ Positions(entries, {}) = {}
           /\ \A T : \A t \in T : /\ Positions(entries, T) = Positions(entries, {t}) \cup Positions(entries, T \ {t})
                                  /\ Positions(entries, {t}) \cap Positions(entries, T \ {t}) = {}
           /\ Positions(entries, AllTags) = Positions(entries, Seen(entries)) \cup Positions(entries, Bare)
           /\ Positions(entries, Seen(entries)) \cap Positions(entries, Bare) = {}
<1> DEFINE f == [i \in DOMAIN entries |-> entries[i].rec.tag]
           seen == {e.rec.tag : e \in ToSet(entries)}
<1>1. seen = {entries[i].rec.tag : i \in DOMAIN entries}
  BY DEF ToSet
<1>2. f \in Surjection(DOMAIN entries, seen)
  BY <1>1 DEF Surjection
<1>3. IsFiniteSet(seen)
  <2> HIDE DEF f, seen
  <2> QED
    BY <1>2, EntriesHaveTokens, FS_Surjection
<1>4. Seen(entries) \subseteq seen /\ seen \subseteq AllTags
  BY <1>1, EntriesHaveTokens DEF Seen
<1>5. IsFiniteSet(Seen(entries))
  <2> HIDE DEF seen
  <2> QED
    BY <1>3, <1>4, FS_Subset
<1>6. \A i \in DOMAIN entries : entries[i].rec.tag \in AllTags
                              /\ (entries[i].rec.tag \in Seen(entries) <=> isAccounted(entries[i].rec.tag))
  BY <1>1, EntriesHaveTokens DEF Seen
<1>7. /\ Positions(entries, AllTags) = Positions(entries, Seen(entries)) \cup Positions(entries, Bare)
      /\ Positions(entries, Seen(entries)) \cap Positions(entries, Bare) = {}
  BY <1>6 DEF Positions, Bare
<1> QED
  BY <1>4, <1>5, <1>7 DEF Positions

LEMMA TokensReconcile ==
    ASSUME NEW entries \in Seq(Entry)
    PROVE  LET rep == Report("tokens", entries)
           IN  Plus("tokens", SumOfTags(rep), rep.unaccounted.sum) = rep.total.sum
<1> DEFINE rep == Report("tokens", entries)
           U == Seen(entries)
           worth == [t \in U |-> rep.tags[t].sum]
           P(T) == Positions(entries, T)
           all == Tokens(entries)
<1>1. PICK sums : /\ Sums(sums, all)
                  /\ \A tags : Sum("tokens", Bucket("tokens", entries, tags)) = sums[P(tags)]
  BY BucketSums
<1>2. /\ IsFiniteSet(DOMAIN all) /\ all \in [DOMAIN all -> Int]
      /\ \A T : P(T) \in SUBSET DOMAIN all
  BY EntriesHaveTokens
<1>3. \A tags : statsOf("tokens", Bucket("tokens", entries, tags)).sum = sums[P(tags)]
  BY <1>1, StatsOfBucket DEF Sums
<1>4. /\ DOMAIN rep.tags = U /\ \A t \in U : rep.tags[t].sum = sums[P({t})]
      /\ rep.unaccounted.sum = sums[P(Bare)] /\ rep.total.sum = sums[P(AllTags)]
  BY <1>3 DEF Report, Unaccounted, Bare, Seen
<1>5. \A T : sums[P(T)] \in Int
  BY <1>1, <1>2 DEF Sums
<1>6. worth \in [U -> Int] /\ \A t \in U : worth[t] = sums[P({t})]
  BY <1>4, <1>5
<1>7. SumOfTags(rep) = FoldFunction(LAMBDA x, y : Plus("tokens", x, y), 0, worth)
  BY <1>4 DEF SumOfTags
<1>10. IsFiniteSet(U)
  BY PositionsOfTags
<1> HIDE DEF rep, worth, all, P
<1>11. ASSUME NEW A, NEW B, P(A) \cap P(B) = {} PROVE sums[P(A) \cup P(B)] = Wrap(sums[P(A)] + sums[P(B)])
  <2> DEFINE a == P(A)
             b == P(B)
             D == DOMAIN all
  <2>1. a \in SUBSET DOMAIN all /\ b \in SUBSET DOMAIN all /\ a \cap b = {}
    BY <1>2, <1>11
  <2> HIDE DEF a, b, D
  <2>2. IsFiniteSet(D) /\ all \in [D -> Int] /\ Sums(sums, all) /\ a \in SUBSET D /\ b \in SUBSET D
    BY <1>1, <1>2, <2>1 DEF D
  <2>4. \A c, d \in SUBSET D : c \cap d = {} => sums[c \cup d] = Wrap(sums[c] + sums[d])
    BY <2>2, SumsAdd
  <2>3. sums[a \cup b] = Wrap(sums[a] + sums[b])
    BY <2>1, <2>2, <2>4
  <2> QED
    BY <2>3 DEF a, b
<1>8. SumOfTags(rep) = sums[P(U)]
  <2>1. PICK h : /\ h[{}] = 0
                 /\ \A T \in SUBSET U : T # {} => \E t \in T : h[T] = Wrap(worth[t] + h[T \ {t}])
                 /\ FoldFunction(LAMBDA x, y : Plus("tokens", x, y), 0, worth) = h[U]
    BY <1>6, PositionsOfTags, FoldOfTokens
  <2> DEFINE Q == {T \in SUBSET U : h[T] = sums[P(T)]}
  <2>2. ASSUME NEW T \in SUBSET U, \A x \in T : T \ {x} \in Q PROVE T \in Q
    <3>1. CASE T = {}
      BY <1>1, <2>1, <3>1, PositionsOfTags DEF Sums, P
    <3>2. CASE T # {}
      <4>1. PICK t \in T : h[T] = Wrap(worth[t] + h[T \ {t}])
        BY <2>1, <3>2
      <4>2. h[T \ {t}] = sums[P(T \ {t})] /\ worth[t] = sums[P({t})]
        BY <1>6, <2>2, <4>1
      <4>3. P(T) = P({t}) \cup P(T \ {t}) /\ P({t}) \cap P(T \ {t}) = {}
        BY <4>1, PositionsOfTags DEF P
      <4>4. sums[P(T)] = Wrap(sums[P({t})] + sums[P(T \ {t})])
        BY <1>11, <4>3
      <4> QED
        BY <4>1, <4>2, <4>4
    <3> QED
      BY <3>1, <3>2
  <2>3. SUBSET U \subseteq Q
    <3> HIDE DEF Q, U
    <3> QED
      BY <1>10, <2>2, SetInduction
  <2> QED
    BY <1>7, <2>1, <2>3
<1>9. sums[P(AllTags)] = Wrap(sums[P(U)] + sums[P(Bare)])
  <2>1. P(AllTags) = P(U) \cup P(Bare) /\ P(U) \cap P(Bare) = {}
    BY PositionsOfTags DEF P
  <2> QED
    BY <1>11, <2>1
<1> QED
  BY <1>4, <1>8, <1>9 DEF Plus, rep

LEMMA CountsReconcile ==
    ASSUME NEW entries \in Seq(Entry), NEW kind \in {"tokens", "savings"}
    PROVE  LET rep == Report(kind, entries)
           IN  CountOfTags(rep) + rep.unaccounted.count = rep.total.count
<1> DEFINE rep == Report(kind, entries)
           U == Seen(entries)
           worth == [t \in U |-> rep.tags[t].count]
           P(T) == Positions(entries, T)
<1>1. \A T : IsFiniteSet(P(T)) /\ Cardinality(P(T)) \in Nat
  BY EntriesHaveTokens, FS_Subset, FS_CardinalityType
<1>2. \A tags : statsOf(kind, Bucket(kind, entries, tags)).count = Cardinality(P(tags))
  BY StatsOfBucket
<1>3. /\ DOMAIN rep.tags = U /\ \A t \in U : rep.tags[t].count = Cardinality(P({t}))
      /\ rep.unaccounted.count = Cardinality(P(Bare)) /\ rep.total.count = Cardinality(P(AllTags))
  BY <1>2 DEF Report, Unaccounted, Bare, Seen
<1>4. worth \in [U -> Nat] /\ \A t \in U : worth[t] = Cardinality(P({t}))
  BY <1>1, <1>3
<1>5. CountOfTags(rep) = FoldFunction(+, 0, worth)
  BY <1>3 DEF CountOfTags
<1>10. IsFiniteSet(U)
  BY PositionsOfTags
<1> HIDE DEF rep, worth, P
<1>6. ASSUME NEW A, NEW B, P(A) \cap P(B) = {}
      PROVE  Cardinality(P(A) \cup P(B)) = Cardinality(P(A)) + Cardinality(P(B))
  <2> DEFINE a == P(A)
             b == P(B)
  <2>1. IsFiniteSet(a) /\ IsFiniteSet(b) /\ Cardinality(a \cap b) = 0 /\ Cardinality(a) \in Nat /\ Cardinality(b) \in Nat
    BY <1>1, <1>6, FS_EmptySet
  <2> HIDE DEF a, b
  <2>2. Cardinality(a \cup b) = Cardinality(a) + Cardinality(b) - Cardinality(a \cap b)
    BY <2>1, FS_Union
  <2>3. Cardinality(a \cup b) = Cardinality(a) + Cardinality(b)
    BY <2>1, <2>2
  <2> QED
    BY <2>3 DEF a, b
<1>7. CountOfTags(rep) = Cardinality(P(U))
  <2>1. PICK h : /\ h[{}] = 0
                 /\ \A T \in SUBSET U : T # {} => \E t \in T : h[T] = worth[t] + h[T \ {t}]
                 /\ FoldFunction(+, 0, worth) = h[U]
    BY <1>4, PositionsOfTags, FoldOfCounts
  <2> DEFINE Q == {T \in SUBSET U : h[T] = Cardinality(P(T))}
  <2>2. ASSUME NEW T \in SUBSET U, \A x \in T : T \ {x} \in Q PROVE T \in Q
    <3>1. CASE T = {}
      BY <2>1, <3>1, PositionsOfTags, FS_EmptySet DEF P
    <3>2. CASE T # {}
      <4>1. PICK t \in T : h[T] = worth[t] + h[T \ {t}]
        BY <2>1, <3>2
      <4>2. h[T \ {t}] = Cardinality(P(T \ {t})) /\ worth[t] = Cardinality(P({t}))
        BY <1>4, <2>2, <4>1
      <4>3. P(T) = P({t}) \cup P(T \ {t}) /\ P({t}) \cap P(T \ {t}) = {}
        BY <4>1, PositionsOfTags DEF P
      <4> QED
        BY <1>6, <4>1, <4>2, <4>3
    <3> QED
      BY <3>1, <3>2
  <2>3. SUBSET U \subseteq Q
    <3> HIDE DEF Q, U
    <3> QED
      BY <1>10, <2>2, SetInduction
  <2> QED
    BY <1>5, <2>1, <2>3
<1>8. P(AllTags) = P(U) \cup P(Bare) /\ P(U) \cap P(Bare) = {}
  BY PositionsOfTags DEF P
<1> QED
  BY <1>3, <1>6, <1>7, <1>8 DEF rep

(***************************************************************************)
(* Nothing is lost between the tags of a report and its total, however     *)
(* many records it is made of and whatever wraps around on the way.        *)
(***************************************************************************)
THEOREM ReportsReconcile == Spec => []Reconciles
<1>1. Typed => Reconciles
  <2> SUFFICES ASSUME Typed, NEW r \in Readers, NEW kind \in {"tokens", "savings"}
               PROVE  LET rep == Report(kind, view[r])
                      IN  /\ kind = "tokens" =>
                               Plus(kind, SumOfTags(rep), rep.unaccounted.sum) = rep.total.sum
                          /\ CountOfTags(rep) + rep.unaccounted.count = rep.total.count
    BY DEF Reconciles
  <2>1. view[r] \in Seq(Entry)
    BY DEF Typed, TypeOK
  <2>2. CASE kind = "tokens"
    BY <2>1, <2>2, TokensReconcile, CountsReconcile
  <2>3. CASE kind = "savings"
    BY <2>1, <2>3, CountsReconcile
  <2> QED
    BY <2>2, <2>3
<1> QED
  BY <1>1, AlwaysTyped, PTL

-----------------------------------------------------------------------------
(***************************************************************************)
(* Reports do not depend on the order of the records.  q carries the       *)
(* positions of vals to those of others, where the same values are.        *)
(***************************************************************************)
Carries(q, vals, others) ==
    /\ q \in Bijection(DOMAIN vals, DOMAIN others)
    /\ \A x \in DOMAIN vals : vals[x] = others[q[x]]

(* The ways to enumerate the values of vals.                               *)
Listings(vals) ==
    LET N == 1 .. Cardinality(DOMAIN vals)
    IN  {[i \in N |-> vals[p[i]]] : p \in Bijection(N, DOMAIN vals)}

LEMMA ListedAlike ==
    ASSUME NEW vals, NEW others, NEW q, Carries(q, vals, others), IsFiniteSet(DOMAIN vals)
    PROVE  /\ Cardinality(DOMAIN vals) = Cardinality(DOMAIN others)
           /\ Listings(vals) = Listings(others)
<1> DEFINE N == 1 .. Cardinality(DOMAIN vals)
<1>1. Cardinality(DOMAIN vals) = Cardinality(DOMAIN others)
  BY FS_Bijection DEF Carries, ExistsBijection
<1>2. ASSUME NEW p \in Bijection(N, DOMAIN vals)
      PROVE  \E r \in Bijection(N, DOMAIN others) : [i \in N |-> vals[p[i]]] = [i \in N |-> others[r[i]]]
  <2> DEFINE r == [i \in N |-> q[p[i]]]
  <2>1. \A i \in N : p[i] \in DOMAIN vals /\ q[p[i]] \in DOMAIN others
    BY DEF Carries, Bijection, Injection
  <2>2. r \in Injection(N, DOMAIN others)
    BY <2>1 DEF Carries, Bijection, Injection, IsInjective
  <2>3. r \in Surjection(N, DOMAIN others)
    <3>1. ASSUME NEW y \in DOMAIN others PROVE \E i \in N : r[i] = y
      <4>1. PICK x \in DOMAIN vals : q[x] = y
        BY DEF Carries, Bijection, Surjection
      <4>2. PICK i \in N : p[i] = x
        BY DEF Bijection, Surjection
      <4> QED
        BY <4>1, <4>2
    <3> QED
      BY <2>1, <3>1 DEF Surjection
  <2>4. \A i \in N : vals[p[i]] = others[r[i]]
    BY <2>1 DEF Carries
  <2> QED
    BY <2>2, <2>3, <2>4 DEF Bijection
<1>3. ASSUME NEW r \in Bijection(N, DOMAIN others)
      PROVE  \E p \in Bijection(N, DOMAIN vals) : [i \in N |-> others[r[i]]] = [i \in N |-> vals[p[i]]]
  <2> DEFINE back(y) == CHOOSE x \in DOMAIN vals : q[x] = y
             p == [i \in N |-> back(r[i])]
  <2>1. \A y \in DOMAIN others : back(y) \in DOMAIN vals /\ q[back(y)] = y
    BY DEF Carries, Bijection, Surjection
  <2>2. \A x \in DOMAIN vals : back(q[x]) = x
    BY <2>1 DEF Carries, Bijection, Injection, IsInjective
  <2> HIDE DEF back
  <2>3. \A i \in N : r[i] \in DOMAIN others
    BY DEF Bijection, Injection
  <2>4. p \in Injection(N, DOMAIN vals)
    <3>1. \A i, j \in N : p[i] = p[j] => r[i] = r[j]
      BY <2>1, <2>3
    <3>2. \A i, j \in N : r[i] = r[j] => i = j
      BY DEF Bijection, Injection, IsInjective
    <3> QED
      BY <2>1, <2>3, <3>1, <3>2 DEF Injection, IsInjective
  <2>5. p \in Surjection(N, DOMAIN vals)
    <3>1. ASSUME NEW x \in DOMAIN vals PROVE \E i \in N : p[i] = x
      <4>1. q[x] \in DOMAIN others
        BY DEF Carries, Bijection, Injection
      <4>2. PICK i \in N : r[i] = q[x]
        BY <4>1 DEF Bijection, Surjection
      <4> QED
        BY <2>2, <4>2
    <3> QED
      BY <2>1, <2>3, <3>1 DEF Surjection
  <2>6. \A i \in N : others[r[i]] = vals[p[i]]
    BY <2>1, <2>3 DEF Carries
  <2> QED
    BY <2>4, <2>5, <2>6 DEF Bijection
<1>4. Listings(vals) = {[i \in N |-> vals[p[i]]] : p \in Bijection(N, DOMAIN vals)}
  BY DEF Listings
<1>5. Listings(others) = {[i \in N |-> others[p[i]]] : p \in Bijection(N, DOMAIN others)}
  BY <1>1 DEF Listings
<1>6. ASSUME NEW f \in Listings(vals) PROVE f \in Listings(others)
  <2>1. PICK p \in Bijection(N, DOMAIN vals) : f = [i \in N |-> vals[p[i]]]
    BY <1>4
  <2>2. PICK r \in Bijection(N, DOMAIN others) : f = [i \in N |-> others[r[i]]]
    BY <1>2, <2>1
  <2> QED
    BY <1>5, <2>2
<1>7. ASSUME NEW f \in Listings(others) PROVE f \in Listings(vals)
  <2>1. PICK r \in Bijection(N, DOMAIN others) : f = [i \in N |-> others[r[i]]]
    BY <1>5
  <2>2. PICK p \in Bijection(N, DOMAIN vals) : f = [i \in N |-> vals[p[i]]]
    BY <1>3, <2>1
  <2> QED
    BY <1>4, <2>2
<1> QED
  BY <1>1, <1>6, <1>7

LEMMA SortedAlike ==
    ASSUME NEW vals, NEW others, NEW q, Carries(q, vals, others), IsFiniteSet(DOMAIN vals)
    PROVE  /\ Cardinality(DOMAIN vals) = Cardinality(DOMAIN others)
           /\ Sorted(vals) = Sorted(others)
<1> DEFINE first(n, L) == CHOOSE s \in L : \A i, j \in 1 .. n : i < j => s[i] <= s[j]
<1>1. \A v : Sorted(v) = first(Cardinality(DOMAIN v), Listings(v))
  BY DEF Sorted, Listings
<1> HIDE DEF first
<1> QED
  BY <1>1, ListedAlike

(* The records that entries and permuted have of one set of tags.          *)
LEMMA BucketsAlike ==
    ASSUME NEW entries \in Seq(Entry), NEW p \in Bijection(DOMAIN entries, DOMAIN entries), NEW tags
    PROVE  LET permuted == [i \in DOMAIN entries |-> entries[p[i]]]
               carry == [i \in Positions(permuted, tags) |-> p[i]]
           IN  /\ permuted \in Seq(Entry)
               /\ DOMAIN permuted = DOMAIN entries
               /\ Through(carry, Positions(permuted, tags)) = Positions(entries, tags)
               /\ carry \in Bijection(Positions(permuted, tags), Positions(entries, tags))
               /\ \A kind : Carries(carry, Bucket(kind, permuted, tags), Bucket(kind, entries, tags))
<1> DEFINE D == DOMAIN entries
           permuted == [i \in D |-> entries[p[i]]]
           A == Positions(permuted, tags)
           B == Positions(entries, tags)
           carry == [i \in A |-> p[i]]
<1>1. /\ Len(entries) \in Nat /\ D = 1 .. Len(entries)
      /\ \A i \in D : p[i] \in D /\ entries[p[i]] \in Entry
  BY DEF Bijection, Injection
<1>2. permuted \in Seq(Entry) /\ DOMAIN permuted = D
  BY <1>1
<1>3. \A i \in D : i \in A <=> p[i] \in B
  BY <1>1 DEF Positions
<1>4. A \subseteq D /\ B \subseteq D
  BY DEF Positions
<1> HIDE DEF A, B
<1>5. carry \in Injection(A, B)
  BY <1>3, <1>4 DEF Bijection, Injection, IsInjective
<1>6. \A y \in B : \E i \in A : carry[i] = y
  BY <1>3, <1>4 DEF Bijection, Surjection
<1>7. carry \in Surjection(A, B)
  BY <1>3, <1>4, <1>6 DEF Surjection
<1>8. Through(carry, A) = B
  BY <1>3, <1>4, <1>6 DEF Through
<1>9. ASSUME NEW kind PROVE Carries(carry, Bucket(kind, permuted, tags), Bucket(kind, entries, tags))
  <2>1. /\ Bucket(kind, permuted, tags) = [i \in A |-> Worth(kind, permuted[i].rec)]
        /\ Bucket(kind, entries, tags) = [i \in B |-> Worth(kind, entries[i].rec)]
    BY DEF Bucket, Positions, A, B
  <2> QED
    BY <1>3, <1>4, <1>5, <1>7, <2>1 DEF Carries, Bijection
<1> QED
  BY <1>2, <1>5, <1>7, <1>8, <1>9 DEF A, B, Bijection

LEMMA TokenSumsAlike ==
    ASSUME NEW entries \in Seq(Entry), NEW p \in Bijection(DOMAIN entries, DOMAIN entries), NEW tags
    PROVE  Sum("tokens", Bucket("tokens", [i \in DOMAIN entries |-> entries[p[i]]], tags))
              = Sum("tokens", Bucket("tokens", entries, tags))
<1> DEFINE permuted == [i \in DOMAIN entries |-> entries[p[i]]]
           vals == Tokens(permuted)
           others == Tokens(entries)
<1>1. permuted \in Seq(Entry) /\ DOMAIN permuted = DOMAIN entries
  BY BucketsAlike
<1>2. PICK sums : /\ Sums(sums, vals)
                  /\ \A T : Sum("tokens", Bucket("tokens", permuted, T)) = sums[Positions(permuted, T)]
  <2> HIDE DEF permuted
  <2> QED
    BY <1>1, BucketSums
<1>3. PICK otherSums : /\ Sums(otherSums, others)
                       /\ \A T : Sum("tokens", Bucket("tokens", entries, T)) = otherSums[Positions(entries, T)]
  BY BucketSums
<1>4. Positions(permuted, tags) \in SUBSET DOMAIN vals
  <2> HIDE DEF permuted
  <2> QED
    BY <1>1, EntriesHaveTokens
<1>5. /\ DOMAIN vals = DOMAIN entries /\ DOMAIN others = DOMAIN entries /\ IsFiniteSet(DOMAIN vals)
      /\ \A x \in DOMAIN vals : vals[x] = others[p[x]]
  <2>1. \A x \in DOMAIN entries : p[x] \in DOMAIN entries
    BY DEF Bijection, Injection
  <2> QED
    BY <2>1, EntriesHaveTokens DEF Tokens
<1>6. p \in Injection(DOMAIN vals, DOMAIN others)
  BY <1>5 DEF Bijection
<1>7. Through(p, Positions(permuted, tags)) = Positions(entries, tags)
  <2>1. \A i \in Positions(permuted, tags) : [j \in Positions(permuted, tags) |-> p[j]][i] = p[i]
    OBVIOUS
  <2>2. Through([j \in Positions(permuted, tags) |-> p[j]], Positions(permuted, tags))
           = Through(p, Positions(permuted, tags))
    BY <2>1 DEF Through
  <2> QED
    BY <2>2, BucketsAlike
<1> HIDE DEF vals, others, permuted
<1>8. Sums(sums, vals) /\ Sums(otherSums, others) /\ IsFiniteSet(DOMAIN vals)
  BY <1>2, <1>3, <1>5
<1>9. \A T \in SUBSET DOMAIN vals : sums[T] = otherSums[Through(p, T)]
  BY <1>5, <1>6, <1>8, SumsCarry
<1>10. sums[Positions(permuted, tags)] = otherSums[Positions(entries, tags)]
  BY <1>4, <1>7, <1>9
<1> QED
  BY <1>2, <1>3, <1>10 DEF permuted

LEMMA SeenAlike ==
    ASSUME NEW entries \in Seq(Entry), NEW p \in Bijection(DOMAIN entries, DOMAIN entries)
    PROVE  Seen([i \in DOMAIN entries |-> entries[p[i]]]) = Seen(entries)
<1> DEFINE D == DOMAIN entries
           permuted == [i \in D |-> entries[p[i]]]
<1>1. ToSet(permuted) = ToSet(entries)
  <2>1. ToSet(permuted) = {entries[p[i]] : i \in D} /\ ToSet(entries) = {entries[i] : i \in D}
    BY DEF ToSet
  <2>2. /\ \A i \in D : p[i] \in D
        /\ \A j \in D : \E i \in D : p[i] = j
    BY DEF Bijection, Injection, Surjection
  <2>3. \A j \in D : \E i \in D : entries[p[i]] = entries[j]
    BY <2>2
  <2>4. ToSet(permuted) \subseteq ToSet(entries)
    BY <2>1, <2>2
  <2>5. ToSet(entries) \subseteq ToSet(permuted)
    <3>1. ASSUME NEW e \in ToSet(entries) PROVE e \in ToSet(permuted)
      <4>1. PICK j \in D : e = entries[j]
        BY <2>1
      <4>2. PICK i \in D : entries[p[i]] = entries[j]
        BY <2>3
      <4> QED
        BY <2>1, <4>1, <4>2
    <3> QED
      BY <3>1
  <2> QED
    BY <2>4, <2>5
<1> QED
  BY <1>1 DEF Seen

(* The statistics of one set of tags, in both logs.                        *)
LEMMA StatsAlike ==
    ASSUME NEW entries \in Seq(Entry), NEW p \in Bijection(DOMAIN entries, DOMAIN entries), NEW tags
    PROVE  LET permuted == [i \in DOMAIN entries |-> entries[p[i]]]
           IN  /\ statsOf("tokens", Bucket("tokens", permuted, tags))
                     = statsOf("tokens", Bucket("tokens", entries, tags))
               /\ WithoutSum(statsOf("savings", Bucket("savings", permuted, tags)))
                     = WithoutSum(statsOf("savings", Bucket("savings", entries, tags)))
<1> DEFINE permuted == [i \in DOMAIN entries |-> entries[p[i]]]
<1>1. ASSUME NEW kind \in {"tokens", "savings"}
      PROVE  /\ Cardinality(DOMAIN Bucket(kind, permuted, tags)) = Cardinality(DOMAIN Bucket(kind, entries, tags))
             /\ Sorted(Bucket(kind, permuted, tags)) = Sorted(Bucket(kind, entries, tags))
  <2> DEFINE carry == [i \in Positions(permuted, tags) |-> p[i]]
             vals == Bucket(kind, permuted, tags)
             others == Bucket(kind, entries, tags)
  <2>1. permuted \in Seq(Entry) /\ Carries(carry, vals, others)
    BY BucketsAlike
  <2>2. DOMAIN vals = Positions(permuted, tags)
    BY DEF Bucket, Positions
  <2>3. IsFiniteSet(DOMAIN vals)
    <3> HIDE DEF permuted, vals
    <3> QED
      BY <2>1, <2>2, EntriesHaveTokens, FS_Subset
  <2> HIDE DEF permuted, carry, vals, others
  <2>4. Cardinality(DOMAIN vals) = Cardinality(DOMAIN others) /\ Sorted(vals) = Sorted(others)
    BY <2>1, <2>3, SortedAlike
  <2> QED
    BY <2>4 DEF vals, others
<1>2. Sum("tokens", Bucket("tokens", permuted, tags)) = Sum("tokens", Bucket("tokens", entries, tags))
  BY TokenSumsAlike
<1> HIDE DEF permuted
<1>3. statsOf("tokens", Bucket("tokens", permuted, tags)) = statsOf("tokens", Bucket("tokens", entries, tags))
  BY <1>1, <1>2 DEF statsOf
<1>4. WithoutSum(statsOf("savings", Bucket("savings", permuted, tags)))
         = WithoutSum(statsOf("savings", Bucket("savings", entries, tags)))
  <2> DEFINE vals == Bucket("savings", permuted, tags)
             others == Bucket("savings", entries, tags)
  <2>1. Cardinality(DOMAIN vals) = Cardinality(DOMAIN others) /\ Sorted(vals) = Sorted(others)
    BY <1>1
  <2> HIDE DEF vals, others
  <2> DEFINE n == Cardinality(DOMAIN vals)
             a == Sorted(vals)
             stats(sum) == IF n = 0 THEN Empty
                           ELSE [count |-> n, sum |-> sum, min |-> a[1], max |-> a[n], p95 |-> percentile(a, 95)]
  <2>2. statsOf("savings", vals) = stats(Sum("savings", vals))
    BY DEF statsOf
  <2>3. statsOf("savings", others) = stats(Sum("savings", others))
    BY <2>1 DEF statsOf
  <2>4. \A x, y : WithoutSum(stats(x)) = WithoutSum(stats(y))
    BY DEF Empty, WithoutSum
  <2> HIDE DEF stats
  <2>5. WithoutSum(statsOf("savings", vals)) = WithoutSum(statsOf("savings", others))
    BY <2>2, <2>3, <2>4
  <2> QED
    BY <2>5 DEF vals, others
<1> QED
  BY <1>3, <1>4 DEF permuted

LEMMA ReportsAlike ==
    ASSUME NEW entries \in Seq(Entry), NEW p \in Bijection(DOMAIN entries, DOMAIN entries)
    PROVE  LET permuted == [i \in DOMAIN entries |-> entries[p[i]]]
           IN  /\ Report("tokens", permuted) = Report("tokens", entries)
               /\ Unsummed(Report("savings", permuted)) = Unsummed(Report("savings", entries))
<1> DEFINE permuted == [i \in DOMAIN entries |-> entries[p[i]]]
           stats(kind, log_, tags) == statsOf(kind, Bucket(kind, log_, tags))
<1>1. Seen(permuted) = Seen(entries)
  BY SeenAlike
<1>2. \A tags : /\ stats("tokens", permuted, tags) = stats("tokens", entries, tags)
                /\ WithoutSum(stats("savings", permuted, tags))
                      = WithoutSum(stats("savings", entries, tags))
  BY StatsAlike
<1>3. \A kind, l : Report(kind, l) = [tags |-> [t \in Seen(l) |-> stats(kind, l, {t})],
                                      unaccounted |-> stats(kind, l, Bare),
                                      total |-> stats(kind, l, AllTags)]
  BY DEF Report, Unaccounted, Seen, Bare
<1>4. \A l : Unsummed(Report("savings", l))
                = [tags |-> [t \in Seen(l) |-> WithoutSum(stats("savings", l, {t}))],
                   unaccounted |-> WithoutSum(stats("savings", l, Bare)),
                   total |-> WithoutSum(stats("savings", l, AllTags))]
  <2> HIDE DEF stats
  <2> QED
    BY <1>3 DEF Unsummed
<1> HIDE DEF permuted, stats
<1>5. Report("tokens", permuted) = Report("tokens", entries)
  BY <1>1, <1>2, <1>3
<1>6. Unsummed(Report("savings", permuted)) = Unsummed(Report("savings", entries))
  BY <1>1, <1>2, <1>4
<1> QED
  BY <1>5, <1>6 DEF permuted

(***************************************************************************)
(* A report is a function of the bag of its records, sums of costs apart:  *)
(* neither the interleaving of the recorders nor the wrap of an int64 lets *)
(* the order of the log show.                                              *)
(***************************************************************************)
THEOREM ReportsIgnoreOrder == Spec => []OrderIrrelevant
<1>1. Typed => OrderIrrelevant
  <2> SUFFICES ASSUME Typed, NEW r \in Readers,
                      NEW p \in Bijection(DOMAIN view[r], DOMAIN view[r])
               PROVE  LET permuted == [i \in DOMAIN view[r] |-> view[r][p[i]]]
                      IN  /\ Report("tokens", permuted) = Report("tokens", view[r])
                          /\ Unsummed(Report("savings", permuted))
                                = Unsummed(Report("savings", view[r]))
    BY DEF OrderIrrelevant
  <2>1. view[r] \in Seq(Entry)
    BY DEF Typed, TypeOK
  <2> QED
    BY <2>1, ReportsAlike
<1> QED
  BY <1>1, AlwaysTyped, PTL

=============================================================================
